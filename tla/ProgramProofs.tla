--------------------------- MODULE ProgramProofs ---------------------------
(***************************************************************************)
(* The program's books, its table of owners and what its instructions take *)
(* from nobody, for every table size, every set of users and every         *)
(* argument, with and without a keeper.                                    *)
(***************************************************************************)
EXTENDS Keeper, EngineOpsProofs

\* What the token balance and the engine's books need of each other.
Solvent ==
    /\ Result(eng) /\ Ok(eng) /\ tokens = eng.vault
    /\ clock \in Nat /\ gc_cursor \in Nat /\ feed.price \in Int

\* The free list: every slot that is not in use, once.
IsFreeList(s, used) ==
    /\ s \in Seq(Accounts)
    /\ \A k, l \in 1..Len(s) : s[k] = s[l] => k = l
    /\ \A i \in Accounts : i \notin used <=> \E k \in 1..Len(s) : s[k] = i

Owners ==
    /\ eng.used \subseteq Accounts
    /\ owner \in [Accounts -> Users \union {LP, NoOne}]
    /\ \A i, j \in eng.used : owner[i] = owner[j] => i = j
    /\ \A i \in Accounts : owner[i] # NoOne <=> i \in eng.used
    /\ \A i \in Accounts : owner[i] = LP => i = PROTOCOL_LP_SLOT
    /\ IsFreeList(free, eng.used)
    /\ owner[PROTOCOL_LP_SLOT] # LP => Flat(eng)

-----------------------------------------------------------------------------
(* Basic facts *)

\* What the proofs use of the constants.
LEMMA Bounds ==
    /\ LIQ_BOUNTY_BPS \in Nat /\ CRANK_BOUNTY \in Nat /\ GC_CLOSE_BUDGET \in Nat
    /\ Amounts \subseteq Nat /\ Sizes \subseteq Int /\ Prices \subseteq Int
    /\ \A o \in Openings : IsOpening(o) /\ IsOwned(o)
    /\ PROTOCOL_LP_SLOT \in Accounts
    /\ LP \notin Users /\ NoOne \notin Users /\ LP # NoOne
  BY ProgramAssumption DEF PROTOCOL_LP_SLOT

\* The table has at least slot 0, and the sweep a length.
LEMMA TableSize ==
    /\ MaxAccounts \in Nat \ {0} /\ Accounts = 0..(MaxAccounts - 1)
    /\ GcLength \in Nat
<1>1. MaxAccounts \in Nat
  BY FS_CardinalityType, Consts DEF MaxAccounts
<1>2. 0 \in Accounts /\ Accounts = 0..(MaxAccounts - 1)
  BY ProgramAssumption DEF MaxAccounts
<1>3. MaxAccounts # 0
  BY <1>1, <1>2
<1>4. QED
  BY <1>1, <1>2, <1>3, Bounds DEF GcLength, Lesser

\* The owner scan finds the lowest slot of a set that has one.
LEMMA FirstIn ==
    ASSUME NEW S, S \subseteq Accounts, S # {}
    PROVE  First(S) \in S
<1> DEFINE T == {n \in Nat : \A j \in Nat : j <= n => j \notin S}
<1>1. S \subseteq Nat
  BY Consts
<1>2. SUFFICES ASSUME \A i \in S : ~\A j \in S : i <= j PROVE FALSE
  BY DEF First
<1>3. 0 \in T
  BY <1>1, <1>2
<1>4. ASSUME NEW n \in Nat, n \in T PROVE n + 1 \in T
  <2>1. \A j \in Nat : j <= n + 1 => j <= n \/ j = n + 1
    OBVIOUS
  <2>2. n + 1 \notin S
    <3>1. SUFFICES ASSUME n + 1 \in S PROVE FALSE
      OBVIOUS
    <3>2. \A j \in S : n + 1 <= j
      BY <1>1, <1>4
    <3>3. QED
      BY <1>2, <3>1, <3>2
  <2>3. QED
    BY <1>4, <2>1, <2>2
<1>5. \A n \in Nat : n \in T
  <2> HIDE DEF T
  <2>1. QED
    BY <1>3, <1>4, NatSetInduction
<1>6. PICK x \in S : TRUE
  OBVIOUS
<1>7. x \in Nat /\ x \in T
  <2> HIDE DEF T
  <2>1. QED
    BY <1>1, <1>5
<1>8. QED
  BY <1>7

\* The slot an instruction finds for its caller is in use.
LEMMA OwnSlot ==
    ASSUME Solvent, NEW u, OwnSlots(u) # {}
    PROVE  First(OwnSlots(u)) \in eng.used /\ First(OwnSlots(u)) \in Accounts
<1>1. OwnSlots(u) \subseteq eng.used /\ eng.used \subseteq Accounts
  BY EngineFields DEF OwnSlots, Solvent, Result, Good
<1>2. QED
  BY <1>1, FirstIn

\* The admission pair.
LEMMA PairType == Pair \in Int \X Int
  BY Consts DEF Pair

-----------------------------------------------------------------------------
(* What a call takes from nobody *)

\* An account without a position, PnL, reserve or debt: a touch finds nothing
\* to do.
AtRest(a) ==
    a.position_basis_q = 0 /\ a.reserved_pnl = 0 /\ a.pnl = 0 /\ a.fee_credits = 0

\* What may be touched of K is idle: one account, ...
Calm(e, i, K) == Ok(e) /\ i \in K => AtRest(e.acc[i])

\* ... and all that have been touched.
Restful(e, K) == Ok(e) => \A j \in K : j \in e.ctx.touched => AtRest(e.acc[j])

\* The accounts of K are as they were, and the insurance fund has not been
\* taken below its floor.
Spares(e, f, K) ==
    Ok(f) => /\ Ok(e)
             /\ f.insurance >= Lesser(e.insurance, insurance_floor)
             /\ \A j \in K : f.acc[j] = e.acc[j]
             /\ Restful(e, K) => Restful(f, K)

\* Sparing composes ...
LEMMA SparesTrans ==
    ASSUME NEW e \in EngineType, NEW f \in EngineType, NEW g \in EngineType, NEW K,
           Spares(e, f, K), Spares(f, g, K)
    PROVE  Spares(e, g, K)
<1>1. e.insurance \in Int /\ f.insurance \in Int /\ g.insurance \in Int /\ insurance_floor \in Int
  BY EngineFields, Consts
<1>2. ASSUME Ok(g) PROVE g.insurance >= Lesser(e.insurance, insurance_floor)
  <2>1. /\ f.insurance >= Lesser(e.insurance, insurance_floor)
        /\ g.insurance >= Lesser(f.insurance, insurance_floor)
    BY <1>2 DEF Spares
  <2>2. QED
    BY <1>1, <2>1 DEF Lesser
<1>3. QED
  BY <1>2 DEF Spares

\* ... also along complete helpers.
LEMMA SoundSpares ==
    ASSUME NEW e, NEW f, NEW g, NEW K, Good(e), Sound(e, f), Spares(e, f, K),
           Sound(f, g), Spares(f, g, K)
    PROVE  Spares(e, g, K)
  BY SparesTrans DEF Sound, Moved, Good

\* What is spared stays calm.
LEMMA CalmKept ==
    ASSUME NEW e, NEW f, NEW i, NEW K, Calm(e, i, K), Spares(e, f, K)
    PROVE  Calm(f, i, K)
  BY DEF Calm, Spares

\* A helper spares K when it leaves the accounts of K and the list of the
\* touched alone, ...
LEMMA LeavesSpares ==
    ASSUME NEW e \in EngineType, NEW f, NEW K, Ok(f) => Ok(e),
           f.insurance >= Lesser(e.insurance, insurance_floor),
           f.ctx.touched = e.ctx.touched, \A j \in K : f.acc[j] = e.acc[j]
    PROVE  Spares(e, f, K)
  BY DEF Spares, Restful

\* ... as when it changes no money at all, ...
LEMMA SameSpares ==
    ASSUME NEW e \in EngineType, NEW f, NEW K, Ok(f) => Ok(e), f.insurance = e.insurance,
           f.ctx.touched = e.ctx.touched, f.acc = e.acc
    PROVE  Spares(e, f, K)
<1>1. e.insurance \in Int /\ insurance_floor \in Int
  BY EngineFields, Consts
<1>2. f.insurance >= Lesser(e.insurance, insurance_floor)
  BY <1>1 DEF Lesser
<1>3. QED
  BY <1>2, LeavesSpares

\* ... or fails, ...
LEMMA FailSpares ==
    ASSUME NEW e \in EngineType, NEW f, f \in {e, Reject(e), Corrupt(e)}, NEW K
    PROVE  Spares(e, f, K)
<1>1. Spares(e, e, K)
  BY SameSpares
<1>2. Spares(e, Reject(e), K) /\ Spares(e, Corrupt(e), K)
  BY RejectSound, CorruptSound DEF Spares
<1>3. QED
  BY <1>1, <1>2

\* ... or writes one account that is not of K.
LEMMA WriteSpares ==
    ASSUME NEW e \in EngineType, NEW f, NEW K \in SUBSET Accounts, NEW i \in Accounts, i \notin K,
           NEW b, f.acc = [e.acc EXCEPT ![i] = b], Ok(f) => Ok(e),
           f.insurance >= Lesser(e.insurance, insurance_floor), f.ctx.touched = e.ctx.touched
    PROVE  Spares(e, f, K)
<1>1. e.acc \in [Accounts -> AccountType]
  BY EngineFields
<1>2. \A j \in K : f.acc[j] = e.acc[j]
  BY <1>1
<1>3. QED
  BY <1>2, LeavesSpares

-----------------------------------------------------------------------------
(* Money *)

\* set_capital
LEMMA CapitalSpares ==
    ASSUME NEW e \in EngineType, NEW i \in Accounts, NEW n, NEW K \in SUBSET Accounts, i \notin K
    PROVE  Spares(e, SetCapital(e, i, n), K)
<1>1. PICK f, b : f = SetCapital(e, i, n) /\ b = [e.acc[i] EXCEPT !.capital = n]
  OBVIOUS
<1>2. /\ f.acc = [e.acc EXCEPT ![i] = b] /\ f.ctx = e.ctx /\ f.insurance = e.insurance
      /\ f.err = e.err
  BY <1>1 DEF SetCapital, EngineType
<1>3. e.insurance \in Int /\ insurance_floor \in Int
  BY EngineFields, Consts
<1>4. f.insurance >= Lesser(e.insurance, insurance_floor)
  BY <1>2, <1>3 DEF Lesser
<1>5. QED
  BY <1>1, <1>2, <1>4, WriteSpares DEF Ok

\* A fee moves to the fund.
LEMMA FeeMoveSpares ==
    ASSUME NEW e \in EngineType, NEW i \in Accounts, NEW x, NEW w \in Int, w >= e.insurance,
           NEW K \in SUBSET Accounts, i \notin K
    PROVE  Spares(e, FeeMove(e, i, x, w), K)
<1>1. PICK f, b : f = FeeMove(e, i, x, w) /\ b = [e.acc[i] EXCEPT !.fee_credits = x]
  OBVIOUS
<1>2. f.acc = [e.acc EXCEPT ![i] = b] /\ f.ctx = e.ctx /\ f.insurance = w /\ f.err = e.err
  BY <1>1 DEF FeeMove, EngineType
<1>3. e.insurance \in Int /\ insurance_floor \in Int
  BY EngineFields, Consts
<1>4. f.insurance >= Lesser(e.insurance, insurance_floor)
  BY <1>2, <1>3 DEF Lesser
<1>5. QED
  BY <1>1, <1>2, <1>4, WriteSpares DEF Ok

\* use_insurance_buffer stops at the floor.
LEMMA UseInsuranceSpares ==
    ASSUME NEW e \in EngineType, NEW d \in Int, NEW K
    PROVE  Spares(e, UseInsurance(e, d), K)
<1>1. PICK f : f = UseInsurance(e, d)
  OBVIOUS
<1>2. PICK w : w = e.insurance - InsurancePays(e, d)
  OBVIOUS
<1>3. f = [e EXCEPT !.insurance = w]
  BY <1>1, <1>2 DEF UseInsurance
<1>4. f.acc = e.acc /\ f.ctx = e.ctx /\ f.insurance = w /\ f.err = e.err
  BY <1>3 DEF EngineType
<1>5. e.insurance \in Int /\ insurance_floor \in Int
  BY EngineFields, Consts
<1>6. w >= Lesser(e.insurance, insurance_floor)
  BY <1>2, <1>5 DEF InsurancePays, Lesser, Greater
<1>7. QED
  BY <1>1, <1>4, <1>6, LeavesSpares DEF Ok

\* set_pnl_with_reserve
LEMMA SetPnlSpares ==
    ASSUME NEW e, Good(e), NEW i, Member(e, i), NEW new \in Int, NEW gains,
           NEW K \in SUBSET Accounts, i \notin K
    PROVE  Spares(e, SetPnl(e, i, new, gains), K)
<1>1. e \in EngineType /\ i \in Accounts /\ e.ctx \in ContextType
  BY EngineFields DEF Good, Member
<1>2. PICK h : h = GainHorizon(e, i, new, gains)
  OBVIOUS
<1>3. SetPnl(e, i, new, gains) \in {e, Reject(e), Corrupt(e), PnlAtHorizon(e, i, new, gains, h)}
  BY <1>2 DEF SetPnl
<1>4. PICK b, p, m, n, k :
        /\ b = PnlSet(e.acc[i], new, h, e.current_slot)
        /\ p = e.pnl_pos_tot + Gain(e.acc[i], new)
        /\ m = MaturedAfter(e.acc[i], new, h, e.pnl_matured_pos_tot)
        /\ n = NegCountAfter(e, e.acc[i].pnl, new)
        /\ k = IF gains = "Admit" /\ Gain(e.acc[i], new) > 0 /\ h = e.ctx.hi
               THEN e.ctx.sticky \union {i} ELSE e.ctx.sticky
  OBVIOUS
<1>5. PICK f : f = [e EXCEPT !.acc[i] = b, !.pnl_pos_tot = p, !.pnl_matured_pos_tot = m,
                             !.neg_pnl_account_count = n, !.ctx.sticky = k]
  OBVIOUS
<1>6. /\ f.acc = [e.acc EXCEPT ![i] = b] /\ f.insurance = e.insurance /\ f.err = e.err
      /\ f.ctx.touched = e.ctx.touched
  BY <1>1, <1>5 DEF EngineType, ContextType
<1>7. PnlAtHorizon(e, i, new, gains, h) \in {Corrupt(e), PnlChecked(f, i)}
  BY <1>4, <1>5 DEF PnlAtHorizon
<1>8. Spares(e, PnlChecked(f, i), K)
  <2>1. e.insurance \in Int /\ insurance_floor \in Int
    BY <1>1, EngineFields, Consts
  <2>2. f.insurance >= Lesser(e.insurance, insurance_floor)
    BY <1>6, <2>1 DEF Lesser
  <2>3. Spares(e, f, K)
    BY <1>1, <1>6, <2>2, WriteSpares DEF Ok
  <2>4. PnlChecked(f, i) = f \/ (PnlChecked(f, i) = Corrupt(f) /\ Ok(f))
    BY DEF PnlChecked, CorruptUnless
  <2>5. Ok(f) => ~Ok(Corrupt(f))
    BY <1>5 DEF Corrupt, Fail, Ok, EngineType
  <2>6. QED
    BY <2>3, <2>4, <2>5 DEF Spares
<1>9. QED
  BY <1>1, <1>3, <1>7, <1>8, FailSpares

\* settle_losses: an idle account has none.
LEMMA SettleLossesSpares ==
    ASSUME NEW e, Good(e), NEW i, Member(e, i), NEW K \in SUBSET Accounts, Calm(e, i, K)
    PROVE  Spares(e, SettleLosses(e, i), K)
<1>1. e \in EngineType /\ i \in Accounts
  BY DEF Good, Member
<1>2. CASE i \in K
  <2>1. Ok(e) => SettleLosses(e, i) = e
    <3>1. Ok(e) => e.acc[i].pnl = 0
      BY <1>2 DEF Calm, AtRest
    <3>2. Ok(e) /\ e.acc[i].pnl >= 0 => SettleLosses(e, i) = e
      BY SettleLossesSteady
    <3>3. QED
      BY <3>1, <3>2
  <2>2. Ok(SettleLosses(e, i)) => Ok(e)
    BY SettleLossesSound DEF Sound, Moved, Kept, Alike
  <2>3. Spares(e, e, K)
    BY <1>1, SameSpares
  <2>4. QED
    BY <2>1, <2>2, <2>3 DEF Spares
<1>3. CASE i \notin K
  <2>1. PICK c \in Int, x \in Int : c = e.acc[i].capital /\ x = e.acc[i].pnl
    BY <1>1, EngineFields, AccountFields
  <2>2. PICK pay : pay = Lesser(Pos(-x), c)
    OBVIOUS
  <2>3. pay \in Int /\ pay <= c
    BY <2>1, <2>2 DEF Lesser, Pos
  <2>4. PICK y \in Int, z \in Int : y = c - pay /\ z = x + pay
    <3>1. c - pay \in Int /\ x + pay \in Int
      BY <2>1, <2>3
    <3>2. QED
      BY <3>1
  <2>5. PICK f : f = SetCapital(e, i, y)
    OBVIOUS
  <2>6. Sound(e, f) /\ Spares(e, f, K)
    BY <1>1, <1>3, <2>3, <2>4, <2>5, SetCapitalSound, CapitalSpares
  <2>7. Good(f) /\ Member(f, i)
    BY <2>6, MemberKept
  <2>8. Sound(f, SetPnl(f, i, z, "Resolved")) /\ Spares(f, SetPnl(f, i, z, "Resolved"), K)
    BY <1>3, <2>4, <2>7, SetPnlSound, SetPnlSpares
  <2>9. Spares(e, SetPnl(f, i, z, "Resolved"), K)
    BY <2>6, <2>8, SoundSpares
  <2>10. SettleLosses(e, i) \in {e, SetPnl(f, i, z, "Resolved")}
    BY <2>1, <2>2, <2>4, <2>5 DEF SettleLosses
  <2>11. QED
    BY <1>1, <2>9, <2>10, SameSpares
<1>4. QED
  BY <1>2, <1>3

\* resolve_flat_negative: the fund pays, down to its floor.
LEMMA FlatNegativeSpares ==
    ASSUME NEW e, Good(e), NEW i, Member(e, i), NEW K \in SUBSET Accounts, Calm(e, i, K)
    PROVE  Spares(e, ResolveFlatNegative(e, i), K)
<1>1. e \in EngineType /\ i \in Accounts
  BY DEF Good, Member
<1>2. PICK x \in Int : x = e.acc[i].pnl
  BY <1>1, EngineFields, AccountFields
<1>3. PICK d \in Int : d = -x
  OBVIOUS
<1>4. PICK f : f = UseInsurance(e, d)
  OBVIOUS
<1>5. Sound(e, f) /\ Spares(e, f, K)
  BY <1>1, <1>4, UseInsuranceSound, UseInsuranceSpares DEF Member
<1>6. Good(f) /\ Member(f, i)
  BY <1>5, MemberKept
<1>7. \/ ResolveFlatNegative(e, i) = e
      \/ ResolveFlatNegative(e, i) = SetPnl(f, i, 0, "Resolved") /\ x < 0
  BY <1>2, <1>3, <1>4 DEF ResolveFlatNegative
<1>8. Spares(e, e, K)
  BY <1>1, SameSpares
<1>9. ASSUME x < 0 PROVE Spares(e, SetPnl(f, i, 0, "Resolved"), K)
  <2>1. PICK g : g = SetPnl(f, i, 0, "Resolved")
    OBVIOUS
  <2>2. Sound(f, g)
    BY <1>6, <2>1, SetPnlSound
  <2>3. CASE i \in K
    <3>1. ~Ok(e)
      BY <1>2, <1>9, <2>3 DEF Calm, AtRest
    <3>2. ~Ok(g)
      BY <1>5, <2>2, <3>1 DEF Sound, Moved, Kept, Alike
    <3>3. QED
      BY <2>1, <3>2 DEF Spares
  <2>4. CASE i \notin K
    BY <1>5, <1>6, <2>1, <2>2, <2>4, SetPnlSpares, SoundSpares
  <2>5. QED
    BY <2>3, <2>4
<1>10. QED
  BY <1>7, <1>8, <1>9

\* Nothing is said of what has failed.
LEMMA FailedSpares ==
    ASSUME NEW e, NEW f, ~Ok(e), Sound(e, f), NEW K
    PROVE  Spares(e, f, K)
  BY DEF Sound, Moved, Kept, Alike, Spares

\* fee_debt_sweep: an idle account owes nothing.
LEMMA FeeDebtSweepSpares ==
    ASSUME NEW e, Good(e), NEW i, Member(e, i), NEW K \in SUBSET Accounts, Calm(e, i, K)
    PROVE  Spares(e, FeeDebtSweep(e, i), K)
<1>1. e \in EngineType /\ i \in Accounts /\ e.acc[i] \in AccountType
  BY EngineFields DEF Good, Member
<1>2. CASE ~Ok(e)
  BY <1>2, FeeDebtSweepSound, FailedSpares
<1>3. CASE Ok(e)
  <2>1. PICK c \in Int, d \in Int : c = e.acc[i].capital /\ d = e.acc[i].fee_credits
    BY <1>1, AccountFields
  <2>2. c >= 0
    BY <1>1, <1>3, <2>1 DEF Good, Books
  <2>3. PICK pay : pay = Lesser(Pos(-d), c)
    OBVIOUS
  <2>4. pay \in Nat /\ pay <= c /\ (d = 0 => pay = 0)
    BY <2>1, <2>2, <2>3 DEF Lesser, Pos
  <2>5. PICK y \in Int : y = c - pay
    BY <2>1, <2>4
  <2>6. PICK f : f = SetCapital(e, i, y)
    OBVIOUS
  <2>7. Sound(e, f)
    BY <2>4, <2>5, <2>6, SetCapitalSound
  <2>8. Good(f) /\ Member(f, i)
    BY <2>7, MemberKept
  <2>9. PICK v \in Int, u \in Int : v = f.insurance /\ u = f.acc[i].fee_credits
    BY <2>8, EngineFields, AccountFields DEF Good, Member
  <2>10. PICK x, w \in Int : x = u + pay /\ w = v + pay
    <3>1. u + pay \in Int /\ v + pay \in Int
      BY <2>4
    <3>2. QED
      BY <3>1
  <2>11. FeeDebtSweep(e, i) = FeeMove(f, i, x, w)
    BY <2>1, <2>3, <2>5, <2>6, <2>9, <2>10 DEF FeeDebtSweep, FeeDebt, FeeMove
  <2>12. CASE i \notin K
    <3>1. Spares(e, f, K)
      BY <1>1, <2>6, <2>12, CapitalSpares
    <3>2. w >= v
      BY <2>4, <2>9, <2>10
    <3>3. Spares(f, FeeMove(f, i, x, w), K)
      BY <2>8, <2>9, <2>12, <3>2, FeeMoveSpares DEF Good, Member
    <3>4. FeeMove(f, i, x, w) \in EngineType
      BY <2>11, FeeDebtSweepSound DEF Sound, Moved, Good
    <3>5. QED
      BY <1>1, <2>8, <2>11, <3>1, <3>3, <3>4, SparesTrans DEF Good
  <2>13. CASE i \in K
    <3>1. d = 0 /\ pay = 0 /\ y = c
      BY <1>3, <2>1, <2>4, <2>5, <2>13 DEF Calm, AtRest
    <3>2. f.acc = e.acc /\ f.insurance = e.insurance /\ f.ctx = e.ctx /\ f.err = e.err
      <4>1. [e.acc[i] EXCEPT !.capital = y] = e.acc[i]
        BY <1>1, <2>1, <3>1 DEF AccountType
      <4>2. [e.acc EXCEPT ![i] = e.acc[i]] = e.acc
        BY <1>1, EngineFields
      <4>3. f.acc = [e.acc EXCEPT ![i] = [e.acc[i] EXCEPT !.capital = y]]
        BY <1>1, <2>6 DEF SetCapital, EngineType
      <4>4. QED
        BY <1>1, <2>6, <4>1, <4>2, <4>3 DEF SetCapital, EngineType
    <3>3. x = d /\ w = v
      <4>1. u = d
        BY <2>1, <2>9, <3>2
      <4>2. QED
        BY <2>9, <2>10, <3>1, <4>1
    <3>4. PICK g : g = FeeMove(f, i, x, w)
      OBVIOUS
    <3>5. g.acc = e.acc /\ g.insurance = e.insurance /\ g.ctx = e.ctx /\ g.err = e.err
      <4>1. [e.acc[i] EXCEPT !.fee_credits = x] = e.acc[i]
        BY <1>1, <2>1, <3>3 DEF AccountType
      <4>2. [e.acc EXCEPT ![i] = e.acc[i]] = e.acc
        BY <1>1, EngineFields
      <4>3. f \in EngineType
        BY <2>8 DEF Good
      <4>4. g.acc = [f.acc EXCEPT ![i] = [f.acc[i] EXCEPT !.fee_credits = x]]
        BY <3>4, <4>3 DEF FeeMove, EngineType
      <4>5. QED
        BY <2>9, <3>2, <3>3, <3>4, <4>1, <4>2, <4>3, <4>4 DEF FeeMove, EngineType
    <3>6. QED
      BY <1>1, <2>11, <3>4, <3>5, SameSpares DEF Ok
  <2>14. QED
    BY <2>12, <2>13
<1>4. QED
  BY <1>2, <1>3

\* charge_fee_to_insurance
LEMMA ChargeFeeSpares ==
    ASSUME NEW e, Good(e), NEW i, Member(e, i), NEW fee \in Nat, NEW K \in SUBSET Accounts, i \notin K
    PROVE  Spares(e, ChargeFee(e, i, fee), K)
<1>1. e \in EngineType /\ i \in Accounts /\ e.acc[i] \in AccountType
  BY EngineFields DEF Good, Member
<1>2. CASE ~Ok(e)
  BY <1>2, ChargeFeeSound, FailedSpares
<1>3. CASE Ok(e)
  <2>1. PICK c \in Int, d \in Int : c = e.acc[i].capital /\ d = e.acc[i].fee_credits
    BY <1>1, AccountFields
  <2>2. c >= 0
    BY <1>1, <1>3, <2>1 DEF Good, Books
  <2>3. PICK paid, impact : paid = FeePaid(e.acc[i], fee) /\ impact = FeeImpact(e.acc[i], fee)
    OBVIOUS
  <2>4. paid \in Nat /\ paid <= c /\ impact \in Int
    BY <2>1, <2>2, <2>3, Consts DEF FeePaid, FeeImpact, Lesser, Greater
  <2>5. PICK y \in Int : y = c - paid
    BY <2>1, <2>4
  <2>6. PICK f : f = SetCapital(e, i, y)
    OBVIOUS
  <2>7. Sound(e, f) /\ Spares(e, f, K)
    BY <1>1, <2>4, <2>5, <2>6, SetCapitalSound, CapitalSpares
  <2>8. Good(f) /\ Member(f, i)
    BY <2>7, MemberKept
  <2>9. PICK v \in Int, u \in Int : v = f.insurance /\ u = f.acc[i].fee_credits
    BY <2>8, EngineFields, AccountFields DEF Good, Member
  <2>10. PICK x, w \in Int : x = u - (impact - paid) /\ w = v + paid
    BY <2>4, <2>9
  <2>11. ChargeFee(e, i, fee) = FeeMove(f, i, x, w)
    <3>1. f \in EngineType
      BY <2>8 DEF Good
    <3>2. QED
      BY <1>1, <2>1, <2>3, <2>5, <2>6, <2>9, <2>10, <3>1 DEF ChargeFee, FeeMove, EngineType
  <2>12. Spares(f, FeeMove(f, i, x, w), K)
    <3>1. w >= v
      BY <2>4, <2>9, <2>10
    <3>2. QED
      BY <2>8, <2>9, <3>1, FeeMoveSpares DEF Good, Member
  <2>13. FeeMove(f, i, x, w) \in EngineType
    BY <2>11, ChargeFeeSound DEF Sound, Moved, Good
  <2>14. QED
    BY <1>1, <2>7, <2>8, <2>11, <2>12, <2>13, SparesTrans DEF Good
<1>4. QED
  BY <1>2, <1>3

\* A notional value is no debt, ...
LEMMA NotionalNat ==
    ASSUME NEW q \in Int, NEW price \in Nat
    PROVE  NotionalOf(q, price) \in Nat
<1>1. PICK n \in Nat : n = Abs(q)
  BY AbsNat
<1>2. n * price \in Nat
  OBVIOUS
<1>3. QED
  BY <1>1, <1>2, FloorNat, Consts DEF NotionalOf

\* ... and so is no fee on it.
LEMMA FeesNat ==
    ASSUME NEW q \in Int, NEW price \in Nat
    PROVE  LiquidationFee(q, price) \in Nat /\ TradingFee(q, price) \in Nat
<1>1. PICK n \in Nat : n = NotionalOf(q, price)
  BY NotionalNat
<1>2. PICK l \in Nat, t \in Nat : l = liquidation_fee_bps /\ t = trading_fee_bps
  BY FeeConsts
<1>3. n * l \in Nat /\ n * t \in Nat
  OBVIOUS
<1>4. CeilDiv(n * l, BPS) \in Nat /\ CeilDiv(n * t, BPS) \in Nat
  BY <1>3, CeilNat, Consts
<1>5. QED
  BY <1>1, <1>2, <1>4, FeeConsts DEF LiquidationFee, TradingFee, Lesser, Greater

-----------------------------------------------------------------------------
(* The touch of an account *)

\* Sparing composes along parts of a helper.
LEMMA GoodSpares ==
    ASSUME NEW e, NEW f, NEW g, NEW K, Good(e), Good(f), Good(g), Spares(e, f, K), Spares(f, g, K)
    PROVE  Spares(e, g, K)
  BY SparesTrans DEF Good

\* A check spares all.
LEMMA CheckSpares ==
    ASSUME NEW e \in EngineType, NEW f \in EngineType, NEW K, Spares(e, f, K),
           NEW g \in {f, Reject(f), Corrupt(f)}
    PROVE  Spares(e, g, K)
  BY RejectSound, CorruptSound DEF Spares

\* admit_outstanding_reserve_on_touch: an idle account has no reserve.
LEMMA AdmitSpares ==
    ASSUME NEW e, Good(e), NEW i, Member(e, i), e.market_mode = "Live",
           Ok(e) => ShapeOk(e.acc[i]), NEW K \in SUBSET Accounts, Calm(e, i, K)
    PROVE  Spares(e, AdmitOutstanding(e, i), K)
<1>1. e \in EngineType /\ i \in Accounts /\ e.acc[i] \in AccountType
  BY EngineFields DEF Good, Member
<1>2. CASE AdmitOutstanding(e, i) \in {e, Corrupt(e)}
  BY <1>1, <1>2, FailSpares
<1>3. CASE ~Ok(e)
  BY <1>3, AdmitSound, FailedSpares
<1>4. CASE Ok(e) /\ AdmitOutstanding(e, i) \notin {e, Corrupt(e)}
  <2>1. e.acc[i].reserved_pnl # 0
    BY <1>4 DEF AdmitOutstanding
  <2>2. i \notin K
    BY <1>4, <2>1 DEF Calm, AtRest
  <2>3. PICK b \in AccountType : b = ClearReserve(e.acc[i])
    BY <1>1, ClearReserveSound
  <2>4. PICK m \in Int : m = e.pnl_matured_pos_tot + e.acc[i].reserved_pnl
    BY <1>1, EngineFields, AccountFields
  <2>5. PICK f : f = [e EXCEPT !.pnl_matured_pos_tot = m, !.acc[i] = b]
    OBVIOUS
  <2>6. f \in EngineType /\ f.acc = [e.acc EXCEPT ![i] = b] /\ f.insurance = e.insurance
        /\ f.err = e.err /\ f.ctx = e.ctx
    BY <1>1, <2>5 DEF EngineType
  <2>7. e.insurance \in Int /\ insurance_floor \in Int
    BY <1>1, EngineFields, Consts
  <2>8. f.insurance >= Lesser(e.insurance, insurance_floor)
    BY <2>6, <2>7 DEF Lesser
  <2>9. Spares(e, f, K)
    BY <1>1, <2>2, <2>6, <2>8, WriteSpares DEF Ok
  <2>10. f = [e EXCEPT !.pnl_matured_pos_tot = m, !.acc[i] = ClearReserve(@)]
    BY <1>1, <2>3, <2>5 DEF EngineType
  <2>11. AdmitOutstanding(e, i) \in {f, Corrupt(f)}
    BY <1>4, <2>4, <2>10 DEF AdmitOutstanding, CorruptUnless
  <2>12. QED
    BY <1>1, <2>6, <2>9, <2>11, CheckSpares
<1>5. QED
  BY <1>2, <1>3, <1>4

\* advance_profit_warmup
LEMMA AdvanceSpares ==
    ASSUME NEW e, Good(e), NEW i, Member(e, i), e.market_mode = "Live",
           Ok(e) => ShapeOk(e.acc[i]), NEW K \in SUBSET Accounts, Calm(e, i, K)
    PROVE  Spares(e, AdvanceProfitWarmup(e, i), K)
<1>1. e \in EngineType /\ i \in Accounts /\ e.acc[i] \in AccountType
      /\ e.acc \in [Accounts -> AccountType]
  BY EngineFields DEF Good, Member
<1>2. CASE ~Ok(e)
  BY <1>2, AdvanceSound, FailedSpares
<1>3. CASE Ok(e) /\ ~AdvanceOk(e.acc[i], e.current_slot)
  <2>1. AdvanceProfitWarmup(e, i) = Corrupt(e)
    BY <1>3 DEF AdvanceProfitWarmup
  <2>2. QED
    BY <1>1, <2>1, FailSpares
<1>4. CASE Ok(e) /\ AdvanceOk(e.acc[i], e.current_slot)
  <2>1. PICK b : b = AdvanceWarmup(e.acc[i], e.current_slot)
    OBVIOUS
  <2>2. /\ b \in AccountType /\ SameRest(e.acc[i], b) /\ b.pnl = e.acc[i].pnl
        /\ b.reserved_pnl <= e.acc[i].reserved_pnl
    BY <1>1, <1>4, <2>1, EngineFields, WarmupSound
  <2>3. PICK m : m = e.pnl_matured_pos_tot + (e.acc[i].reserved_pnl - b.reserved_pnl)
    OBVIOUS
  <2>4. PICK f : f = [e EXCEPT !.acc[i] = b, !.pnl_matured_pos_tot = m]
    OBVIOUS
  <2>5. f \in EngineType
    BY <1>4, <2>2, <2>3, <2>4, ReserveSound DEF Sound, Moved, Good
  <2>6. f.acc = [e.acc EXCEPT ![i] = b] /\ f.insurance = e.insurance
        /\ f.err = e.err /\ f.ctx = e.ctx
    BY <1>1, <2>4 DEF EngineType
  <2>7. i \in K => b = e.acc[i]
    <3>1. i \in K => e.acc[i].reserved_pnl = 0
      BY <1>4 DEF Calm, AtRest
    <3>2. QED
      BY <2>1, <3>1 DEF AdvanceWarmup
  <2>8. \A j \in K : f.acc[j] = e.acc[j]
    BY <1>1, <2>6, <2>7
  <2>9. e.insurance \in Int /\ insurance_floor \in Int
    BY <1>1, EngineFields, Consts
  <2>10. f.insurance >= Lesser(e.insurance, insurance_floor)
    BY <2>6, <2>9 DEF Lesser
  <2>11. Spares(e, f, K)
    BY <1>1, <2>6, <2>8, <2>10, LeavesSpares DEF Ok
  <2>12. AdvanceProfitWarmup(e, i) \in {f, Corrupt(f)}
    BY <1>4, <2>1, <2>3, <2>4 DEF AdvanceProfitWarmup, WarmedUp, CorruptUnless
  <2>13. QED
    BY <1>1, <2>5, <2>11, <2>12, CheckSpares
<1>5. QED
  BY <1>2, <1>3, <1>4

\* set_position_basis_q
LEMMA SetBasisSpares ==
    ASSUME NEW e, Good(e), NEW i, Member(e, i), NEW new \in Int, NEW K \in SUBSET Accounts, i \notin K
    PROVE  Spares(e, SetBasis(e, i, new), K)
<1>1. e \in EngineType /\ i \in Accounts
  BY DEF Good, Member
<1>2. PICK o : o = [s \in Side |-> [e.side[s] EXCEPT !.stored =
                       e.side[s].stored - (IF s = SideOf(e.acc[i].position_basis_q) THEN 1 ELSE 0)
                                        + (IF s = SideOf(new) THEN 1 ELSE 0)]]
  OBVIOUS
<1>3. PICK b : b = [e.acc[i] EXCEPT !.position_basis_q = new]
  OBVIOUS
<1>4. PICK f : f = [e EXCEPT !.acc[i] = b, !.side = o]
  OBVIOUS
<1>5. f.acc = [e.acc EXCEPT ![i] = b] /\ f.insurance = e.insurance
      /\ f.err = e.err /\ f.ctx = e.ctx
  BY <1>1, <1>4 DEF EngineType
<1>6. e.insurance \in Int /\ insurance_floor \in Int
  BY <1>1, EngineFields, Consts
<1>7. f.insurance >= Lesser(e.insurance, insurance_floor)
  BY <1>5, <1>6 DEF Lesser
<1>8. Spares(e, f, K)
  BY <1>1, <1>5, <1>7, WriteSpares DEF Ok
<1>9. f = [e EXCEPT !.acc[i].position_basis_q = new, !.side = o]
  BY <1>1, <1>3, <1>4 DEF EngineType
<1>10. SetBasis(e, i, new) = f \/ (SetBasis(e, i, new) = Corrupt(f) /\ Ok(f))
  BY <1>2, <1>9 DEF SetBasis, CorruptUnless
<1>11. Ok(f) => ~Ok(Corrupt(f))
  BY <1>1, <1>4 DEF Corrupt, Fail, Ok, EngineType
<1>12. QED
  BY <1>8, <1>10, <1>11 DEF Spares

\* The snapshots of a position.
LEMMA SnapSpares ==
    ASSUME NEW e, Good(e), NEW i, Member(e, i), NEW a, NEW k, NEW f, NEW t,
           NEW K \in SUBSET Accounts, i \notin K
    PROVE  Spares(e, Snap(e, i, a, k, f, t), K)
<1>1. e \in EngineType /\ i \in Accounts
  BY DEF Good, Member
<1>2. PICK b : b = [e.acc[i] EXCEPT !.adl_a_basis = a, !.adl_k_snap = k, !.f_snap = f,
                                    !.adl_epoch_snap = t]
  OBVIOUS
<1>3. PICK g : g = [e EXCEPT !.acc[i] = b]
  OBVIOUS
<1>4. g = Snap(e, i, a, k, f, t)
  BY <1>1, <1>2, <1>3, EngineFields DEF EngineType, Snap
<1>5. g.acc = [e.acc EXCEPT ![i] = b] /\ g.insurance = e.insurance
      /\ g.err = e.err /\ g.ctx = e.ctx
  BY <1>1, <1>3 DEF EngineType
<1>6. e.insurance \in Int /\ insurance_floor \in Int
  BY <1>1, EngineFields, Consts
<1>7. g.insurance >= Lesser(e.insurance, insurance_floor)
  BY <1>5, <1>6 DEF Lesser
<1>8. QED
  BY <1>1, <1>4, <1>5, <1>7, WriteSpares DEF Ok

\* A closed position.
LEMMA FlattenSpares ==
    ASSUME NEW e, Good(e), NEW i, Member(e, i), NEW K \in SUBSET Accounts, i \notin K
    PROVE  Spares(e, Flatten(e, i), K)
<1>1. PICK f : f = SetBasis(e, i, 0)
  OBVIOUS
<1>2. Written(e, f) /\ Spares(e, f, K)
  BY <1>1, SetBasisDrafted, SetBasisSpares
<1>3. Good(f) /\ Member(f, i)
  BY <1>2, MemberWritten
<1>4. Flatten(e, i) = Snap(f, i, ADL_ONE, 0, 0, 0)
  BY <1>1 DEF Flatten, Snap
<1>5. Spares(f, Flatten(e, i), K)
  BY <1>3, <1>4, SnapSpares
<1>6. Good(Flatten(e, i))
  BY FlattenDrafted DEF Drafted, Written
<1>7. QED
  BY <1>2, <1>3, <1>5, <1>6, GoodSpares

\* inc_phantom_dust_bound
LEMMA AddDustSpares ==
    ASSUME NEW e, Good(e), NEW sides, NEW n \in Nat, NEW K
    PROVE  Spares(e, AddDust(e, sides, n), K)
<1>1. e \in EngineType
  BY DEF Good
<1>2. PICK o : o = [s \in Side |-> IF s \in sides THEN [e.side[s] EXCEPT !.dust = @ + n]
                                   ELSE e.side[s]]
  OBVIOUS
<1>3. PICK f : f = [e EXCEPT !.side = o]
  OBVIOUS
<1>4. f = AddDust(e, sides, n)
  BY <1>2, <1>3 DEF AddDust
<1>5. f.acc = e.acc /\ f.insurance = e.insurance /\ f.err = e.err /\ f.ctx = e.ctx
  BY <1>1, <1>3 DEF EngineType
<1>6. QED
  BY <1>1, <1>4, <1>5, SameSpares DEF Ok

\* attach_effective_position
LEMMA AttachSpares ==
    ASSUME NEW e, Good(e), NEW i, Member(e, i), NEW q \in Int, NEW K \in SUBSET Accounts, i \notin K
    PROVE  Spares(e, AttachPosition(e, i, q), K)
<1>1. PICK d : d = AddDust(e, OrphanedDust(e, i), 1)
  OBVIOUS
<1>2. Sound(e, d) /\ Spares(e, d, K)
  BY <1>1, AddDustSound, AddDustSpares
<1>3. Good(d) /\ Member(d, i) /\ d \in EngineType
  BY <1>2, MemberKept DEF Good
<1>4. PICK f : f = AttachPosition(e, i, q)
  OBVIOUS
<1>5. Good(f)
  BY <1>4, AttachWritten DEF Written
<1>6. CASE q = 0
  <2>1. f = Flatten(d, i)
    BY <1>1, <1>4, <1>6 DEF AttachPosition
  <2>2. Spares(d, f, K)
    BY <1>3, <2>1, FlattenSpares
  <2>3. QED
    BY <1>2, <1>3, <1>4, <1>5, <2>2, GoodSpares
<1>7. CASE q # 0
  <2>1. PICK o \in SideType : o = e.side[SideOf(q)]
    BY <1>7, SideOfSide, EngineFields DEF Good
  <2>2. PICK r : r = RejectUnless(d, Abs(q) <= MAX_POSITION_ABS_Q)
    OBVIOUS
  <2>3. r = d \/ r = Reject(d)
    BY <2>2 DEF RejectUnless
  <2>4. Sound(d, r) /\ Spares(d, r, K)
    BY <1>3, <2>3, SoundRefl, CheckSound, FailSpares
  <2>5. Good(r) /\ Member(r, i)
    BY <1>3, <2>4, MemberKept
  <2>6. PICK b : b = SetBasis(r, i, q)
    OBVIOUS
  <2>7. Written(r, b) /\ Spares(r, b, K)
    BY <2>5, <2>6, SetBasisDrafted, SetBasisSpares
  <2>8. Good(b) /\ Member(b, i)
    BY <2>5, <2>7, MemberWritten
  <2>9. f = Snap(b, i, o.mult, o.coeff, o.f, o.epoch)
    <3>1. f = Snapped(b, i, o)
      BY <1>1, <1>4, <1>7, <2>1, <2>2, <2>6 DEF AttachPosition
    <3>2. QED
      BY <3>1 DEF Snapped, Snap
  <2>10. Spares(b, f, K)
    BY <2>8, <2>9, SnapSpares
  <2>11. Spares(e, r, K)
    BY <1>2, <1>3, <2>4, <2>5, GoodSpares
  <2>12. Spares(r, f, K)
    BY <1>5, <2>5, <2>7, <2>8, <2>10, GoodSpares
  <2>13. QED
    BY <1>4, <1>5, <2>5, <2>11, <2>12, GoodSpares
<1>8. QED
  BY <1>6, <1>7

\* settle_side_effects_live, a position of the current epoch ...
LEMMA SettleSameSpares ==
    ASSUME NEW e, Good(e), NEW i, Member(e, i), NEW s \in Side,
           SideOf(e.acc[i].position_basis_q) = s, e.acc[i].adl_epoch_snap = e.side[s].epoch,
           NEW K \in SUBSET Accounts, i \notin K
    PROVE  Spares(e, SettleSameEpoch(e, i, s), K)
<1>1. e \in EngineType /\ i \in Accounts /\ e.acc[i] \in AccountType
  BY EngineFields DEF Good, Member
<1>2. PICK o \in SideType : o = e.side[s]
  BY <1>1, EngineFields
<1>3. PICK x \in Int : x = e.acc[i].pnl + KfPnlDelta(e.acc[i], o.coeff, o.f)
  BY <1>1, KfPnlDeltaInt, AccountFields, SideFields
<1>4. PICK f : f = SetPnl(e, i, x, "Admit")
  OBVIOUS
<1>5. Sound(e, f) /\ Spares(e, f, K)
  BY <1>4, SetPnlSound, SetPnlSpares
<1>6. Good(f) /\ Member(f, i) /\ f \in EngineType
  BY <1>5, MemberKept DEF Good
<1>7. PICK d : d = AddDust(f, {s}, 1)
  OBVIOUS
<1>8. Sound(f, d) /\ Spares(f, d, K)
  BY <1>6, <1>7, AddDustSound, AddDustSpares
<1>9. Good(d) /\ Member(d, i)
  BY <1>6, <1>8, MemberKept
<1>10. PICK g : g = SettleSameEpoch(e, i, s)
  OBVIOUS
<1>11. Good(g)
  BY <1>10, SettleSameSound DEF Sound, Moved
<1>12. CASE g = Flatten(d, i)
  <2>1. Spares(d, g, K)
    BY <1>9, <1>12, FlattenSpares
  <2>2. Spares(f, g, K)
    BY <1>6, <1>8, <1>9, <1>11, <2>1, GoodSpares
  <2>3. QED
    BY <1>5, <1>6, <1>10, <1>11, <2>2, GoodSpares
<1>13. CASE g # Flatten(d, i)
  <2>1. PICK k, h, t : k = o.coeff /\ h = o.f /\ t = o.epoch
    OBVIOUS
  <2>2. g = [f EXCEPT !.acc[i].adl_k_snap = k, !.acc[i].f_snap = h, !.acc[i].adl_epoch_snap = t]
    BY <1>2, <1>3, <1>4, <1>7, <1>10, <1>13, <2>1 DEF SettleSameEpoch
  <2>3. PICK b : b = [f.acc[i] EXCEPT !.adl_k_snap = k, !.f_snap = h, !.adl_epoch_snap = t]
    OBVIOUS
  <2>4. g = [f EXCEPT !.acc[i] = b]
    BY <1>1, <1>6, <2>2, <2>3 DEF EngineType
  <2>5. g.acc = [f.acc EXCEPT ![i] = b] /\ g.insurance = f.insurance
        /\ g.err = f.err /\ g.ctx = f.ctx
    BY <1>6, <2>4 DEF EngineType
  <2>6. f.insurance \in Int /\ insurance_floor \in Int
    BY <1>6, EngineFields, Consts
  <2>7. g.insurance >= Lesser(f.insurance, insurance_floor)
    BY <2>5, <2>6 DEF Lesser
  <2>8. Spares(f, g, K)
    BY <1>1, <1>6, <2>5, <2>7, WriteSpares DEF Ok
  <2>9. QED
    BY <1>5, <1>6, <1>10, <1>11, <2>8, GoodSpares
<1>14. QED
  BY <1>12, <1>13

\* ... or of the epoch before.
LEMMA SettleStaleSpares ==
    ASSUME NEW e, Good(e), NEW i, Member(e, i), NEW s \in Side,
           SideOf(e.acc[i].position_basis_q) = s, e.acc[i].adl_epoch_snap # e.side[s].epoch,
           NEW K \in SUBSET Accounts, i \notin K
    PROVE  Spares(e, SettleStaleEpoch(e, i, s), K)
<1>1. e \in EngineType /\ i \in Accounts /\ e.acc[i] \in AccountType
  BY EngineFields DEF Good, Member
<1>2. PICK o \in SideType : o = e.side[s]
  BY <1>1, EngineFields
<1>3. PICK x \in Int : x = e.acc[i].pnl + KfPnlDelta(e.acc[i], o.epoch_start_k, o.f_epoch_start)
  BY <1>1, KfPnlDeltaInt, AccountFields, SideFields
<1>4. PICK f : f = SetPnl(e, i, x, "Admit")
  OBVIOUS
<1>5. Sound(e, f) /\ Spares(e, f, K)
  BY <1>4, SetPnlSound, SetPnlSpares
<1>6. Good(f) /\ Member(f, i) /\ f \in EngineType
  BY <1>5, MemberKept DEF Good
<1>7. PICK h : h = OneSettled(f, s)
  OBVIOUS
<1>8. Drafted(f, h) /\ h.acc = f.acc /\ h.ctx = f.ctx
  BY <1>6, <1>7, StaleDrafted
<1>9. Good(h) /\ Member(h, i)
  BY <1>6, <1>8, MemberWritten DEF Drafted
<1>10. h.insurance = f.insurance /\ h.err = f.err
  BY <1>6, <1>7 DEF OneSettled, EngineType
<1>11. Spares(f, h, K)
  BY <1>6, <1>8, <1>10, SameSpares DEF Ok
<1>12. Spares(h, Flatten(h, i), K) /\ Good(Flatten(h, i))
  BY <1>9, FlattenSpares, FlattenDrafted DEF Drafted, Written
<1>13. Spares(e, h, K)
  BY <1>5, <1>6, <1>9, <1>11, GoodSpares
<1>14. Spares(e, Flatten(h, i), K)
  BY <1>9, <1>12, <1>13, GoodSpares
<1>15. SettleStaleEpoch(e, i, s) \in {Corrupt(e), Flatten(h, i)}
  BY <1>2, <1>3, <1>4, <1>7 DEF SettleStaleEpoch, OneSettled
<1>16. QED
  BY <1>1, <1>14, <1>15, FailSpares

\* settle_side_effects_live: an idle account has no position.
LEMMA SideEffectsSpares ==
    ASSUME NEW e, Good(e), NEW i, Member(e, i), NEW K \in SUBSET Accounts, Calm(e, i, K)
    PROVE  Spares(e, SettleSideEffects(e, i), K)
<1>1. e \in EngineType /\ e.acc[i].position_basis_q \in Int
  BY EngineFields, AccountFields DEF Good, Member
<1>2. PICK s : s = SideOf(e.acc[i].position_basis_q)
  OBVIOUS
<1>3. CASE ~Ok(e) \/ s \notin Side
  <2>1. SettleSideEffects(e, i) = e
    BY <1>1, <1>2, <1>3 DEF SettleSideEffects, SideOf, Side
  <2>2. QED
    BY <1>1, <2>1, FailSpares
<1>4. CASE Ok(e) /\ s \in Side
  <2>1. i \notin K
    BY <1>2, <1>4 DEF Calm, AtRest, SideOf, Side
  <2>2. /\ e.acc[i].adl_epoch_snap = e.side[s].epoch => Spares(e, SettleSameEpoch(e, i, s), K)
        /\ e.acc[i].adl_epoch_snap # e.side[s].epoch => Spares(e, SettleStaleEpoch(e, i, s), K)
    BY <1>2, <1>4, <2>1, SettleSameSpares, SettleStaleSpares
  <2>3. \/ SettleSideEffects(e, i) \in {e, Corrupt(e)}
        \/ /\ SettleSideEffects(e, i) = SettleSameEpoch(e, i, s)
           /\ e.acc[i].adl_epoch_snap = e.side[s].epoch
        \/ /\ SettleSideEffects(e, i) = SettleStaleEpoch(e, i, s)
           /\ e.acc[i].adl_epoch_snap # e.side[s].epoch
    BY <1>2 DEF SettleSideEffects
  <2>4. QED
    BY <1>1, <2>2, <2>3, FailSpares
<1>5. QED
  BY <1>3, <1>4

\* touch_account_live_local
LEMMA TouchSpares ==
    ASSUME NEW e, Good(e), NEW i \in Accounts, NEW K \in SUBSET Accounts, Calm(e, i, K)
    PROVE  Spares(e, Touch(e, i), K)
<1>1. e \in EngineType
  BY DEF Good
<1>2. CASE ~Ok(e) \/ e.market_mode # "Live" \/ i \notin e.used
  <2>1. Touch(e, i) \in {e, Reject(e)}
    BY <1>2 DEF Touch
  <2>2. QED
    BY <1>1, <2>1, FailSpares
<1>3. CASE Ok(e) /\ e.market_mode = "Live" /\ i \in e.used
  <2>1. PICK s : s = [e EXCEPT !.ctx.touched = @ \union {i}]
    OBVIOUS
  <2>2. Sound(e, s) /\ s.acc = e.acc /\ s.insurance = e.insurance /\ s.err = e.err
        /\ s.ctx.touched = e.ctx.touched \union {i}
    <3>1. /\ s.acc = e.acc /\ s.insurance = e.insurance /\ s.err = e.err
          /\ s.ctx.touched = e.ctx.touched \union {i}
      BY <1>1, <2>1 DEF EngineType, ContextType
    <3>2. QED
      BY <1>3, <2>1, <3>1, TouchStartSound
  <2>3. Spares(e, s, K)
    <3>1. e.insurance \in Int /\ insurance_floor \in Int
      BY <1>1, EngineFields, Consts
    <3>2. s.insurance >= Lesser(e.insurance, insurance_floor)
      BY <2>2, <3>1 DEF Lesser
    <3>3. Restful(e, K) => Restful(s, K)
      BY <1>3, <2>2 DEF Restful, Calm
    <3>4. QED
      BY <2>2, <3>2, <3>3 DEF Spares, Ok
  <2>4. PICK t : t = CorruptUnless(s, ShapeOk(e.acc[i]))
    OBVIOUS
  <2>5. Sound(e, t) /\ Spares(e, t, K) /\ (Ok(t) => ShapeOk(t.acc[i]))
    <3>1. t = s \/ t = Corrupt(s)
      BY <2>4 DEF CorruptUnless
    <3>2. s \in EngineType
      BY <2>2 DEF Sound, Moved, Good
    <3>3. Ok(t) => t = s /\ ShapeOk(e.acc[i])
      BY <2>4, <3>1, <3>2, CorruptSound DEF CorruptUnless
    <3>4. QED
      BY <1>1, <2>2, <2>3, <3>1, <3>2, <3>3, CheckSound, CheckSpares
  <2>6. Member(e, i)
    BY <1>3 DEF Member
  <2>7. Good(t) /\ Member(t, i) /\ t.market_mode = "Live" /\ Calm(t, i, K)
    BY <1>3, <2>5, <2>6, MemberKept, CalmKept DEF Sound, Moved, Kept, Alike
  <2>8. PICK u : u = AdmitOutstanding(t, i)
    OBVIOUS
  <2>9. Sound(t, u) /\ Spares(t, u, K) /\ (Ok(u) => ShapeOk(u.acc[i]))
    BY <2>5, <2>7, <2>8, AdmitSound, AdmitSpares
  <2>10. Good(u) /\ Member(u, i) /\ u.market_mode = "Live" /\ Calm(u, i, K)
    BY <2>7, <2>9, MemberKept, CalmKept DEF Sound, Moved, Kept, Alike
  <2>11. PICK w : w = AdvanceProfitWarmup(u, i)
    OBVIOUS
  <2>12. Sound(u, w) /\ Spares(u, w, K)
    BY <2>9, <2>10, <2>11, AdvanceSound, AdvanceSpares
  <2>13. Good(w) /\ Member(w, i) /\ Calm(w, i, K)
    BY <2>10, <2>12, MemberKept, CalmKept
  <2>14. PICK x : x = SettleSideEffects(w, i)
    OBVIOUS
  <2>15. Sound(w, x) /\ Spares(w, x, K)
    BY <2>13, <2>14, SideEffectsSound, SideEffectsSpares
  <2>16. Good(x) /\ Member(x, i) /\ Calm(x, i, K)
    BY <2>13, <2>15, MemberKept, CalmKept
  <2>17. PICK y : y = SettleLosses(x, i)
    OBVIOUS
  <2>18. Sound(x, y) /\ Spares(x, y, K)
    BY <2>16, <2>17, SettleLossesSound, SettleLossesSpares
  <2>19. Good(y) /\ Member(y, i) /\ Calm(y, i, K)
    BY <2>16, <2>18, MemberKept, CalmKept
  <2>20. PICK z : z = ResolveFlatNegative(y, i)
    OBVIOUS
  <2>21. Sound(y, z) /\ Spares(y, z, K)
    BY <2>19, <2>20, FlatNegativeSound, FlatNegativeSpares
  <2>22. Touch(e, i) = z
    BY <1>3, <2>1, <2>4, <2>8, <2>11, <2>14, <2>17, <2>20 DEF Touch
  <2>23. Sound(e, u) /\ Spares(e, u, K)
    BY <2>5, <2>9, SoundTrans, SoundSpares
  <2>24. Sound(e, w) /\ Spares(e, w, K)
    BY <2>12, <2>23, SoundTrans, SoundSpares
  <2>25. Sound(e, x) /\ Spares(e, x, K)
    BY <2>15, <2>24, SoundTrans, SoundSpares
  <2>26. Sound(e, y) /\ Spares(e, y, K)
    BY <2>18, <2>25, SoundTrans, SoundSpares
  <2>27. QED
    BY <2>21, <2>22, <2>26, SoundSpares
<1>4. QED
  BY <1>2, <1>3

-----------------------------------------------------------------------------
(* The sides *)

\* Only the sides, and the list of those to be reset, have changed.
SideOnly(e, f) ==
    /\ f.acc = e.acc /\ f.insurance = e.insurance
    /\ f.ctx.touched = e.ctx.touched
    /\ Ok(f) => Ok(e)

\* What changes only the sides spares everybody.
LEMMA SideOnlySpares ==
    ASSUME NEW e \in EngineType, NEW f, NEW K, SideOnly(e, f)
    PROVE  Spares(e, f, K)
  BY SameSpares DEF SideOnly

\* Such changes compose, ...
LEMMA SideOnlyTrans ==
    ASSUME NEW e, NEW f, NEW g, SideOnly(e, f), SideOnly(f, g)
    PROVE  SideOnly(e, g)
  BY DEF SideOnly

\* ... also after one of another kind.
LEMMA SparesSideOnly ==
    ASSUME NEW e, NEW f, NEW g, NEW K, Spares(e, f, K), SideOnly(f, g)
    PROVE  Spares(e, g, K)
  BY DEF SideOnly, Spares, Restful

\* The sides are written, ...
LEMMA SidesOnly ==
    ASSUME NEW e \in EngineType, NEW g
    PROVE  SideOnly(e, [e EXCEPT !.side = g])
  BY DEF SideOnly, EngineType, Ok

\* ... and some of them are to be reset, ...
LEMMA MarkOnly ==
    ASSUME NEW e \in EngineType, NEW g, NEW sides
    PROVE  SideOnly(e, MarkPendingReset([e EXCEPT !.side = g], sides))
<1>1. PICK f : f = [e EXCEPT !.side = g]
  OBVIOUS
<1>2. f.acc = e.acc /\ f.insurance = e.insurance /\ f.ctx = e.ctx /\ f.err = e.err
      /\ f.ctx \in ContextType
  BY <1>1, EngineFields DEF EngineType
<1>3. PICK c : c = [f.ctx EXCEPT !.pending_reset = @ \union sides]
  OBVIOUS
<1>4. c.touched = e.ctx.touched
  BY <1>2, <1>3 DEF ContextType
<1>5. PICK h : h = [f EXCEPT !.ctx = c]
  OBVIOUS
<1>6. h.acc = f.acc /\ h.insurance = f.insurance /\ h.ctx = c /\ h.err = f.err
  BY <1>1, <1>5 DEF EngineType
<1>7. MarkPendingReset(f, sides) = h
  BY <1>3, <1>5 DEF MarkPendingReset
<1>8. QED
  BY <1>1, <1>2, <1>4, <1>6, <1>7 DEF SideOnly, Ok

\* ... or the sides stay as they are.
LEMMA MarkedOnly ==
    ASSUME NEW e \in EngineType, NEW sides
    PROVE  SideOnly(e, MarkPendingReset(e, sides))
<1>1. [e EXCEPT !.side = e.side] = e
  BY DEF EngineType
<1>2. QED
  BY <1>1, MarkOnly

\* A check.
LEMMA CheckOnly ==
    ASSUME NEW e \in EngineType, NEW f \in {e, Reject(e), Corrupt(e)}
    PROVE  SideOnly(e, f)
  BY RejectSound, CorruptSound DEF SideOnly

\* One side is drained, ...
LEMMA DrainedOnly ==
    ASSUME NEW e \in EngineType, NEW opp \in Side
    PROVE  SideOnly(e, Drained(e, opp))
<1>1. PICK g : g = [e.side EXCEPT ![opp].oi = 0]
  OBVIOUS
<1>2. [e EXCEPT !.side[opp].oi = 0] = [e EXCEPT !.side = g]
  BY <1>1 DEF EngineType
<1>3. QED
  BY <1>2, MarkOnly DEF Drained

\* ... or shrinks.
LEMMA ShrunkOnly ==
    ASSUME NEW e \in EngineType, NEW opp \in Side, NEW n
    PROVE  SideOnly(e, Shrunk(e, opp, n))
<1>1. PICK o : o = e.side[opp]
  OBVIOUS
<1>2. PICK a : a = FloorDiv(o.mult * n, o.oi)
  OBVIOUS
<1>3. PICK p : p = [o EXCEPT !.mult = a, !.oi = n,
                            !.dust = IF n < o.oi THEN o.dust + AdlDust(o) ELSE o.dust,
                            !.mode = IF a < MIN_A_SIDE THEN "DrainOnly" ELSE o.mode]
  OBVIOUS
<1>4. PICK z : z = [s \in Side |-> [e.side[s] EXCEPT !.oi = 0]]
  OBVIOUS
<1>5. Shrunk(e, opp, n) \in {[e EXCEPT !.side[opp] = p], MarkPendingReset([e EXCEPT !.side = z], Side)}
  BY <1>1, <1>2, <1>3, <1>4 DEF Shrunk
<1>6. PICK g : g = [e.side EXCEPT ![opp] = p]
  OBVIOUS
<1>7. [e EXCEPT !.side[opp] = p] = [e EXCEPT !.side = g]
  BY <1>6 DEF EngineType
<1>8. QED
  BY <1>5, <1>7, MarkOnly, SidesOnly

\* enqueue_adl, the opposite side
LEMMA DeleveragedOnly ==
    ASSUME NEW e, Good(e), NEW opp \in Side, NEW q \in Nat, NEW d \in Int
    PROVE  SideOnly(e, Deleveraged(e, opp, q, d))
<1>1. e \in EngineType /\ e.side \in [Side -> SideType]
  BY EngineFields DEF Good
<1>2. PICK n \in Int : n = e.side[opp].oi
  BY <1>1, SideFields
<1>3. CASE n = 0 \/ q > n
  <2>1. PICK m : m = IF e.side[Opposite(opp)].oi = 0 THEN Side ELSE {}
    OBVIOUS
  <2>2. Deleveraged(e, opp, q, d) \in {MarkPendingReset(e, m), Corrupt(e)}
    BY <1>2, <1>3, <2>1 DEF Deleveraged
  <2>3. QED
    BY <1>1, <2>2, MarkedOnly, CheckOnly
<1>4. CASE ~(n = 0 \/ q > n)
  <2>1. n \in Nat \ {0}
    BY <1>4
  <2>2. PICK x : x = SocializedK(e, opp, d)
    OBVIOUS
  <2>3. x \in Int
    BY <1>1, <1>2, <2>1, <2>2, SocializedKInt
  <2>4. PICK k : k = [e EXCEPT !.side[opp].coeff = x]
    OBVIOUS
  <2>5. k \in EngineType
    BY <2>3, <2>4, CoeffSound DEF Sound, Moved, Good
  <2>6. SideOnly(e, k)
    BY <1>1, <2>4 DEF SideOnly, EngineType, Ok
  <2>7. PICK l : l = [e EXCEPT !.side[opp].oi = @ - q]
    OBVIOUS
  <2>8. SideOnly(e, l)
    BY <1>1, <2>7 DEF SideOnly, EngineType, Ok
  <2>9. Deleveraged(e, opp, q, d) \in {Drained(e, opp), Drained(k, opp), l, Shrunk(k, opp, n - q)}
    BY <1>2, <1>4, <2>2, <2>4, <2>7 DEF Deleveraged
  <2>10. SideOnly(e, Drained(e, opp)) /\ SideOnly(k, Drained(k, opp)) /\ SideOnly(k, Shrunk(k, opp, n - q))
    BY <1>1, <2>5, DrainedOnly, ShrunkOnly
  <2>11. SideOnly(e, Drained(k, opp)) /\ SideOnly(e, Shrunk(k, opp, n - q))
    BY <2>6, <2>10, SideOnlyTrans
  <2>12. QED
    BY <2>8, <2>9, <2>10, <2>11
<1>5. QED
  BY <1>3, <1>4

\* enqueue_adl
LEMMA EnqueueAdlSpares ==
    ASSUME NEW e, Good(e), NEW liq \in Side, NEW q \in Nat, NEW d \in Int, NEW K
    PROVE  Spares(e, EnqueueAdl(e, liq, q, d), K)
<1>1. e \in EngineType /\ e.side \in [Side -> SideType]
  BY EngineFields DEF Good
<1>2. CASE ~Ok(e) \/ q > e.side[liq].oi
  <2>1. EnqueueAdl(e, liq, q, d) \in {e, Corrupt(e)}
    BY <1>2 DEF EnqueueAdl
  <2>2. QED
    BY <1>1, <2>1, FailSpares
<1>3. CASE Ok(e) /\ ~(q > e.side[liq].oi)
  <2>1. PICK n \in Int : n = e.side[liq].oi - q
    BY <1>1, SideFields
  <2>2. PICK w : w = e.insurance - InsurancePays(e, d)
    OBVIOUS
  <2>3. w \in Int /\ w >= Lesser(e.insurance, insurance_floor)
    <3>1. e.insurance \in Int /\ insurance_floor \in Int
      BY <1>1, EngineFields, Consts
    <3>2. QED
      BY <2>2, <3>1 DEF InsurancePays, Lesser, Greater
  <2>4. PICK o \in SideType : o = [e.side[liq] EXCEPT !.oi = n]
    <3>1. [e.side[liq] EXCEPT !.oi = n] \in SideType
      BY <1>1, <2>1 DEF SideType
    <3>2. QED
      BY <3>1
  <2>5. PICK f : f = [e EXCEPT !.insurance = w, !.side[liq] = o]
    OBVIOUS
  <2>6. f = [UseInsurance(e, d) EXCEPT !.side[liq].oi = @ - q]
    <3>1. UseInsurance(e, d) = [e EXCEPT !.insurance = w]
      BY <2>2 DEF UseInsurance
    <3>2. [[e EXCEPT !.insurance = w] EXCEPT !.side[liq].oi = @ - q]
            = [[e EXCEPT !.insurance = w] EXCEPT !.side[liq] = o]
      BY <1>1, <2>1, <2>4 DEF EngineType
    <3>3. QED
      BY <1>1, <2>5, <3>1, <3>2 DEF EngineType
  <2>7. /\ f \in EngineType /\ f.acc = e.acc /\ f.ctx = e.ctx /\ f.err = e.err
        /\ f.insurance = w
    BY <1>1, <2>3, <2>4, <2>5 DEF EngineType
  <2>8. Spares(e, f, K)
    BY <1>1, <2>3, <2>7, LeavesSpares DEF Ok
  <2>9. PICK y : y = d - InsurancePays(e, d)
    OBVIOUS
  <2>10. y \in Int
    BY <1>1, <2>9, InsurancePaysInt
  <2>11. EnqueueAdl(e, liq, q, d) = Deleveraged(f, Opposite(liq), q, y)
    BY <1>3, <2>6, <2>9 DEF EnqueueAdl
  <2>12. Good(f)
    <3>1. /\ f.c_tot = e.c_tot /\ f.pnl_pos_tot = e.pnl_pos_tot /\ f.used = e.used
          /\ f.pnl_matured_pos_tot = e.pnl_matured_pos_tot /\ f.market_mode = e.market_mode
          /\ f.neg_pnl_account_count = e.neg_pnl_account_count /\ f.resolved = e.resolved
      BY <1>1, <2>5 DEF EngineType
    <3>2. \A s \in Side : f.side[s].stored = e.side[s].stored
      BY <1>1, <2>4, <2>5 DEF EngineType, SideType
    <3>3. /\ Capitals(f) = Capitals(e) /\ Profits(f) = Profits(e) /\ Releases(f) = Releases(e)
          /\ Negatives(f) = Negatives(e) /\ \A s \in Side : Stored(f, s) = Stored(e, s)
      BY <2>7 DEF Capitals, Profits, Releases, Negatives, Stored
    <3>4. QED
      BY <2>7, <3>1, <3>2, <3>3 DEF Good, Books, Sums, Ok
  <2>13. SideOnly(f, Deleveraged(f, Opposite(liq), q, y))
    BY <2>10, <2>12, OppositeSide, DeleveragedOnly
  <2>14. QED
    BY <2>8, <2>11, <2>13, SparesSideOnly
<1>4. QED
  BY <1>2, <1>3

-----------------------------------------------------------------------------
(* The finalisation of the touched accounts *)

\* consume_released_pnl
LEMMA ConsumeSpares ==
    ASSUME NEW e, Good(e), NEW i, Member(e, i), NEW x \in Nat, NEW K \in SUBSET Accounts, i \notin K
    PROVE  Spares(e, ConsumeReleased(e, i, x), K)
<1>1. e \in EngineType /\ i \in Accounts
  BY DEF Good, Member
<1>2. PICK b, p, m : /\ b = [e.acc[i] EXCEPT !.pnl = @ - x]
                     /\ p = e.pnl_pos_tot - x /\ m = e.pnl_matured_pos_tot - x
  OBVIOUS
<1>3. PICK f : f = [e EXCEPT !.acc[i] = b, !.pnl_pos_tot = p, !.pnl_matured_pos_tot = m]
  OBVIOUS
<1>4. f.acc = [e.acc EXCEPT ![i] = b] /\ f.insurance = e.insurance /\ f.err = e.err
      /\ f.ctx = e.ctx
  BY <1>1, <1>3 DEF EngineType
<1>5. e.insurance \in Int /\ insurance_floor \in Int
  BY <1>1, EngineFields, Consts
<1>6. f.insurance >= Lesser(e.insurance, insurance_floor)
  BY <1>4, <1>5 DEF Lesser
<1>7. Spares(e, f, K)
  BY <1>1, <1>4, <1>6, WriteSpares DEF Ok
<1>8. f = [e EXCEPT !.acc[i].pnl = @ - x, !.pnl_pos_tot = @ - x, !.pnl_matured_pos_tot = @ - x]
  BY <1>1, <1>2, <1>3 DEF EngineType
<1>9. ConsumeReleased(e, i, x) = f \/ (ConsumeReleased(e, i, x) = Corrupt(f) /\ Ok(f))
  BY <1>8 DEF ConsumeReleased, CorruptUnless
<1>10. Ok(f) => ~Ok(Corrupt(f))
  BY <1>3 DEF Corrupt, Fail, Ok, EngineType
<1>11. QED
  BY <1>7, <1>9, <1>10 DEF Spares

\* One account of finalize_touched_accounts_post_live: an idle one has no
\* profit to convert.
LEMMA FinalizeOneSpares ==
    ASSUME NEW e, Good(e), NEW i, Member(e, i), NEW whole, NEW K \in SUBSET Accounts, Calm(e, i, K)
    PROVE  Spares(e, FinalizeOne(e, i, whole), K)
<1>1. e \in EngineType /\ i \in Accounts /\ e.acc[i] \in AccountType
  BY EngineFields DEF Good, Member
<1>2. CASE ~Ok(e)
  BY <1>2, FinalizeOneSound, FailedSpares
<1>3. CASE Ok(e)
  <2>1. PICK x \in Int, c \in Int : x = ReleasedPos(e.acc[i]) /\ c = e.acc[i].capital
    BY <1>1, AccountFields, PosInt DEF ReleasedPos, Greater
  <2>2. PICK f : f = IF whole /\ e.acc[i].position_basis_q = 0 /\ e.acc[i].pnl > 0 /\ x > 0
                     THEN SetCapital(ConsumeReleased(e, i, x), i, c + x) ELSE e
    OBVIOUS
  <2>3. FinalizeOne(e, i, whole) = FeeDebtSweep(f, i)
    BY <2>1, <2>2 DEF FinalizeOne
  <2>4. CASE f = e
    BY <2>3, <2>4, FeeDebtSweepSpares
  <2>5. CASE f # e
    <3>1. x > 0 /\ e.acc[i].pnl > 0
      BY <2>2, <2>5
    <3>2. i \notin K
      BY <1>3, <3>1 DEF Calm, AtRest
    <3>3. PICK n \in Int : n = c + x
      BY <2>1
    <3>4. PICK d : d = ConsumeReleased(e, i, x)
      OBVIOUS
    <3>5. x \in Nat
      BY <2>1, <3>1
    <3>6. Sound(e, d) /\ Spares(e, d, K)
      BY <3>2, <3>4, <3>5, ConsumeSound, ConsumeSpares
    <3>7. Good(d) /\ Member(d, i) /\ d \in EngineType /\ i \in Accounts
      BY <1>1, <3>6, MemberKept DEF Good
    <3>8. n >= 0
      <4>1. c >= 0
        BY <1>1, <1>3, <2>1 DEF Good, Books
      <4>2. QED
        BY <2>1, <3>1, <3>3, <4>1
    <3>9. f = SetCapital(d, i, n)
      BY <2>2, <2>5, <3>3, <3>4
    <3>10. Sound(d, f) /\ Spares(d, f, K)
      BY <3>2, <3>7, <3>8, <3>9, SetCapitalSound, CapitalSpares
    <3>11. Sound(e, f) /\ Spares(e, f, K)
      BY <3>6, <3>10, SoundTrans, SoundSpares
    <3>12. Good(f) /\ Member(f, i) /\ Calm(f, i, K)
      BY <3>2, <3>11, MemberKept DEF Calm
    <3>13. Sound(f, FeeDebtSweep(f, i)) /\ Spares(f, FeeDebtSweep(f, i), K)
      BY <3>12, FeeDebtSweepSound, FeeDebtSweepSpares
    <3>14. QED
      BY <2>3, <3>11, <3>13, SoundSpares
  <2>6. QED
    BY <2>4, <2>5
<1>4. QED
  BY <1>2, <1>3

\* The records the engine may be in after e that spare K.
Sparing(e, K) == {f \in After(e) : Spares(e, f, K)}

\* finalize_touched_accounts_post_live
LEMMA FinalizeTouchedSpares ==
    ASSUME NEW e, Good(e), Tracked(e), NEW K \in SUBSET Accounts, Restful(e, K)
    PROVE  Spares(e, FinalizeTouched(e), K)
<1>0. e \in EngineType /\ Spares(e, e, K)
  BY SameSpares DEF Good
<1>1. CASE ~Ok(e)
  BY <1>0, <1>1 DEF FinalizeTouched
<1>2. CASE Ok(e)
  <2>1. PICK D, w : D = e.ctx.touched /\ w = IsWhole(e)
    OBVIOUS
  <2>2. /\ D \subseteq Accounts /\ D \subseteq e.used /\ IsFiniteSet(D) /\ D \subseteq Int
    <3>1. D \subseteq Accounts /\ D \subseteq e.used
      BY <1>2, <2>1, EngineFields DEF Good, Tracked, ContextType
    <3>2. IsFiniteSet(D)
      BY <3>1, Consts, FS_Subset
    <3>3. Accounts \subseteq Nat
      BY Consts
    <3>4. QED
      BY <3>1, <3>2, <3>3
  <2> DEFINE S == Sparing(e, K)
             Body(it) == [s \in SUBSET D |->
                            IF s = {} THEN e
                            ELSE FinalizeOne(it[s \ {Max(s)}], Max(s), w)]
             fold == CHOOSE it : it = Body(it)
             step == [p \in S \X D |-> FinalizeOne(p[1], p[2], w)]
  <2>3. FinalizeTouched(e) = fold[D]
    BY <1>2, <2>1, Zenon DEF FinalizeTouched, InOrder, MapThenFoldSet
  <2>4. e \in S
    BY <1>0, SoundRefl, AfterSound DEF Sparing
  <2>5. ASSUME NEW f \in S, NEW i \in D PROVE FinalizeOne(f, i, w) \in S
    <3>1. Sound(e, f) /\ Spares(e, f, K)
      BY <2>5, AfterSound DEF Sparing
    <3>2. Member(e, i)
      BY <2>2, <2>5 DEF Member
    <3>3. Good(f) /\ Member(f, i)
      BY <3>1, <3>2, MemberKept
    <3>4. Calm(e, i, K)
      BY <2>1, <2>5 DEF Calm, Restful
    <3>5. Calm(f, i, K)
      BY <3>1, <3>4, CalmKept
    <3>6. Sound(f, FinalizeOne(f, i, w)) /\ Spares(f, FinalizeOne(f, i, w), K)
      BY <3>3, <3>5, FinalizeOneSound, FinalizeOneSpares
    <3>7. Sound(e, FinalizeOne(f, i, w)) /\ Spares(e, FinalizeOne(f, i, w), K)
      BY <3>1, <3>6, SoundTrans, SoundSpares
    <3>8. QED
      BY <3>7, AfterSound DEF Sparing
  <2> HIDE DEF S
  <2>6. step \in [S \X D -> S]
    BY <2>5
  <2>7. Picks(MaxPick(D), D)
    BY <2>2, MaxPicks
  <2>8. PICK g \in [SUBSET D -> S] : Unfolds(g, D, MaxPick(D), e, step)
    <3> HIDE DEF step, fold, Body
    <3>1. QED
      BY <2>2, <2>4, <2>6, <2>7, FoldExists
  <2>9. g = Body(g)
    <3>1. ASSUME NEW s \in SUBSET D, s # {} PROVE g[s] = FinalizeOne(g[s \ {Max(s)}], Max(s), w)
      <4>1. MaxPick(D)[s] = Max(s) /\ MaxPick(D)[s] \in s
        BY <2>7, <3>1 DEF MaxPick, Picks
      <4>2. Max(s) \in D /\ g[s \ {Max(s)}] \in S
        BY <4>1
      <4>3. g[s] = step[<<g[s \ {Max(s)}], Max(s)>>]
        BY <2>8, <3>1, <4>1 DEF Unfolds
      <4>4. QED
        BY <4>2, <4>3
    <3>2. g[{}] = e
      BY <2>8 DEF Unfolds
    <3>3. QED
      BY <3>1, <3>2
  <2>10. fold = Body(fold)
    <3> HIDE DEF Body
    <3>1. \E h : h = Body(h)
      BY <2>9
    <3>2. QED
      BY <3>1
  <2>11. FoldsTo(fold, D, e, S)
    <3> HIDE DEF fold
    <3>1. fold[{}] = e
      BY <2>10
    <3>2. ASSUME NEW s \in SUBSET D, s # {}, fold[s \ {Max(s)}] \in S PROVE fold[s] \in S
      <4>1. fold[s] = FinalizeOne(fold[s \ {Max(s)}], Max(s), w)
        BY <2>10, <3>2
      <4>2. Max(s) \in D
        BY <2>7, <3>2 DEF MaxPick, Picks
      <4>3. QED
        BY <2>5, <3>2, <4>1, <4>2
    <3>3. QED
      BY <3>1, <3>2 DEF FoldsTo
  <2>12. fold[D] \in S
    <3> HIDE DEF fold
    <3>1. QED
      BY <2>2, <2>4, <2>11, FoldStays
  <2> HIDE DEF fold
  <2>13. QED
    BY <2>3, <2>12 DEF S, Sparing
<1>3. QED
  BY <1>1, <1>2

-----------------------------------------------------------------------------
(* The end of an instruction *)

\* Dust is cleared, ...
LEMMA ClearDustOnly ==
    ASSUME NEW e \in EngineType
    PROVE  SideOnly(e, ClearDust(e))
<1>1. PICK g : g = [s \in Side |-> [e.side[s] EXCEPT !.oi = 0]]
  OBVIOUS
<1>2. ClearDust(e) \in {e, Corrupt(e), MarkPendingReset([e EXCEPT !.side = g], Side)}
  BY <1>1 DEF ClearDust
<1>3. SideOnly(e, MarkPendingReset([e EXCEPT !.side = g], Side))
  BY MarkOnly
<1>4. QED
  BY <1>2, <1>3, CheckOnly

\* ... resets are scheduled, ...
LEMMA ScheduleOnly ==
    ASSUME NEW e, Good(e)
    PROVE  SideOnly(e, ScheduleResets(e))
<1>1. PICK c : c = ClearDust(e)
  OBVIOUS
<1>2. c \in EngineType /\ e \in EngineType
  BY <1>1, ClearDustSound DEF Sound, Moved, Good
<1>3. SideOnly(e, c)
  BY <1>1, <1>2, ClearDustOnly
<1>4. PICK m : m = {s \in Side : c.side[s].mode = "DrainOnly" /\ c.side[s].oi = 0}
  OBVIOUS
<1>5. ScheduleResets(e) = MarkPendingReset(c, m)
  BY <1>1, <1>4 DEF ScheduleResets, ResetDrained
<1>6. QED
  BY <1>2, <1>3, <1>5, MarkedOnly, SideOnlyTrans

\* ... and begin, ...
LEMMA BeginPendingOnly ==
    ASSUME NEW e \in EngineType, NEW s \in Side
    PROVE  SideOnly(e, BeginPending(e, s))
<1>1. PICK g : g = [e.side EXCEPT ![s] = NewEpoch(@)]
  OBVIOUS
<1>2. [e EXCEPT !.side[s] = NewEpoch(@)] = [e EXCEPT !.side = g]
  BY <1>1 DEF EngineType
<1>3. BeginPending(e, s) \in {e, Corrupt(e), [e EXCEPT !.side = g]}
  BY <1>2 DEF BeginPending, BeginReset
<1>4. SideOnly(e, [e EXCEPT !.side = g])
  BY SidesOnly
<1>5. QED
  BY <1>3, <1>4, CheckOnly

\* ... and what has been reset reopens.
LEMMA ReopenOnly ==
    ASSUME NEW e \in EngineType
    PROVE  SideOnly(e, ReopenReadySides(e))
  BY SidesOnly DEF ReopenReadySides

\* finalize_end_of_instruction_resets
LEMMA FinalizeResetsOnly ==
    ASSUME NEW e, Good(e)
    PROVE  SideOnly(e, FinalizeResets(e))
<1>1. "Long" \in Side /\ "Short" \in Side
  BY DEF Side
<1>2. PICK c : c = BeginPending(e, "Long")
  OBVIOUS
<1>3. PICK g : g = BeginPending(c, "Short")
  OBVIOUS
<1>4. Good(c)
  BY <1>1, <1>2, BeginPendingSound
<1>5. Good(g)
  BY <1>1, <1>3, <1>4, BeginPendingSound
<1>6. FinalizeResets(e) = ReopenReadySides(g)
  BY <1>2, <1>3 DEF FinalizeResets, BeginPending
<1>7. SideOnly(e, c) /\ SideOnly(c, g) /\ SideOnly(g, ReopenReadySides(g))
  BY <1>1, <1>2, <1>3, <1>4, <1>5, BeginPendingOnly, ReopenOnly DEF Good
<1>8. QED
  BY <1>6, <1>7, SideOnlyTrans

\* The end of an instruction, ...
LEMMA EndOnly ==
    ASSUME NEW e, Good(e)
    PROVE  SideOnly(e, EndOfInstruction(e))
<1>1. CASE ~Ok(e)
  BY <1>1 DEF EndOfInstruction, SideOnly
<1>2. CASE Ok(e)
  <2>1. PICK c : c = ScheduleResets(e)
    OBVIOUS
  <2>2. Good(c) /\ SideOnly(e, c)
    BY <2>1, ScheduleSound, ScheduleOnly DEF Sound, Moved
  <2>3. EndOfInstruction(e) = FinalizeResets(c)
    BY <1>2, <2>1 DEF EndOfInstruction
  <2>4. QED
    BY <2>2, <2>3, FinalizeResetsOnly, SideOnlyTrans
<1>3. QED
  BY <1>1, <1>2

\* ... with its checks.
LEMMA FinishOnly ==
    ASSUME NEW e, Good(e)
    PROVE  SideOnly(e, Finish(e))
<1>1. PICK g : g = EndOfInstruction(e)
  OBVIOUS
<1>2. Good(g) /\ g \in EngineType /\ SideOnly(e, g)
  BY <1>1, EndSound, EndOnly DEF Sound, Moved, Good
<1>3. Finish(e) \in {g, Corrupt(g)}
  BY <1>1 DEF Finish, AssertPostconditions, CorruptUnless
<1>4. SideOnly(g, Finish(e))
  BY <1>2, <1>3, CheckOnly
<1>5. QED
  BY <1>2, <1>4, SideOnlyTrans

\* The context forgets the sides to be reset.
LEMMA ForgetOnly ==
    ASSUME NEW e \in EngineType
    PROVE  SideOnly(e, [e EXCEPT !.ctx.pending_reset = {}])
<1>1. PICK c : c = [e.ctx EXCEPT !.pending_reset = {}]
  OBVIOUS
<1>2. c.touched = e.ctx.touched
  BY <1>1, EngineFields DEF ContextType
<1>3. PICK f : f = [e EXCEPT !.ctx.pending_reset = {}]
  OBVIOUS
<1>4. f.acc = e.acc /\ f.insurance = e.insurance /\ f.err = e.err /\ f.ctx = c
  BY <1>1, <1>3 DEF EngineType
<1>5. QED
  BY <1>2, <1>3, <1>4 DEF SideOnly, Ok

\* The resets before a trade.
LEMMA FlushOnly ==
    ASSUME NEW e, Good(e), Ok(e) => e.ctx.pending_reset = {}
    PROVE  SideOnly(e, FlushResets(e))
<1>1. PICK f : f = [e EXCEPT !.ctx.pending_reset = {}]
  OBVIOUS
<1>2. Good(f)
  <2>1. PICK c : c = [e.ctx EXCEPT !.pending_reset = {}]
    OBVIOUS
  <2>2. c \in ContextType /\ c.touched \subseteq e.ctx.touched
    BY <2>1, EngineFields DEF Good, ContextType
  <2>3. f = [e EXCEPT !.ctx = c]
    BY <1>1, <2>1 DEF Good, EngineType
  <2>4. QED
    BY <2>2, <2>3, BackedIdle, CtxBacked DEF Sound, Moved
<1>3. PICK g : g = EndOfInstruction(f)
  OBVIOUS
<1>4. Good(g) /\ SideOnly(f, g)
  BY <1>2, <1>3, EndSound, EndOnly DEF Sound, Moved
<1>5. FlushResets(e) = [g EXCEPT !.ctx.pending_reset = {}]
  BY <1>1, <1>3 DEF FlushResets
<1>6. SideOnly(e, f) /\ SideOnly(g, FlushResets(e))
  BY <1>1, <1>4, <1>5, ForgetOnly DEF Good
<1>7. QED
  BY <1>4, <1>6, SideOnlyTrans

-----------------------------------------------------------------------------
(* Liquidation *)

\* The position closed.
LEMMA CloseDownSpares ==
    ASSUME NEW e, Good(e), NEW i, Member(e, i), NEW price \in Nat, NEW eff \in Int, NEW new \in Int,
           NEW K \in SUBSET Accounts, i \notin K
    PROVE  Good(CloseDown(e, i, price, eff, new)) /\ Spares(e, CloseDown(e, i, price, eff, new), K)
<1>1. PICK a : a = AttachPosition(e, i, new)
  OBVIOUS
<1>2. Good(a) /\ Member(a, i) /\ Spares(e, a, K)
  BY <1>1, AttachWritten, MemberWritten, AttachSpares
<1>3. PICK g : g = SettleLosses(a, i)
  OBVIOUS
<1>4. Good(g) /\ Member(g, i)
  BY <1>2, <1>3, SettleLossesSound, MemberKept
<1>5. Spares(a, g, K)
  BY <1>2, <1>3, SettleLossesSpares DEF Calm
<1>6. PICK m \in Int, n \in Int : m = Abs(eff) /\ n = Abs(new)
  BY AbsNat
<1>7. PICK w \in Int : w = m - n
  OBVIOUS
<1>8. PICK x \in Nat : x = LiquidationFee(w, price)
  BY FeesNat
<1>9. PICK c : c = ChargeFee(g, i, x)
  OBVIOUS
<1>10. Good(c) /\ Spares(g, c, K)
  BY <1>4, <1>9, ChargeFeeSound, ChargeFeeSpares, MemberKept
<1>11. c = CloseDown(e, i, price, eff, new)
  BY <1>1, <1>3, <1>6, <1>7, <1>8, <1>9 DEF CloseDown
<1>12. Spares(e, g, K)
  BY <1>2, <1>4, <1>5, GoodSpares
<1>13. QED
  BY <1>4, <1>10, <1>11, <1>12, GoodSpares

\* The loss spread over the other side.
LEMMA DeficitSpreadSpares ==
    ASSUME NEW e, NEW i, Member(e, i), NEW c, Good(c), Written(e, c), NEW s \in Side, NEW q \in Nat,
           Ok(c) => Sound(e, OiLess(c, s, q)), NEW K \in SUBSET Accounts, i \notin K
    PROVE  Spares(c, DeficitSpread(c, i, s, q), K)
<1>1. PICK d : d = Pos(-c.acc[i].pnl)
  OBVIOUS
<1>2. d \in Int
  <2>1. -c.acc[i].pnl \in Int
    BY EngineFields, AccountFields DEF Good, Member
  <2>2. QED
    BY <1>1, <2>1, PosInt
<1>3. PICK f : f = EnqueueAdl(c, s, q, d)
  OBVIOUS
<1>4. Good(f) /\ Member(f, i)
  <2>1. Ok(c) => c.used # {}
    BY MemberWritten DEF Member
  <2>2. Sound(e, f)
    BY <1>2, <1>3, <2>1, EnqueueAdlSound
  <2>3. QED
    BY <2>2, MemberKept
<1>5. Spares(c, f, K)
  BY <1>2, <1>3, EnqueueAdlSpares
<1>6. PICK g : g = SetPnl(f, i, 0, "None")
  OBVIOUS
<1>7. Good(g) /\ Spares(f, g, K)
  BY <1>4, <1>6, SetPnlSound, SetPnlSpares, MemberKept
<1>8. Spares(c, g, K)
  BY <1>4, <1>5, <1>7, GoodSpares
<1>9. DeficitSpread(c, i, s, q) \in {f, g}
  BY <1>1, <1>3, <1>6 DEF DeficitSpread
<1>10. QED
  BY <1>5, <1>8, <1>9

\* A full liquidation takes from nobody else.
LEMMA LiquidateTouchedSpares ==
    ASSUME NEW e, Good(e), NEW i, Member(e, i), NEW price \in Nat,
           NEW K \in SUBSET Accounts, i \notin K
    PROVE  Spares(e, LiquidateTouched(e, i, price, FullClose), K)
<1>1. CASE ~Ok(e) \/ ~Liquidatable(e, i, price)
  <2>1. LiquidateTouched(e, i, price, FullClose) = e
    BY <1>1 DEF LiquidateTouched
  <2>2. QED
    BY <2>1, SameSpares DEF Good
<1>2. CASE Ok(e) /\ Liquidatable(e, i, price)
  <2>1. PICK eff \in Int : eff = EffectivePos(e, i)
    BY EffectivePosInt DEF Good, Member
  <2>2. eff # 0
    BY <1>2, <2>1 DEF Liquidatable
  <2>3. PICK s \in Side, q \in Nat : s = SideOf(eff) /\ q = Abs(eff)
    BY <2>2, SideOfSide, AbsNat
  <2>4. PICK c : c = CloseDown(e, i, price, eff, 0)
    OBVIOUS
  <2>5. q = Abs(eff) - Abs(0)
    BY <2>3 DEF Abs
  <2>6. Written(e, c) /\ (Ok(c) => Sound(e, OiLess(c, s, q)))
    BY <2>1, <2>2, <2>3, <2>4, <2>5, CloseDownSound
  <2>7. Good(c) /\ Spares(e, c, K)
    BY <2>4, CloseDownSpares
  <2>8. PICK f : f = DeficitSpread(c, i, s, q)
    OBVIOUS
  <2>9. Spares(c, f, K) /\ Good(f)
    BY <2>6, <2>7, <2>8, DeficitSpreadSpares, DeficitSpreadSound DEF Sound, Moved
  <2>10. LiquidateTouched(e, i, price, FullClose) = f
    BY <1>2, <2>1, <2>3, <2>4, <2>8 DEF LiquidateTouched, LiquidateFull, FullClose
  <2>11. QED
    BY <2>7, <2>9, <2>10, GoodSpares
<1>3. QED
  BY <1>1, <1>2

-----------------------------------------------------------------------------
(* The start of an instruction *)

\* The market accrues.
LEMMA AccrueOnly ==
    ASSUME NEW e \in EngineType, NEW now, NEW price, NEW rate
    PROVE  SideOnly(e, AccrueMarket(e, now, price, rate))
<1>1. PICK dt : dt = now - e.last_market_slot
  OBVIOUS
<1>2. PICK g : g = [s \in Side |-> [e.side[s] EXCEPT !.coeff = MarkedK(e, s, price),
                                                     !.f = FundedF(e, s, dt, rate)]]
  OBVIOUS
<1>3. PICK c, r : /\ c = [e EXCEPT !.current_slot = now]
                  /\ r = [e EXCEPT !.side = g, !.current_slot = now, !.last_market_slot = now,
                                   !.last_oracle_price = price]
  OBVIOUS
<1>4. SideOnly(e, c) /\ SideOnly(e, r)
  BY <1>3 DEF SideOnly, EngineType, Ok
<1>5. AccrueMarket(e, now, price, rate) \in {Reject(e), c, r}
  BY <1>1, <1>2, <1>3 DEF AccrueMarket
<1>6. QED
  BY <1>4, <1>5, CheckOnly

\* Nothing is touched when an instruction begins, ...
LEMMA BeginSpares ==
    ASSUME NEW e, Good(e), NEW now, NEW price, NEW rate, NEW pair \in Int \X Int, NEW K,
           NEW f, f = Begin(e, now, price, rate, pair)
    PROVE  Spares(e, f, K) /\ Restful(f, K)
<1>1. e \in EngineType /\ ~Ok(Reject(e))
  BY RejectSound DEF Good
<1>2. PICK c : c = Context(pair[1], pair[2])
  OBVIOUS
<1>3. c \in ContextType /\ c.touched = {}
  BY <1>2 DEF Context, ContextType
<1>4. PICK g : g = [e EXCEPT !.ctx = c]
  OBVIOUS
<1>5. g \in EngineType
  BY <1>1, <1>3, <1>4, CtxDrafted DEF Drafted, Written, Good
<1>6. g.acc = e.acc /\ g.insurance = e.insurance /\ g.ctx = c /\ g.err = e.err
  BY <1>1, <1>4 DEF EngineType
<1>7. PICK r : r = AccrueMarket(g, now, price, rate)
  OBVIOUS
<1>8. SideOnly(g, r)
  BY <1>5, <1>7, AccrueOnly
<1>9. r.acc = e.acc /\ r.insurance = e.insurance /\ r.ctx.touched = {} /\ (Ok(r) => Ok(e))
  BY <1>3, <1>6, <1>8 DEF SideOnly, Ok
<1>10. e.insurance \in Int /\ insurance_floor \in Int
  BY <1>1, EngineFields, Consts
<1>11. r.insurance >= Lesser(e.insurance, insurance_floor)
  BY <1>9, <1>10 DEF Lesser
<1>12. Restful(r, K) /\ Spares(e, r, K)
  BY <1>9, <1>11 DEF Restful, Spares
<1>13. f = Reject(e) \/ f = r
  BY <1>2, <1>4, <1>7 DEF Begin
<1>14. QED
  BY <1>1, <1>12, <1>13 DEF Restful, Spares

\* ... and then one account.
LEMMA BeginTouchSpares ==
    ASSUME NEW e, Result(e), NEW i \in Accounts, NEW now \in Int, NEW price \in Int,
           NEW rate \in Int, NEW pair \in Int \X Int,
           NEW f, f = BeginTouch(e, i, now, price, rate, pair),
           NEW K \in SUBSET Accounts, Calm(e, i, K)
    PROVE  Spares(e, f, K) /\ Restful(f, K)
<1>1. PICK b : b = Begin(e, now, price, rate, pair)
  OBVIOUS
<1>2. Good(e) /\ Good(b)
  BY <1>1, ResultBacked, BeginSound DEF Sound, Moved, Result
<1>3. Spares(e, b, K) /\ Restful(b, K)
  BY <1>1, <1>2, BeginSpares
<1>4. Calm(b, i, K)
  BY <1>3, CalmKept
<1>5. f = Touch(b, i)
  BY <1>1 DEF BeginTouch
<1>6. Good(f) /\ Spares(b, f, K)
  BY <1>2, <1>4, <1>5, TouchSound, TouchSpares DEF Sound, Moved
<1>7. Restful(f, K)
  BY <1>3, <1>6 DEF Spares, Restful
<1>8. QED
  BY <1>2, <1>3, <1>6, <1>7, GoodSpares

-----------------------------------------------------------------------------
(* Trade: whoever is neither party is spared. *)

\* The slippage is booked, ...
LEMMA TradePnlSpares ==
    ASSUME NEW e, Good(e), NEW t \in TermsType, Member(e, t.who[1]), Member(e, t.who[2]),
           NEW K \in SUBSET Accounts, t.who[1] \notin K, t.who[2] \notin K
    PROVE  Spares(e, TradePnlSet(e, t), K)
<1>1. PICK a, b, x, y : /\ a = t.who[1] /\ b = t.who[2] /\ x = e.acc[a].pnl + t.gains[1]
                        /\ y = e.acc[b].pnl + t.gains[2]
  OBVIOUS
<1>2. Member(e, a) /\ Member(e, b) /\ x \in Int /\ y \in Int
  BY <1>1, EngineFields, AccountFields, TermsFields DEF Good
<1>3. PICK f : f = SetPnl(e, a, x, "Admit")
  OBVIOUS
<1>4. Good(f) /\ Member(f, b) /\ Spares(e, f, K)
  BY <1>1, <1>2, <1>3, SetPnlSound, SetPnlSpares, MemberKept
<1>5. PICK g : g = SetPnl(f, b, y, "Admit")
  OBVIOUS
<1>6. Good(g) /\ Spares(f, g, K)
  BY <1>1, <1>2, <1>4, <1>5, SetPnlSound, SetPnlSpares, MemberKept
<1>7. TradePnlSet(e, t) = g
  BY <1>1, <1>3, <1>5 DEF TradePnlSet
<1>8. QED
  BY <1>4, <1>6, <1>7, GoodSpares

\* ... the positions are attached, ...
LEMMA TradeAttachedSpares ==
    ASSUME NEW e, Good(e), NEW t \in TermsType, Member(e, t.who[1]), Member(e, t.who[2]),
           NEW K \in SUBSET Accounts, t.who[1] \notin K, t.who[2] \notin K
    PROVE  /\ Spares(e, TradeAttached(e, t), K) /\ Good(TradeAttached(e, t))
           /\ Member(TradeAttached(e, t), t.who[1]) /\ Member(TradeAttached(e, t), t.who[2])
<1>1. PICK a, b, x, y : a = t.who[1] /\ b = t.who[2] /\ x = t.news[1] /\ y = t.news[2]
  OBVIOUS
<1>2. Member(e, a) /\ Member(e, b) /\ x \in Int /\ y \in Int
  BY <1>1, TermsFields
<1>3. PICK f : f = AttachPosition(e, a, x)
  OBVIOUS
<1>4. Good(f) /\ Member(f, a) /\ Member(f, b) /\ Spares(e, f, K)
  <2>1. Written(e, f) /\ Spares(e, f, K)
    BY <1>1, <1>2, <1>3, AttachWritten, AttachSpares
  <2>2. QED
    BY <1>2, <2>1, MemberWritten
<1>5. PICK g : g = AttachPosition(f, b, y)
  OBVIOUS
<1>6. Good(g) /\ Member(g, a) /\ Member(g, b) /\ Spares(f, g, K)
  <2>1. Written(f, g) /\ Spares(f, g, K)
    BY <1>1, <1>2, <1>4, <1>5, AttachWritten, AttachSpares
  <2>2. QED
    BY <1>4, <2>1, MemberWritten
<1>7. PICK n : n = [s \in Side |-> OiAfter(e, s, t.olds, t.news)]
  OBVIOUS
<1>8. n \in [Side -> Int]
  BY <1>7, OiAfterInt DEF Good
<1>9. PICK h : h = OiSet(g, n)
  OBVIOUS
<1>10. SideOnly(g, h)
  BY <1>6, <1>9, SidesOnly DEF OiSet, Good
<1>11. TradeAttached(e, t) = h
  BY <1>1, <1>3, <1>5, <1>7, <1>9 DEF TradeAttached, OiSet
<1>12. Spares(e, g, K)
  BY <1>4, <1>6, GoodSpares
<1>13. Good(h) /\ Member(h, a) /\ Member(h, b)
  BY <1>6, <1>8, <1>9, OiSetDrafted, MemberWritten DEF Drafted
<1>14. QED
  BY <1>1, <1>10, <1>11, <1>12, <1>13, SparesSideOnly

\* ... and the fees are charged.
LEMMA TradeFeesSpares ==
    ASSUME NEW e, Good(e), NEW t \in TermsType, Member(e, t.who[1]), Member(e, t.who[2]),
           t.fee \in Nat, NEW K \in SUBSET Accounts, t.who[1] \notin K, t.who[2] \notin K
    PROVE  Spares(e, TradeFees(e, t), K)
<1>1. PICK a, b, x : a = t.who[1] /\ b = t.who[2] /\ x = t.fee
  OBVIOUS
<1>2. Member(e, a) /\ Member(e, b) /\ x \in Nat
  BY <1>1
<1>3. PICK f : f = ChargeFee(e, a, x)
  OBVIOUS
<1>4. Good(f) /\ Member(f, b) /\ Spares(e, f, K)
  BY <1>1, <1>2, <1>3, ChargeFeeSound, ChargeFeeSpares, MemberKept
<1>5. PICK g : g = ChargeFee(f, b, x)
  OBVIOUS
<1>6. Good(g) /\ Spares(f, g, K)
  BY <1>1, <1>2, <1>4, <1>5, ChargeFeeSound, ChargeFeeSpares, MemberKept
<1>7. Spares(e, g, K)
  BY <1>4, <1>6, GoodSpares
<1>8. TradeFees(e, t) \in {g, Reject(g)}
  BY <1>1, <1>3, <1>5 DEF TradeFees, TradeChecked, RejectUnless
<1>9. QED
  BY <1>6, <1>7, <1>8, CheckSpares DEF Good

\* A trade whose gates are open, booked.
LEMMA TradeBookedSpares ==
    ASSUME NEW e, Good(e), NEW t \in TermsType, Member(e, t.who[1]), Member(e, t.who[2]),
           t.fee \in Nat, NEW K \in SUBSET Accounts, t.who[1] \notin K, t.who[2] \notin K
    PROVE  Spares(e, TradeBooked(e, t), K) /\ Good(TradeBooked(e, t))
<1>1. PICK a, b : a = t.who[1] /\ b = t.who[2]
  OBVIOUS
<1>2. PICK f : f = TradeAttached(e, t)
  OBVIOUS
<1>3. Good(f) /\ Member(f, a) /\ Member(f, b) /\ Spares(e, f, K)
  BY <1>1, <1>2, TradeAttachedSpares
<1>4. PICK g : g = SettleLosses(f, a)
  OBVIOUS
<1>5. Good(g) /\ Member(g, a) /\ Member(g, b)
  BY <1>3, <1>4, SettleLossesSound, MemberKept
<1>6. Spares(f, g, K)
  BY <1>1, <1>3, <1>4, SettleLossesSpares DEF Calm
<1>7. PICK h : h = SettleLosses(g, b)
  OBVIOUS
<1>8. Good(h) /\ Member(h, a) /\ Member(h, b)
  BY <1>5, <1>7, SettleLossesSound, MemberKept
<1>9. Spares(g, h, K)
  BY <1>1, <1>5, <1>7, SettleLossesSpares DEF Calm
<1>10. PICK k : k = TradeFees(h, t)
  OBVIOUS
<1>11. Good(k) /\ Spares(h, k, K)
  BY <1>1, <1>8, <1>10, TradeFeesSound, TradeFeesSpares DEF Sound, Moved
<1>12. Spares(e, g, K)
  BY <1>3, <1>5, <1>6, GoodSpares
<1>13. Spares(e, h, K)
  BY <1>5, <1>8, <1>9, <1>12, GoodSpares
<1>14. Spares(e, k, K)
  BY <1>8, <1>11, <1>13, GoodSpares
<1>15. TradeBooked(e, t) \in {e, k}
  BY <1>1, <1>2, <1>4, <1>7, <1>10 DEF TradeBooked
<1>16. QED
  BY <1>11, <1>14, <1>15, SameSpares DEF Good


\* execute_trade_not_atomic, between the touches and the finalisation
LEMMA TradeLegsSpares ==
    ASSUME NEW e, Good(e), NEW a, Member(e, a), NEW b, Member(e, b), NEW price \in Int,
           NEW size \in Int, NEW exec \in Nat,
           NEW K \in SUBSET Accounts, a \notin K, b \notin K
    PROVE  Spares(e, TradeLegs(e, a, b, price, size, exec), K)
<1>1. PICK t : t = TradeTerms(e, a, b, price, size, exec)
  OBVIOUS
<1>2. t \in TermsType
  BY <1>1, TermsTyped DEF Good, Member
<1>3. t.who[1] = a /\ t.who[2] = b /\ t.fee \in Nat
  BY <1>1, FeesNat DEF TradeTerms
<1>4. PICK f : f = ReopenReadySides(e)
  OBVIOUS
<1>5. Good(f) /\ Member(f, a) /\ Member(f, b) /\ Spares(e, f, K)
  BY <1>4, ReopenSound, ReopenOnly, SideOnlySpares, MemberKept DEF Good
<1>6. PICK g : g = TradeGates(f, t.olds, t.news)
  OBVIOUS
<1>7. Sound(f, g) /\ (Ok(g) => g = f)
  BY <1>5, <1>6, TradeGatesSound
<1>8. Good(g) /\ Member(g, a) /\ Member(g, b)
  BY <1>5, <1>7, MemberKept
<1>9. Spares(e, g, K)
  BY <1>5, <1>7 DEF Spares
<1>10. PICK h : h = TradePnlSet(g, t)
  OBVIOUS
<1>11. Good(h) /\ Member(h, a) /\ Member(h, b) /\ Spares(g, h, K)
  BY <1>2, <1>3, <1>8, <1>10, TradePnlSound, TradePnlSpares, MemberKept
<1>12. PICK k : k = TradeBooked(h, t)
  OBVIOUS
<1>13. Good(k) /\ Spares(h, k, K)
  BY <1>2, <1>3, <1>11, <1>12, TradeBookedSpares
<1>14. Spares(e, h, K)
  BY <1>8, <1>9, <1>11, GoodSpares
<1>15. Spares(e, k, K)
  BY <1>11, <1>13, <1>14, GoodSpares
<1>16. TradeLegs(e, a, b, price, size, exec) \in {e, k}
  BY <1>1, <1>4, <1>6, <1>10, <1>12 DEF TradeLegs, TradeLegsOn
<1>17. QED
  BY <1>15, <1>16, SameSpares DEF Good

-----------------------------------------------------------------------------
(* Instructions *)

\* Every live instruction ends so.
LEMMA FinishSpares ==
    ASSUME NEW e, NEW t, Good(e), Good(t), Tracked(t), NEW K \in SUBSET Accounts,
           Spares(e, t, K), Restful(t, K)
    PROVE  Spares(e, Finish(FinalizeTouched(t)), K)
<1>1. PICK f : f = FinalizeTouched(t)
  OBVIOUS
<1>2. Good(f) /\ Spares(t, f, K)
  BY <1>1, FinalizeTouchedSound, FinalizeTouchedSpares DEF Sound, Moved
<1>3. Spares(e, f, K)
  BY <1>2, GoodSpares
<1>4. SideOnly(f, Finish(f))
  BY <1>2, FinishOnly
<1>5. QED
  BY <1>1, <1>3, <1>4, SparesSideOnly

\* settle_account_not_atomic
LEMMA SettleSpares ==
    ASSUME NEW e, Result(e), NEW i \in Accounts, NEW now \in Int,
           NEW price \in Int, NEW rate \in Int, NEW pair \in Int \X Int,
           NEW K \in SUBSET Accounts, Calm(e, i, K)
    PROVE  Spares(e, SettleOp(e, i, now, price, rate, pair), K)
<1>1. PICK t : t = BeginTouch(e, i, now, price, rate, pair)
  OBVIOUS
<1>2. Good(e) /\ Tracked(t) /\ Good(t)
  BY <1>1, BeginTouchSound, ResultBacked
<1>3. Spares(e, t, K) /\ Restful(t, K)
  BY <1>1, BeginTouchSpares
<1>4. SettleOp(e, i, now, price, rate, pair) = Finish(FinalizeTouched(t))
  BY <1>1 DEF SettleOp
<1>5. QED
  BY <1>2, <1>3, <1>4, FinishSpares

\* liquidate_at_oracle_not_atomic, in full
LEMMA LiquidateSpares ==
    ASSUME NEW e, Result(e), NEW i \in Accounts, NEW now \in Int,
           NEW price \in Nat, NEW rate \in Int, NEW pair \in Int \X Int,
           NEW K \in SUBSET Accounts, i \notin K
    PROVE  Spares(e, LiquidateOp(e, i, now, price, FullClose, rate, pair), K)
<1>1. PICK t : t = BeginTouch(e, i, now, price, rate, pair)
  OBVIOUS
<1>2. Good(e) /\ Tracked(t) /\ Good(t) /\ Member(t, i)
  BY <1>1, BeginTouchSound, ResultBacked
<1>3. Calm(e, i, K)
  BY DEF Calm
<1>4. Spares(e, t, K) /\ Restful(t, K)
  BY <1>1, <1>3, BeginTouchSpares
<1>5. PICK l : l = LiquidateTouched(t, i, price, FullClose)
  OBVIOUS
<1>6. Sound(t, l) /\ Spares(t, l, K)
  <2>1. FullClose.q \in Nat
    BY DEF FullClose
  <2>2. QED
    BY <1>2, <1>5, <2>1, LiquidateTouchedSound, LiquidateTouchedSpares
<1>7. Good(l) /\ Tracked(l) /\ Restful(l, K)
  BY <1>2, <1>4, <1>6 DEF Sound, Moved, Kept, Alike, Spares, Restful
<1>8. Spares(e, l, K)
  BY <1>2, <1>4, <1>6, <1>7, GoodSpares
<1>9. LiquidateOp(e, i, now, price, FullClose, rate, pair) = Finish(FinalizeTouched(l))
  BY <1>1, <1>5 DEF LiquidateOp
<1>10. QED
  BY <1>2, <1>7, <1>8, <1>9, FinishSpares

\* execute_trade_not_atomic
LEMMA TradeSpares ==
    ASSUME NEW e, Result(e), NEW a \in Accounts, NEW b \in Accounts, NEW now \in Int,
           NEW price \in Int, NEW size \in Int, NEW exec \in Nat, NEW rate \in Int,
           NEW pair \in Int \X Int, NEW K \in SUBSET Accounts, a \notin K, b \notin K
    PROVE  Spares(e, TradeOp(e, a, b, now, price, size, exec, rate, pair), K)
<1>1. PICK t : t = BeginTouch(e, a, now, price, rate, pair)
  OBVIOUS
<1>2. /\ Good(e) /\ Tracked(t) /\ Member(t, a) /\ Good(t)
      /\ Ok(t) => t.ctx.pending_reset = {}
  BY <1>1, BeginTouchSound, ResultBacked
<1>3. Calm(e, a, K) /\ Calm(t, b, K)
  BY DEF Calm
<1>4. Spares(e, t, K) /\ Restful(t, K)
  BY <1>1, <1>3, BeginTouchSpares
<1>5. PICK u : u = Touch(t, b)
  OBVIOUS
<1>6. Sound(t, u) /\ (Ok(u) => b \in t.used) /\ EqualOi(t, u) /\ Spares(t, u, K)
  BY <1>2, <1>3, <1>5, TouchSound, TouchSpares
<1>7. Good(u) /\ Member(u, a) /\ Member(u, b)
  BY <1>2, <1>6, MemberKept DEF Sound, Moved, Kept, Alike, Member
<1>8. PICK v : v = FlushResets(u)
  OBVIOUS
<1>9. Sound(u, v) /\ SideOnly(u, v)
  <2>1. Ok(u) => u.ctx.pending_reset = {}
    BY <1>2, <1>6 DEF EqualOi, Sound, Moved, Kept, Alike
  <2>2. QED
    BY <1>7, <1>8, <2>1, FlushSound, FlushOnly
<1>10. Good(v) /\ Member(v, a) /\ Member(v, b)
  BY <1>7, <1>9, MemberKept
<1>11. PICK l : l = TradeLegs(v, a, b, price, size, exec)
  OBVIOUS
<1>12. Spares(v, l, K)
  BY <1>10, <1>11, TradeLegsSpares
<1>13. Spares(e, u, K)
  BY <1>2, <1>4, <1>6, <1>7, GoodSpares
<1>14. Spares(e, v, K)
  BY <1>9, <1>13, SparesSideOnly
<1>15. Result(e) /\ e \in EngineType
  BY <1>2 DEF Good
<1>16. PICK p : p = TradeOp(e, a, b, now, price, size, exec, rate, pair)
  OBVIOUS
<1>17. CASE p = Reject(e)
  BY <1>15, <1>16, <1>17, FailSpares
<1>18. CASE p # Reject(e)
  <2>1. p = Finish(FinalizeTouched(l)) /\ a # b /\ size \in 1..MAX_POSITION_ABS_Q
    BY <1>1, <1>5, <1>8, <1>11, <1>16, <1>18 DEF TradeOp
  <2>2. Good(l) /\ Tracked(l)
    <3>1. Traded(v, l)
      <4>1. size > 0
        BY <2>1, Consts
      <4>2. ASSUME Ok(v) PROVE Even(v)
        <5>1. Ok(e) /\ (Even(e) => Even(t))
          BY <1>1, <1>2, <1>4, <1>6, <1>9, <4>2, BeginTouchSound, ResultBacked DEF Sound, Moved, Kept, Alike, Spares
        <5>2. Even(t)
          BY <5>1 DEF Result, Market
        <5>3. Even(u)
          BY <1>6, <5>2 DEF Even, EqualOi, Side
        <5>4. Ok(u) => u.ctx.pending_reset = {}
          BY <1>2, <1>6 DEF EqualOi, Sound, Moved, Kept, Alike
        <5>5. QED
          BY <1>7, <1>8, <5>3, <5>4, FlushSound
      <4>3. QED
        BY <1>10, <1>11, <2>1, <4>1, <4>2, TradeLegsTraded
    <3>2. Tracked(v)
      BY <1>2, <1>6, <1>9 DEF Sound, Moved, Kept, Alike
    <3>3. QED
      BY <3>1, <3>2 DEF Traded, Kept, Alike
  <2>3. Spares(e, l, K)
    BY <1>2, <1>10, <1>12, <1>14, <2>2, GoodSpares
  <2>4. Restful(l, K)
    BY <1>4, <1>6, <1>9, <1>12 DEF Spares, Restful, SideOnly
  <2>5. QED
    BY <1>2, <1>16, <2>1, <2>2, <2>3, <2>4, FinishSpares
<1>19. QED
  BY <1>16, <1>17, <1>18

\* Money moves in or out of the vault for an account that is not of K.
LEMMA PaidSpares ==
    ASSUME NEW e \in EngineType, NEW i \in Accounts, NEW amount \in Int,
           NEW K \in SUBSET Accounts, i \notin K
    PROVE  Spares(e, Paid(e, i, amount), K)
<1>1. PICK f, n, b : /\ f = Paid(e, i, amount) /\ n = e.acc[i].capital + amount
                     /\ b = [e.acc[i] EXCEPT !.capital = n]
  OBVIOUS
<1>2. /\ f.acc = [e.acc EXCEPT ![i] = b] /\ f.ctx = e.ctx /\ f.insurance = e.insurance
      /\ f.err = e.err
  BY <1>1 DEF Paid, SetCapital, EngineType
<1>3. e.insurance \in Int /\ insurance_floor \in Int
  BY EngineFields, Consts
<1>4. f.insurance >= Lesser(e.insurance, insurance_floor)
  BY <1>2, <1>3 DEF Lesser
<1>5. QED
  BY <1>1, <1>2, <1>4, WriteSpares DEF Ok

\* withdraw_not_atomic
LEMMA WithdrawSpares ==
    ASSUME NEW e, Result(e), NEW i \in Accounts, NEW amount \in Int, NEW now \in Int,
           NEW price \in Int, NEW rate \in Int, NEW pair \in Int \X Int,
           NEW K \in SUBSET Accounts, i \notin K
    PROVE  Spares(e, WithdrawOp(e, i, amount, now, price, rate, pair), K)
<1>1. PICK t : t = BeginTouch(e, i, now, price, rate, pair)
  OBVIOUS
<1>2. Good(e) /\ Tracked(t) /\ Good(t) /\ Member(t, i)
  BY <1>1, BeginTouchSound, ResultBacked
<1>3. Calm(e, i, K)
  BY DEF Calm
<1>4. Spares(e, t, K) /\ Restful(t, K)
  BY <1>1, <1>3, BeginTouchSpares
<1>5. PICK f : f = FinalizeTouched(t)
  OBVIOUS
<1>6. Good(f) /\ Member(f, i) /\ Spares(t, f, K)
  BY <1>2, <1>4, <1>5, FinalizeTouchedSound, FinalizeTouchedSpares, MemberKept DEF Sound, Moved
<1>7. Spares(e, f, K)
  BY <1>2, <1>4, <1>6, GoodSpares
<1>8. PICK g : g = Withdrawn(f, i, amount, price)
  OBVIOUS
<1>9. Good(g) /\ Spares(f, g, K)
  <2>1. Good(g)
    BY <1>6, <1>8, WithdrawnMoved DEF Moved
  <2>2. PICK cond : cond = WithdrawOk(f, i, amount, price)
    OBVIOUS
  <2>3. PICK r : r = RejectUnless(f, cond)
    OBVIOUS
  <2>4. r \in {f, Reject(f)} /\ Good(r)
    BY <1>6, <2>3, RejectUnlessSound DEF Sound, Moved
  <2>5. Spares(f, r, K)
    BY <1>6, <2>4, FailSpares DEF Good
  <2>6. PICK m \in Int : m = -amount
    OBVIOUS
  <2>7. PICK p : p = Paid(r, i, m)
    OBVIOUS
  <2>8. Spares(r, p, K)
    BY <2>4, <2>7, PaidSpares DEF Good
  <2>9. p \in EngineType
    <3>1. r \in EngineType /\ r.vault \in Int /\ m \in Int
      BY <2>4, EngineFields DEF Good
    <3>2. PICK v \in Int : v = r.vault + m
      BY <3>1
    <3>3. PICK w : w = Cash(r, v, r.insurance)
      OBVIOUS
    <3>4. w = [r EXCEPT !.vault = @ + m] /\ w \in EngineType
      BY <3>1, <3>2, <3>3 DEF Cash, EngineType
    <3>5. r.acc[i].capital + m \in Int
      BY <3>1, <2>6, EngineFields, AccountFields
    <3>6. PICK n \in Int : n = r.acc[i].capital + m
      BY <3>5
    <3>7. p = SetCapital(w, i, n)
      BY <2>7, <3>4, <3>6 DEF Paid
    <3>8. w.acc \in [Accounts -> AccountType] /\ w.c_tot \in Int /\ w.acc[i] \in AccountType
      BY <3>4, EngineFields
    <3>9. w.acc[i].capital \in Int /\ [w.acc[i] EXCEPT !.capital = n] \in AccountType
      BY <3>8, AccountFields DEF AccountType
    <3>10. w.c_tot + (n - w.acc[i].capital) \in Int
      BY <3>8, <3>9
    <3>11. QED
      BY <3>4, <3>7, <3>8, <3>9, <3>10 DEF SetCapital, EngineType
  <2>10. Spares(f, p, K)
    BY <1>6, <2>4, <2>5, <2>8, <2>9, SparesTrans DEF Good
  <2>11. g \in {p, Reject(p), Corrupt(p)}
    BY <1>8, <2>2, <2>3, <2>6, <2>7 DEF Withdrawn, CorruptUnless
  <2>12. QED
    BY <1>6, <2>1, <2>9, <2>10, <2>11, CheckSpares DEF Good
<1>10. Spares(e, g, K)
  BY <1>2, <1>6, <1>7, <1>9, GoodSpares
<1>11. SideOnly(g, Finish(g))
  BY <1>9, FinishOnly
<1>12. WithdrawOp(e, i, amount, now, price, rate, pair) = Finish(g)
  BY <1>1, <1>5, <1>8 DEF WithdrawOp
<1>13. QED
  BY <1>10, <1>11, <1>12, SparesSideOnly

\* deposit_not_atomic, after the money is there
LEMMA DepositEndSpares ==
    ASSUME NEW e, Good(e), NEW i, Member(e, i), NEW K \in SUBSET Accounts, Calm(e, i, K)
    PROVE  Spares(e, AssertPostconditions(SweepWhenFlat(SettleLosses(e, i), i)), K)
<1>1. PICK l : l = SettleLosses(e, i)
  OBVIOUS
<1>2. Good(l) /\ Member(l, i)
  BY <1>1, SettleLossesSound, MemberKept
<1>3. Spares(e, l, K)
  BY <1>1, SettleLossesSpares
<1>4. Calm(l, i, K)
  BY <1>3, CalmKept
<1>5. PICK s : s = SweepWhenFlat(l, i)
  OBVIOUS
<1>6. s \in {l, FeeDebtSweep(l, i)}
  BY <1>5 DEF SweepWhenFlat
<1>7. Good(s)
  BY <1>2, <1>6, FeeDebtSweepSound DEF Sound, Moved
<1>8. Spares(l, s, K)
  BY <1>2, <1>4, <1>6, SameSpares, FeeDebtSweepSpares DEF Good
<1>9. Spares(e, s, K)
  BY <1>2, <1>3, <1>7, <1>8, GoodSpares
<1>10. AssertPostconditions(s) \in {s, Reject(s), Corrupt(s)}
  BY DEF AssertPostconditions, CorruptUnless
<1>11. QED
  BY <1>1, <1>5, <1>7, <1>9, <1>10, CheckSpares DEF Good

\* deposit_not_atomic, from the account that is there: what is paid in, ...
LEMMA DepositPaid ==
    ASSUME NEW o, Result(o), NEW i, Member(o, i), NEW amount \in Nat, NEW now \in Int,
           NEW paid, paid = Paid([o EXCEPT !.current_slot = now], i, amount)
    PROVE  /\ Good(o) /\ Good(paid) /\ Member(paid, i) /\ paid.err = o.err
           /\ paid.acc = [o.acc EXCEPT ![i].capital = o.acc[i].capital + amount]
           /\ \A K \in SUBSET Accounts : i \notin K => Spares(o, paid, K)
<1>1. o \in EngineType /\ Good(o) /\ o.last_market_slot \in Int /\ o.last_oracle_price \in Int
      /\ i \in Accounts
  BY EngineFields DEF Result, Good, Member
<1>2. PICK c : c = [o EXCEPT !.current_slot = now, !.last_market_slot = o.last_market_slot,
                             !.last_oracle_price = o.last_oracle_price]
  OBVIOUS
<1>3. c = [o EXCEPT !.current_slot = now]
  BY <1>1, <1>2 DEF EngineType
<1>4. Sound(o, c)
  BY <1>1, <1>2, ClockSound
<1>5. Good(c) /\ Member(c, i) /\ c \in EngineType
  BY <1>4, MemberKept DEF Good
<1>6. paid = Paid(c, i, amount)
  BY <1>3
<1>7. c.acc = o.acc /\ c.insurance = o.insurance /\ c.ctx = o.ctx /\ c.err = o.err
  BY <1>1, <1>3 DEF EngineType
<1>8. Moved(c, paid)
  <2>1. c.acc[i].capital \in Int
    BY <1>1, <1>5, EngineFields, AccountFields
  <2>2. Ok(c) => c.acc[i].capital + amount >= 0
    BY <1>1, <1>5, <2>1 DEF Good, Books
  <2>3. amount \in Int
    OBVIOUS
  <2>4. QED
    BY <1>5, <1>6, <2>2, <2>3, PaidMoved
<1>9. Good(paid) /\ Member(paid, i)
  BY <1>5, <1>8, MemberMoved
<1>10. PICK n : n = c.acc[i].capital + amount
  OBVIOUS
<1>11. paid.acc = [c.acc EXCEPT ![i].capital = n] /\ paid.err = c.err
  <2>1. PICK w : w = [c EXCEPT !.vault = @ + amount]
    OBVIOUS
  <2>2. w.acc = c.acc /\ w.err = c.err
    BY <1>5, <2>1 DEF EngineType
  <2>3. paid = SetCapital(w, i, n)
    BY <1>6, <1>10, <2>1 DEF Paid
  <2>4. SetCapital(w, i, n).acc = [w.acc EXCEPT ![i].capital = n]
        /\ SetCapital(w, i, n).err = w.err
    BY <1>5, <2>1 DEF SetCapital, EngineType
  <2>5. QED
    BY <2>2, <2>3, <2>4
<1>12. ASSUME NEW K \in SUBSET Accounts, i \notin K PROVE Spares(o, paid, K)
  <2>1. Spares(o, c, K)
    BY <1>1, <1>7, SameSpares DEF Ok
  <2>2. Spares(c, paid, K)
    BY <1>1, <1>5, <1>6, <1>12, PaidSpares
  <2>3. QED
    BY <1>1, <1>5, <1>9, <2>1, <2>2, GoodSpares
<1>13. QED
  BY <1>1, <1>7, <1>9, <1>10, <1>11, <1>12

\* ... and what an account that is taken into use changes.
LEMMA MaterializedSpares ==
    ASSUME NEW e \in EngineType, NEW i \in Accounts, NEW now, NEW K \in SUBSET Accounts,
           i \notin K
    PROVE  Spares(e, Materialized(e, i, now), K)
<1>1. PICK f, b : f = Materialized(e, i, now) /\ b = [EmptyAccount EXCEPT !.last_fee_slot = now]
  OBVIOUS
<1>2. /\ f.acc = [e.acc EXCEPT ![i] = b] /\ f.ctx = e.ctx /\ f.insurance = e.insurance
      /\ f.err = e.err
  BY <1>1 DEF Materialized, EngineType
<1>3. e.insurance \in Int /\ insurance_floor \in Int
  BY EngineFields, Consts
<1>4. f.insurance >= Lesser(e.insurance, insurance_floor)
  BY <1>2, <1>3 DEF Lesser
<1>5. QED
  BY <1>1, <1>2, <1>4, WriteSpares DEF Ok

\* deposit_not_atomic
LEMMA DepositSpares ==
    ASSUME NEW e, Result(e), NEW i \in Accounts, NEW amount \in Nat, NEW now \in Int,
           NEW K \in SUBSET Accounts, i \notin K
    PROVE  Spares(e, DepositOp(e, i, amount, now), K)
<1>1. PICK o : o = IF i \in e.used THEN e ELSE Materialized(e, i, now)
  OBVIOUS
<1>2. PICK paid : paid = Paid([o EXCEPT !.current_slot = now], i, amount)
  OBVIOUS
<1>3. PICK g : g = AssertPostconditions(SweepWhenFlat(SettleLosses(paid, i), i))
  OBVIOUS
<1>4. IF e.market_mode # "Live" THEN DepositOp(e, i, amount, now) = Reject(e)
      ELSE DepositOp(e, i, amount, now) \in {Reject(e), g}
  BY <1>1, <1>2, <1>3 DEF DepositOp
<1>5. e \in EngineType /\ Spares(e, Reject(e), K)
  BY FailSpares DEF Result, Good
<1>6. ASSUME e.market_mode = "Live" PROVE Spares(e, g, K)
  <2>1. Result(o) /\ Member(o, i) /\ Spares(e, o, K)
    <3>1. CASE i \in e.used
      BY <1>1, <1>5, <3>1, SameSpares DEF Member
    <3>2. CASE i \notin e.used
      BY <1>1, <1>5, <1>6, <3>2, MaterializedResult, MaterializedSpares
    <3>3. QED
      BY <3>1, <3>2
  <2>2. Good(o) /\ Good(paid) /\ Member(paid, i) /\ Spares(o, paid, K)
    BY <1>2, <2>1, DepositPaid
  <2>3. Calm(paid, i, K)
    BY DEF Calm
  <2>4. Spares(paid, g, K)
    BY <1>3, <2>2, <2>3, DepositEndSpares
  <2>5. Good(e) /\ Good(g)
    <3>1. Ok(o) => o.market_mode = "Live"
      BY <1>1, <1>6, <2>1, MaterializedResult
    <3>2. QED
      BY <1>2, <1>3, <2>1, <3>1, DepositedResult DEF Result
  <2>6. Spares(e, paid, K)
    BY <2>1, <2>2, <2>5, GoodSpares
  <2>7. QED
    BY <2>2, <2>4, <2>5, <2>6, GoodSpares
<1>7. QED
  BY <1>4, <1>5, <1>6

\* ... which raises the capital of an idle account by what is paid in.
LEMMA DepositOwn ==
    ASSUME NEW e, Result(e), NEW i \in Accounts, i \in e.used, AtRest(e.acc[i]),
           NEW amount \in Nat, NEW now \in Int, Ok(DepositOp(e, i, amount, now))
    PROVE  DepositOp(e, i, amount, now).acc[i].capital >= e.acc[i].capital
<1>1. PICK paid : paid = Paid([e EXCEPT !.current_slot = now], i, amount)
  OBVIOUS
<1>2. PICK g : g = AssertPostconditions(SweepWhenFlat(SettleLosses(paid, i), i))
  OBVIOUS
<1>3. e \in EngineType /\ Member(e, i) /\ ~Ok(Reject(e))
  BY RejectSound DEF Result, Good, Member
<1>4. DepositOp(e, i, amount, now) = g
  <2>1. DepositOp(e, i, amount, now) \in {Reject(e), g}
    BY <1>1, <1>2 DEF DepositOp
  <2>2. QED
    BY <1>3, <2>1
<1>5. /\ Good(paid) /\ Member(paid, i)
      /\ paid.acc = [e.acc EXCEPT ![i].capital = e.acc[i].capital + amount]
  BY <1>1, <1>3, DepositPaid
<1>6. e.acc \in [Accounts -> AccountType] /\ e.acc[i] \in AccountType /\ e.acc[i].capital \in Int
  BY <1>3, EngineFields, AccountFields
<1>7. paid.acc[i] = [e.acc[i] EXCEPT !.capital = e.acc[i].capital + amount]
  BY <1>5, <1>6
<1>8. AtRest(paid.acc[i]) /\ paid.acc[i].capital = e.acc[i].capital + amount
  BY <1>6, <1>7 DEF AtRest, AccountType
<1>9. PICK K : K = {i}
  OBVIOUS
<1>10. Calm(paid, i, K) /\ K \in SUBSET Accounts /\ i \in K
  BY <1>8, <1>9 DEF Calm
<1>11. Spares(paid, g, K)
  BY <1>2, <1>5, <1>10, DepositEndSpares
<1>12. g.acc[i] = paid.acc[i]
  BY <1>4, <1>10, <1>11 DEF Spares
<1>13. QED
  BY <1>4, <1>6, <1>8, <1>12

\* The slot is freed, the surplus of an empty market goes to the fund.
LEMMA FreeSpares ==
    ASSUME NEW e \in EngineType, NEW i \in Accounts, NEW K \in SUBSET Accounts, i \notin K
    PROVE  Spares(e, FreeAndSweep(e, i), K)
<1>1. PICK z, u : z = EmptyAccount /\ u = e.used \ {i}
  OBVIOUS
<1>2. PICK s : s = SlotAs(e, i, u, z)
  OBVIOUS
<1>3. s = [e EXCEPT !.used = @ \ {i}, !.acc[i] = EmptyAccount]
  BY <1>1, <1>2 DEF SlotAs
<1>4. /\ s.acc = [e.acc EXCEPT ![i] = z] /\ s.ctx = e.ctx /\ s.insurance = e.insurance
      /\ s.err = e.err /\ s \in EngineType
  <2>1. z \in AccountType
    BY <1>1, EmptyAccountSound
  <2>2. QED
    BY <1>1, <1>2, <2>1 DEF SlotAs, EngineType
<1>5. e.insurance \in Int /\ insurance_floor \in Int
  BY EngineFields, Consts
<1>6. Spares(e, s, K)
  <2>1. s.insurance >= Lesser(e.insurance, insurance_floor)
    BY <1>4, <1>5 DEF Lesser
  <2>2. QED
    BY <1>4, <2>1, WriteSpares DEF Ok
<1>7. PICK f : f = Freed(e, i)
  OBVIOUS
<1>8. f \in {s, Corrupt(s)}
  BY <1>3, <1>7 DEF Freed, CorruptUnless
<1>9. f \in EngineType /\ Spares(e, f, K)
  BY <1>4, <1>6, <1>8, CorruptSound, CheckSpares DEF Good
<1>10. PICK v \in Int : v = f.vault
  BY <1>9, EngineFields
<1>11. PICK w : w = [f EXCEPT !.insurance = f.vault]
  OBVIOUS
<1>12. /\ w.acc = f.acc /\ w.ctx = f.ctx /\ w.err = f.err /\ w.insurance = f.vault
       /\ w \in EngineType
  BY <1>9, <1>10, <1>11 DEF EngineType
<1>13. PICK cond : cond = (f.vault >= f.insurance)
  OBVIOUS
<1>14. PICK g : g = SweepSurplus(f)
  OBVIOUS
<1>15. g = f \/ g = CorruptUnless(w, cond)
  BY <1>11, <1>13, <1>14 DEF SweepSurplus
<1>16. g \in EngineType /\ Spares(f, g, K)
  <2>1. CASE g = f
    BY <1>9, <2>1, SameSpares
  <2>2. CASE g = CorruptUnless(w, cond) /\ cond
    <3>1. g = w
      BY <2>2 DEF CorruptUnless
    <3>2. f.insurance \in Int
      BY <1>9, EngineFields
    <3>3. f.vault >= f.insurance
      BY <1>13, <2>2
    <3>4. w.insurance >= Lesser(f.insurance, insurance_floor)
      BY <1>5, <1>10, <1>12, <3>2, <3>3 DEF Lesser
    <3>5. QED
      BY <1>9, <1>12, <3>1, <3>4, LeavesSpares DEF Ok
  <2>3. CASE g = CorruptUnless(w, cond) /\ ~cond
    <3>1. g = Corrupt(w) \/ (g = w /\ ~Ok(w))
      BY <2>3 DEF CorruptUnless
    <3>2. g \in EngineType /\ ~Ok(g)
      BY <1>12, <3>1, CorruptSound DEF Good
    <3>3. QED
      BY <3>2 DEF Spares
  <2>4. QED
    BY <1>15, <2>1, <2>2, <2>3
<1>17. Spares(e, g, K)
  BY <1>9, <1>16, SparesTrans
<1>18. FreeAndSweep(e, i) \in {g, Reject(g), Corrupt(g)}
  BY <1>7, <1>14 DEF FreeAndSweep, AssertPostconditions, CorruptUnless
<1>19. QED
  BY <1>16, <1>17, <1>18, CheckSpares

\* Dust goes to the fund.
LEMMA DustSpares ==
    ASSUME NEW e, Good(e), NEW i, Member(e, i), NEW K \in SUBSET Accounts, i \notin K
    PROVE  DustSwept(e, i) \in EngineType /\ Spares(e, DustSwept(e, i), K)
<1>1. e \in EngineType /\ i \in Accounts
  BY DEF Good, Member
<1>2. PICK k : k = SetCapital(e, i, 0)
  OBVIOUS
<1>3. Sound(e, k) /\ Good(k) /\ Member(k, i) /\ Spares(e, k, K)
  <2>1. Sound(e, k)
    BY <1>2, SetCapitalSound
  <2>2. QED
    BY <1>1, <1>2, <2>1, CapitalSpares, MemberKept
<1>4. k \in EngineType /\ k.insurance = e.insurance
  BY <1>1, <1>2, <1>3 DEF SetCapital, EngineType, Good
<1>5. k.insurance \in Int /\ e.acc[i].capital \in Int
  BY <1>1, <1>4, EngineFields, AccountFields
<1>6. PICK w \in Int : w = k.insurance + e.acc[i].capital
  BY <1>5
<1>7. PICK z \in Int : z = 0
  OBVIOUS
<1>8. PICK f : f = FeeMove(k, i, z, w)
  OBVIOUS
<1>9. DustSwept(e, i) = f
  BY <1>1, <1>2, <1>4, <1>6, <1>7, <1>8 DEF DustSwept, FeeMove, EngineType
<1>10. Sound(k, f) /\ Good(f) /\ f \in EngineType
  <2>1. Sound(k, f)
    BY <1>3, <1>4, <1>8, FeeMoved DEF FeeMove
  <2>2. QED
    BY <2>1 DEF Sound, Moved, Good
<1>11. CASE Ok(e)
  <2>1. w >= k.insurance
    BY <1>1, <1>5, <1>6, <1>11 DEF Good, Books
  <2>2. Spares(k, f, K)
    BY <1>1, <1>4, <1>8, <2>1, FeeMoveSpares
  <2>3. QED
    BY <1>3, <1>9, <1>10, <2>2, GoodSpares
<1>12. CASE ~Ok(e)
  <2>1. ~Ok(f)
    BY <1>3, <1>10, <1>12 DEF Sound, Moved, Kept, Alike
  <2>2. QED
    BY <1>9, <1>10, <2>1 DEF Spares
<1>13. QED
  BY <1>11, <1>12

\* reclaim_empty_account_not_atomic: only dust is taken.
LEMMA ReclaimSpares ==
    ASSUME NEW e, Result(e), NEW i \in Accounts, NEW now \in Int
    PROVE  /\ \A K \in SUBSET Accounts : i \notin K => Spares(e, ReclaimOp(e, i, now), K)
           /\ Ok(ReclaimOp(e, i, now)) => e.acc[i].capital < min_initial_deposit
<1>1. PICK c : c = ClockOnly(e, now)
  OBVIOUS
<1>2. e \in EngineType /\ Good(e) /\ Good(c) /\ SideOnly(e, c)
  <2>1. e \in EngineType /\ Good(e) /\ Good(c)
    BY <1>1, ClockOnlySound DEF Result, Sound, Moved, Good
  <2>2. PICK g : g = [e EXCEPT !.current_slot = now]
    OBVIOUS
  <2>3. SideOnly(e, g)
    BY <2>1, <2>2 DEF SideOnly, EngineType, Ok
  <2>4. SideOnly(e, Reject(e))
    BY <2>1, CheckOnly
  <2>5. c \in {g, Reject(e)}
    BY <1>1, <2>2 DEF ClockOnly
  <2>6. QED
    BY <2>1, <2>3, <2>4, <2>5
<1>3. PICK cond : cond = (/\ i \in e.used /\ Untouched(e.acc[i]) /\ e.acc[i].pnl = 0
                          /\ e.acc[i].capital < min_initial_deposit)
  OBVIOUS
<1>4. PICK r : r = RejectUnless(c, cond)
  OBVIOUS
<1>5. Good(r) /\ SideOnly(c, r) /\ (Ok(r) => cond)
  <2>1. /\ Sound(c, r) /\ r \in {c, Reject(c)} /\ (Ok(r) => cond)
    BY <1>2, <1>4, RejectUnlessSound
  <2>2. QED
    BY <1>2, <2>1, CheckOnly DEF Sound, Moved, Good
<1>6. PICK owes : owes = (e.acc[i].fee_credits <= 0)
  OBVIOUS
<1>7. PICK d : d = CorruptUnless(r, owes)
  OBVIOUS
<1>8. Good(d) /\ SideOnly(r, d)
  BY <1>5, <1>7, CorruptUnlessSound, CheckOnly DEF Sound, Moved, Good
<1>9. SideOnly(e, d) /\ Member(d, i)
  <2>1. SideOnly(e, d)
    BY <1>2, <1>5, <1>8, SideOnlyTrans
  <2>2. Sound(e, d)
    BY <1>1, <1>2, <1>4, <1>5, <1>7, ClockOnlySound, RejectUnlessSound, CorruptUnlessSound,
       SoundTrans
  <2>3. cond => i \in e.used
    BY <1>3, Zenon
  <2>4. Ok(d) => cond
    BY <1>5, <1>8 DEF SideOnly
  <2>5. QED
    BY <2>1, <2>2, <2>3, <2>4 DEF Member, Sound, Moved, Kept, Alike
<1>10. PICK f : f = DustSwept(d, i)
  OBVIOUS
<1>11. ReclaimOp(e, i, now) = FreeAndSweep(f, i)
  BY <1>1, <1>3, <1>4, <1>6, <1>7, <1>10 DEF ReclaimOp
<1>12. PICK h : h = FreeAndSweep(f, i)
  OBVIOUS
<1>13. ASSUME NEW K \in SUBSET Accounts, i \notin K PROVE Spares(e, h, K) /\ (Ok(h) => Ok(d))
  <2>1. Spares(e, d, K)
    BY <1>2, <1>9, SideOnlySpares
  <2>2. f \in EngineType /\ Spares(d, f, K)
    BY <1>8, <1>9, <1>10, <1>13, DustSpares
  <2>3. Spares(f, h, K)
    BY <1>12, <1>13, <2>2, FreeSpares
  <2>4. Spares(e, f, K)
    BY <1>2, <1>8, <2>1, <2>2, SparesTrans DEF Good
  <2>5. h \in EngineType
    BY <1>11, <1>12, ReclaimResult DEF Result, Good
  <2>6. QED
    BY <1>2, <2>2, <2>3, <2>4, <2>5, SparesTrans DEF Spares
<1>14. Ok(h) => e.acc[i].capital < min_initial_deposit
  <2>1. Ok(h) => Ok(d)
    <3>1. PICK K : K = {}
      OBVIOUS
    <3>2. K \in SUBSET Accounts /\ i \notin K
      BY <3>1
    <3>3. QED
      BY <1>13, <3>2
  <2>2. Ok(d) => cond
    BY <1>5, <1>8 DEF SideOnly
  <2>3. cond => e.acc[i].capital < min_initial_deposit
    BY <1>3, Zenon
  <2>4. QED
    BY <2>1, <2>2, <2>3
<1>15. QED
  BY <1>11, <1>12, <1>13, <1>14

-----------------------------------------------------------------------------
(* What the program writes into the engine itself *)

\* The bounty of a crank leaves the vault and the insurance fund.
LEMMA PayCallerResult ==
    ASSUME NEW e, Result(e), NEW pay \in Int, NEW f, f = PayCaller(e, pay)
    PROVE  /\ Result(f) /\ (Ok(f) => Ok(e) /\ f.vault = e.vault - pay)
           /\ f.used = e.used /\ f.acc = e.acc
<1>1. e \in EngineType /\ Good(e) /\ e.vault \in Int /\ e.insurance \in Int /\ e.c_tot \in Int
  BY EngineFields DEF Result, Good
<1>2. PICK v \in Int, w \in Int : v = e.vault - pay /\ w = e.insurance - pay
  BY <1>1
<1>3. PICK g : g = Cash(e, v, w)
  OBVIOUS
<1>4. PICK cond : cond = (pay <= e.vault)
  OBVIOUS
<1>5. f = RejectUnless(g, cond)
  <2>1. g = [e EXCEPT !.insurance = @ - pay, !.vault = @ - pay]
    BY <1>1, <1>2, <1>3 DEF Cash, EngineType
  <2>2. QED
    BY <1>4, <2>1 DEF PayCaller
<1>6. Good(g)
  BY <1>1, <1>3, MoneyGood
<1>7. /\ g.vault = v /\ g.insurance = w /\ g.c_tot = e.c_tot /\ g.side = e.side
      /\ g.acc = e.acc /\ g.used = e.used /\ g.market_mode = e.market_mode
      /\ g.resolved = e.resolved /\ g.err = e.err
  BY <1>1, <1>3 DEF Cash, EngineType
<1>8. ASSUME Ok(g) PROVE Market(g)
  <2>1. Market(e)
    BY <1>7, <1>8 DEF Result, Ok
  <2>2. g.vault >= g.c_tot + g.insurance
    BY <1>1, <1>2, <1>7, <2>1 DEF Market
  <2>3. g.used = {} => g.vault = g.insurance
    BY <1>1, <1>2, <1>7, <2>1 DEF Market
  <2>4. Cleared(g) /\ (g.market_mode # "Live" => NoOpenInterest(g))
    BY <1>7, <2>1 DEF Market, Cleared, NoOpenInterest
  <2>5. g.resolved.ready => AllSettled(g)
    BY <1>7, <2>1 DEF Market, AllSettled
  <2>6. g.market_mode = "Live" => ~g.resolved.ready
    BY <1>7, <2>1 DEF Market
  <2>7. Epochs(g) /\ Even(g)
    BY <1>7, <2>1 DEF Market, Epochs, Even
  <2>8. Backed(g)
    BY <1>7, <2>1 DEF Market, Backed, SideBacked
  <2>9. QED
    BY <2>2, <2>3, <2>4, <2>5, <2>6, <2>7, <2>8 DEF Market
<1>9. Sound(g, f) /\ (Ok(f) => f = g) /\ f.acc = g.acc
  BY <1>5, <1>6, RejectUnlessSound
<1>10. Result(f)
  BY <1>8, <1>9 DEF Result, Sound, Moved
<1>11. f.used = e.used
  BY <1>7, <1>9 DEF Sound, Moved, Kept, Alike
<1>12. QED
  BY <1>2, <1>7, <1>9, <1>10, <1>11 DEF Ok

\* The bounty of a liquidation leaves the vault, the account and C_tot.
LEMMA BountyResult ==
    ASSUME NEW e, Result(e), NEW i, Member(e, i), NEW b \in Int,
           Ok(e) => b <= e.acc[i].capital, NEW f, f = BountyTaken(e, i, b)
    PROVE  Result(f) /\ Moved(e, f) /\ f.vault = e.vault - b
<1>1. /\ e \in EngineType /\ Good(e) /\ e.vault \in Int /\ e.insurance \in Int /\ e.c_tot \in Int
      /\ e.pnl_pos_tot \in Int /\ e.pnl_matured_pos_tot \in Int /\ e.neg_pnl_account_count \in Int
      /\ i \in Accounts /\ e.acc[i] \in AccountType /\ e.acc[i].capital \in Int
  BY EngineFields, AccountFields DEF Result, Good, Member
<1>2. PICK v \in Int, w \in Int, c \in Int, n \in Int :
         v = e.vault - b /\ w = e.insurance /\ c = e.c_tot - b /\ n = e.acc[i].capital - b
  BY <1>1
<1>3. PICK a : a = [e.acc[i] EXCEPT !.capital = n]
  OBVIOUS
<1>4. /\ a \in AccountType /\ a.capital = n /\ a.pnl = e.acc[i].pnl
      /\ a.reserved_pnl = e.acc[i].reserved_pnl
      /\ a.position_basis_q = e.acc[i].position_basis_q
      /\ a.adl_epoch_snap = e.acc[i].adl_epoch_snap
      /\ a.adl_a_basis = e.acc[i].adl_a_basis
  BY <1>1, <1>2, <1>3 DEF AccountType
<1>5. PICK g : g = Cash(e, v, w)
  OBVIOUS
<1>6. Moved(e, g) /\ g.vault = v
  <2>1. Ok(e) => e.used # {}
    BY DEF Member
  <2>2. QED
    BY <1>1, <1>5, <2>1, MoneyMoved
<1>7. Good(g) /\ Member(g, i)
  BY <1>6, MemberMoved
<1>8. /\ g.acc = e.acc /\ g.c_tot = e.c_tot /\ g.pnl_pos_tot = e.pnl_pos_tot
      /\ g.pnl_matured_pos_tot = e.pnl_matured_pos_tot /\ g.side = e.side
      /\ g.neg_pnl_account_count = e.neg_pnl_account_count /\ g.market_mode = e.market_mode
      /\ g.insurance = w /\ g.err = e.err /\ g \in EngineType
  BY <1>1, <1>2, <1>5 DEF Cash, EngineType
<1>9. PICK p \in Int, m \in Int, k \in Int :
         p = e.pnl_pos_tot /\ m = e.pnl_matured_pos_tot /\ k = e.neg_pnl_account_count
  BY <1>1
<1>10. PICK h : h = Put(g, i, a, c, p, m, k)
  OBVIOUS
<1>11. Sound(g, h)
  <2>1. ASSUME Ok(g) PROVE Follows(g, i, a, c, p, m, k)
    <3>1. Ok(e) /\ Books(e)
      BY <1>1, <1>8, <2>1 DEF Good, Ok
    <3>2. e.market_mode # "Live" => m = p
      BY <1>9, <3>1 DEF Books, Sums
    <3>3. a.capital >= 0 /\ a.reserved_pnl <= Pos(a.pnl)
      BY <1>1, <1>2, <1>4, <3>1 DEF Books
    <3>4. PICK x \in Int, r \in Int : x = Pos(a.pnl) /\ r = a.reserved_pnl
      BY <1>4, AccountFields, PosInt
    <3>5. c = g.c_tot + (a.capital - g.acc[i].capital) /\ p = g.pnl_pos_tot + (x - x)
          /\ m = g.pnl_matured_pos_tot + ((x - r) - (x - r))
          /\ k = g.neg_pnl_account_count + (Bit(a.pnl < 0) - Bit(a.pnl < 0))
      BY <1>1, <1>2, <1>4, <1>8, <1>9, <3>4 DEF Bit
    <3>6. QED
      BY <1>4, <1>8, <3>2, <3>3, <3>4, <3>5 DEF Follows
  <2>2. QED
    BY <1>4, <1>7, <1>10, <2>1, PutSound
<1>12. /\ h.acc = [e.acc EXCEPT ![i] = a] /\ h.c_tot = c /\ h.vault = v /\ h.insurance = w
       /\ h.side = e.side
  <2>1. /\ h.acc = [g.acc EXCEPT ![i] = a] /\ h.c_tot = c /\ h.vault = g.vault
        /\ h.insurance = g.insurance /\ h.side = g.side
    <3>1. g \in EngineType /\ i \in Accounts /\ a \in AccountType
      BY <1>1, <1>4, <1>8
    <3>2. QED
      BY <3>1, <1>10 DEF Put, EngineType
  <2>2. QED
    BY <1>6, <1>8, <2>1
<1>13. PICK cond : cond = (b <= e.c_tot /\ b <= e.vault)
  OBVIOUS
<1>14. f = RejectUnless(h, cond)
  <2>1. h = [e EXCEPT !.acc[i].capital = @ - b, !.c_tot = @ - b, !.vault = @ - b]
    <3>1. h = [Cash(e, v, w) EXCEPT !.acc[i] = a, !.c_tot = c]
      BY <1>1, <1>5, <1>8, <1>9, <1>10 DEF Put, EngineType
    <3>2. QED
      BY <1>1, <1>2, <1>3, <3>1 DEF Cash, EngineType, AccountType
  <2>2. QED
    BY <1>13, <2>1 DEF BountyTaken
<1>15. Moved(e, h) /\ Good(h)
  BY <1>6, <1>11, MovedTrans DEF Sound, Moved
<1>16. /\ Sound(h, f) /\ (Ok(f) => f = h) /\ f.side = h.side /\ f.vault = h.vault
       /\ f.acc = h.acc
  BY <1>14, <1>15, RejectUnlessSound
<1>17. Moved(e, f)
  BY <1>15, <1>16, SoundMoved, MovedTrans
<1>18. SamePositions(e.acc, f.acc) /\ SamePnl(e, f)
  <2>1. e.acc \in [Accounts -> AccountType]
    BY <1>1, EngineFields
  <2>2. \A j \in Accounts : h.acc[j] = IF j = i THEN a ELSE e.acc[j]
    BY <1>12, <2>1
  <2>3. QED
    BY <1>4, <1>16, <2>2 DEF SamePositions, SamePnl
<1>19. Ok(f) => f.vault >= f.c_tot + f.insurance
  <2>1. ASSUME Ok(f) PROVE f = h /\ Market(e)
    BY <1>16, <1>17, <2>1 DEF Moved, Kept, Alike, Result
  <2>2. QED
    BY <1>1, <1>2, <1>12, <2>1 DEF Market
<1>20. Result(f)
  BY <1>12, <1>16, <1>17, <1>18, <1>19, SteadyResult
<1>21. QED
  BY <1>2, <1>12, <1>16, <1>17, <1>20

\* What the program pays a crank's caller stops at the fund's floor.
LEMMA PayCallerSpares ==
    ASSUME NEW e \in EngineType, NEW K
    PROVE  Spares(e, PayCaller(e, CrankPay(e)), K)
<1>1. e.insurance \in Int /\ e.vault \in Int /\ insurance_floor \in Int
  BY EngineFields, Consts
<1>2. PICK n \in Int : n = e.insurance - insurance_floor
  BY <1>1
<1>3. PICK pay : pay = CrankPay(e)
  OBVIOUS
<1>4. pay \in Int /\ e.insurance - pay >= Lesser(e.insurance, insurance_floor)
  <2>1. pay = Lesser(Pos(n), CRANK_BOUNTY)
    BY <1>2, <1>3 DEF CrankPay
  <2>2. PICK x \in Int : x = Pos(n) /\ x >= 0 /\ (x = 0 \/ x = n)
    BY <1>2 DEF Pos, Greater
  <2>3. pay \in Int /\ pay <= x
    BY <2>1, <2>2, Bounds DEF Lesser
  <2>4. CASE x = 0
    BY <1>1, <2>3, <2>4 DEF Lesser
  <2>5. CASE x = n
    BY <1>1, <1>2, <2>3, <2>5 DEF Lesser
  <2>6. QED
    BY <2>2, <2>3, <2>4, <2>5
<1>5. PICK v \in Int, w \in Int : v = e.vault - pay /\ w = e.insurance - pay
  BY <1>1, <1>4
<1>6. PICK g : g = Cash(e, v, w)
  OBVIOUS
<1>7. /\ g = [e EXCEPT !.insurance = @ - pay, !.vault = @ - pay]
      /\ g \in EngineType /\ g.insurance = w /\ g.acc = e.acc /\ g.ctx = e.ctx /\ g.err = e.err
  BY <1>5, <1>6 DEF Cash, EngineType
<1>8. Spares(e, g, K)
  BY <1>4, <1>5, <1>7, LeavesSpares DEF Ok
<1>9. PayCaller(e, pay) \in {g, Reject(g), Corrupt(g)}
  BY <1>7 DEF PayCaller, RejectUnless
<1>10. QED
  BY <1>3, <1>7, <1>8, <1>9, CheckSpares

\* A liquidation's bounty comes out of the victim's capital.
LEMMA BountySpares ==
    ASSUME NEW e \in EngineType, NEW i \in Accounts, NEW b \in Int,
           NEW K \in SUBSET Accounts, i \notin K
    PROVE  BountyTaken(e, i, b) \in EngineType /\ Spares(e, BountyTaken(e, i, b), K)
<1>1. e.acc \in [Accounts -> AccountType] /\ e.acc[i] \in AccountType /\ e.c_tot \in Int
      /\ e.vault \in Int /\ e.acc[i].capital \in Int
      /\ e.insurance \in Int /\ insurance_floor \in Int
  BY EngineFields, AccountFields, Consts
<1>2. PICK n \in Int, c \in Int, v \in Int :
         n = e.acc[i].capital - b /\ c = e.c_tot - b /\ v = e.vault - b
  BY <1>1
<1>3. PICK a : a = [e.acc[i] EXCEPT !.capital = n]
  OBVIOUS
<1>4. a \in AccountType
  BY <1>1, <1>2, <1>3 DEF AccountType
<1>5. PICK g : g = [e EXCEPT !.acc[i].capital = @ - b, !.c_tot = @ - b, !.vault = @ - b]
  OBVIOUS
<1>6. g = [e EXCEPT !.acc[i] = a, !.c_tot = c, !.vault = v]
  BY <1>1, <1>2, <1>3, <1>5 DEF EngineType, AccountType
<1>7. /\ g \in EngineType /\ g.acc = [e.acc EXCEPT ![i] = a] /\ g.ctx = e.ctx
      /\ g.insurance = e.insurance /\ g.err = e.err
  BY <1>1, <1>2, <1>4, <1>6 DEF EngineType
<1>8. Spares(e, g, K)
  <2>1. g.insurance >= Lesser(e.insurance, insurance_floor)
    BY <1>1, <1>7 DEF Lesser
  <2>2. QED
    BY <1>7, <2>1, WriteSpares DEF Ok
<1>9. BountyTaken(e, i, b) \in {g, Reject(g), Corrupt(g)}
  BY <1>5 DEF BountyTaken, RejectUnless
<1>10. QED
  BY <1>7, <1>8, <1>9, CheckSpares, RejectSound, CorruptSound DEF Good

-----------------------------------------------------------------------------
(* The free list *)

\* The head of the free list is a free slot, and the rest lists the others.
LEMMA Popped ==
    ASSUME NEW s, NEW used, IsFreeList(s, used), s # <<>>
    PROVE  /\ Head(s) \in Accounts /\ Head(s) \notin used
           /\ IsFreeList(Tail(s), used \union {Head(s)})
<1>1. s \in Seq(Accounts) /\ Len(s) \in Nat /\ Len(s) >= 1 /\ Head(s) = s[1]
  BY DEF IsFreeList
<1>2. Head(s) \in Accounts /\ Head(s) \notin used
  BY <1>1 DEF IsFreeList
<1>3. PICK t : t = Tail(s)
  OBVIOUS
<1>4. t \in Seq(Accounts) /\ Len(t) = Len(s) - 1 /\ \A k \in 1..Len(t) : t[k] = s[k + 1]
  BY <1>1, <1>3
<1>5. \A k, l \in 1..Len(t) : t[k] = t[l] => k = l
  <2>1. SUFFICES ASSUME NEW k \in 1..Len(t), NEW l \in 1..Len(t), t[k] = t[l] PROVE k = l
    OBVIOUS
  <2>2. k + 1 \in 1..Len(s) /\ l + 1 \in 1..Len(s) /\ s[k + 1] = s[l + 1]
    BY <1>1, <1>4, <2>1
  <2>3. k + 1 = l + 1
    BY <2>2 DEF IsFreeList
  <2>4. QED
    BY <2>3
<1>6. ASSUME NEW i \in Accounts
      PROVE  i \notin used \union {Head(s)} <=> \E k \in 1..Len(t) : t[k] = i
  <2>1. ASSUME i \notin used \union {Head(s)} PROVE \E k \in 1..Len(t) : t[k] = i
    <3>1. PICK k \in 1..Len(s) : s[k] = i
      BY <2>1 DEF IsFreeList
    <3>2. k # 1
      BY <1>1, <2>1, <3>1
    <3>3. k - 1 \in 1..Len(t) /\ t[k - 1] = s[k]
      <4>1. k - 1 \in 1..Len(t) /\ (k - 1) + 1 = k
        BY <1>1, <1>4, <3>2
      <4>2. QED
        BY <1>4, <4>1
    <3>4. QED
      BY <3>1, <3>3
  <2>2. ASSUME NEW k \in 1..Len(t), t[k] = i PROVE i \notin used \union {Head(s)}
    <3>1. k + 1 \in 1..Len(s) /\ s[k + 1] = i /\ k + 1 # 1
      BY <1>1, <1>4, <2>2
    <3>2. i \notin used
      BY <3>1 DEF IsFreeList
    <3>3. i # s[1]
      <4>1. 1 \in 1..Len(s)
        BY <1>1
      <4>2. QED
        BY <3>1, <4>1 DEF IsFreeList
    <3>4. QED
      BY <1>1, <3>2, <3>3
  <2>3. QED
    BY <2>1, <2>2
<1>7. QED
  BY <1>2, <1>3, <1>4, <1>5, <1>6 DEF IsFreeList

\* A freed slot at its head.
LEMMA Pushed ==
    ASSUME NEW s, NEW used, IsFreeList(s, used), NEW i \in Accounts, i \in used
    PROVE  IsFreeList(<<i>> \o s, used \ {i})
<1>1. s \in Seq(Accounts) /\ Len(s) \in Nat
  BY DEF IsFreeList
<1>2. PICK t : t = <<i>> \o s
  OBVIOUS
<1>3. t \in Seq(Accounts) /\ Len(t) = Len(s) + 1 /\ t[1] = i
  BY <1>1, <1>2
<1>4. \A k \in 1..Len(s) : t[k + 1] = s[k]
  BY <1>1, <1>2
<1>5. \A k \in 1..Len(t) : k = 1 \/ (k - 1 \in 1..Len(s) /\ t[k] = s[k - 1])
  <2>1. SUFFICES ASSUME NEW k \in 1..Len(t), k # 1 PROVE k - 1 \in 1..Len(s) /\ t[k] = s[k - 1]
    OBVIOUS
  <2>2. k - 1 \in 1..Len(s) /\ (k - 1) + 1 = k
    BY <1>1, <1>3, <2>1
  <2>3. QED
    BY <1>4, <2>2
<1>6. \A k \in 1..Len(s) : s[k] # i
  BY DEF IsFreeList
<1>7. \A k, l \in 1..Len(t) : t[k] = t[l] => k = l
  <2>1. SUFFICES ASSUME NEW k \in 1..Len(t), NEW l \in 1..Len(t), t[k] = t[l] PROVE k = l
    OBVIOUS
  <2>2. CASE k = 1 \/ l = 1
    BY <1>3, <1>5, <1>6, <2>1, <2>2
  <2>3. CASE k # 1 /\ l # 1
    <3>1. k - 1 \in 1..Len(s) /\ l - 1 \in 1..Len(s) /\ s[k - 1] = s[l - 1]
      BY <1>5, <2>1, <2>3
    <3>2. k - 1 = l - 1
      BY <3>1 DEF IsFreeList
    <3>3. QED
      BY <3>2
  <2>4. QED
    BY <2>2, <2>3
<1>8. ASSUME NEW j \in Accounts
      PROVE  j \notin used \ {i} <=> \E k \in 1..Len(t) : t[k] = j
  <2>1. CASE j = i
    <3>1. 1 \in 1..Len(t)
      BY <1>1, <1>3
    <3>2. QED
      BY <1>3, <2>1, <3>1
  <2>2. CASE j # i
    <3>1. ASSUME j \notin used PROVE \E k \in 1..Len(t) : t[k] = j
      <4>1. PICK k \in 1..Len(s) : s[k] = j
        BY <3>1 DEF IsFreeList
      <4>2. k + 1 \in 1..Len(t) /\ t[k + 1] = j
        BY <1>1, <1>3, <1>4, <4>1
      <4>3. QED
        BY <4>2
    <3>2. ASSUME NEW k \in 1..Len(t), t[k] = j PROVE j \notin used
      <4>1. k - 1 \in 1..Len(s) /\ s[k - 1] = j
        BY <1>3, <1>5, <2>2, <3>2
      <4>2. QED
        BY <4>1 DEF IsFreeList
    <3>3. QED
      BY <2>2, <3>1, <3>2
  <2>3. QED
    BY <2>1, <2>2
<1>9. QED
  BY <1>2, <1>3, <1>7, <1>8 DEF IsFreeList

\* Its length is the number of slots that are not in use.
LEMMA FreeListLength ==
    ASSUME NEW s, NEW used, IsFreeList(s, used)
    PROVE  ToSet(s) = Accounts \ used /\ Len(s) = Cardinality(Accounts \ used)
<1>1. s \in Seq(Accounts) /\ Len(s) \in Nat /\ \A k \in 1..Len(s) : s[k] \in Accounts
  BY DEF IsFreeList
<1>2. DOMAIN s = 1..Len(s)
  BY <1>1
<1>3. ToSet(s) = Accounts \ used
  BY <1>1, <1>2 DEF ToSet, IsFreeList
<1>4. PICK A : A = Accounts \ used
  OBVIOUS
<1>5. PICK g : g = [k \in 1..Len(s) |-> s[k]]
  OBVIOUS
<1>6. g \in [1..Len(s) -> A]
  BY <1>1, <1>4, <1>5 DEF IsFreeList
<1>7. \A k, l \in 1..Len(s) : g[k] = g[l] => k = l
  BY <1>5 DEF IsFreeList
<1>8. \A i \in A : \E k \in 1..Len(s) : g[k] = i
  BY <1>4, <1>5 DEF IsFreeList
<1>9. g \in Bijection(1..Len(s), A)
  BY <1>6, <1>7, <1>8 DEF Bijection, Injection, Surjection, IsInjective
<1>10. ExistsBijection(1..Len(s), A)
  BY <1>9 DEF ExistsBijection
<1>11. Cardinality(A) = Len(s)
  BY <1>1, <1>10, FS_CountingElements
<1>12. QED
  BY <1>3, <1>4, <1>11

-----------------------------------------------------------------------------
(* One instruction *)

\* The engine's result is stored and the tokens follow it.
LEMMA CommitKeeps ==
    ASSUME Solvent, NEW e, Result(e), NEW paid \in Int, Ok(e) => e.vault = eng.vault + paid,
           Commit(e, paid)
    PROVE  /\ Result(eng') /\ Ok(eng') /\ tokens' = eng'.vault
           /\ clock' \in Nat /\ feed'.price \in Int
           /\ Ok(e) /\ eng'.used = e.used /\ (Flat(e) => Flat(eng'))
<1>1. PICK f : f = [e EXCEPT !.ctx = NoContext]
  OBVIOUS
<1>2. Result(f) /\ f.err = e.err
  BY <1>1, DropContextResult
<1>3. f.vault = e.vault /\ f.used = e.used /\ f.acc = e.acc
  BY <1>1 DEF Result, Good, EngineType
<1>4. eng' = f /\ Ok(e) /\ tokens' = tokens + paid /\ clock' = clock /\ feed' = feed
  BY <1>1 DEF Commit
<1>5. QED
  BY <1>2, <1>3, <1>4 DEF Solvent, Ok, Flat

\* Nobody's slot changes hands.
LEMMA SlotsKeep ==
    ASSUME Owners, SlotsKept, eng'.used = eng.used,
           owner[PROTOCOL_LP_SLOT] # LP /\ Flat(eng) => Flat(eng')
    PROVE  Owners'
<1>1. owner' = owner /\ free' = free
  BY DEF SlotsKept
<1>2. QED
  BY <1>1 DEF Owners

\* The head of the free list is claimed by a key that owns no slot.
LEMMA ClaimKeeps ==
    ASSUME Owners, free # <<>>, NEW k \in Users \union {LP}, Claim(Head(free), k),
           k = LP => Head(free) = PROTOCOL_LP_SLOT,
           \A j \in eng.used : owner[j] # k,
           eng'.used = eng.used \union {Head(free)}, Flat(eng) => Flat(eng')
    PROVE  Owners'
<1>1. PICK i : i = Head(free)
  OBVIOUS
<1>2. i \in Accounts /\ i \notin eng.used /\ IsFreeList(Tail(free), eng.used \union {i})
  BY <1>1, Popped DEF Owners
<1>3. owner' = [owner EXCEPT ![i] = k] /\ free' = Tail(free)
  BY <1>1 DEF Claim
<1>4. owner \in [Accounts -> Users \union {LP, NoOne}] /\ k # NoOne
  BY Bounds DEF Owners
<1>5. \A j \in Accounts : owner'[j] = IF j = i THEN k ELSE owner[j]
  BY <1>2, <1>3, <1>4
<1>6. owner' \in [Accounts -> Users \union {LP, NoOne}]
  BY <1>3, <1>4
<1>7. eng'.used = eng.used \union {i} /\ eng'.used \subseteq Accounts
  BY <1>1, <1>2 DEF Owners
<1>8. \A a, b \in eng'.used : owner'[a] = owner'[b] => a = b
  BY <1>2, <1>5, <1>7 DEF Owners
<1>9. \A j \in Accounts : owner'[j] # NoOne <=> j \in eng'.used
  BY <1>2, <1>4, <1>5, <1>7 DEF Owners
<1>10. \A j \in Accounts : owner'[j] = LP => j = PROTOCOL_LP_SLOT
  BY <1>1, <1>5 DEF Owners
<1>11. owner'[PROTOCOL_LP_SLOT] # LP => Flat(eng')
  <2>1. owner[i] = NoOne
    BY <1>2 DEF Owners
  <2>2. owner'[PROTOCOL_LP_SLOT] # LP => owner[PROTOCOL_LP_SLOT] # LP
    BY <1>5, <2>1, Bounds
  <2>3. QED
    BY <2>2 DEF Owners
<1>12. IsFreeList(free', eng'.used)
  BY <1>2, <1>3, <1>7
<1>13. QED
  BY <1>6, <1>7, <1>8, <1>9, <1>10, <1>11, <1>12 DEF Owners

\* A call that may have moved money for users, but claimed no slot and opened nothing.
LEMMA PlainKeeps ==
    ASSUME Solvent, Owners, NEW e, Result(e), Moved(eng, e), NEW paid \in Int,
           Ok(e) => e.vault = eng.vault + paid, Commit(e, paid), SlotsKept
    PROVE  Solvent' /\ Owners'
<1>1. /\ Result(eng') /\ Ok(eng') /\ tokens' = eng'.vault
      /\ clock' \in Nat /\ feed'.price \in Int
      /\ Ok(e) /\ eng'.used = e.used /\ (Flat(e) => Flat(eng'))
  BY CommitKeeps
<1>2. gc_cursor' = gc_cursor
  BY DEF SlotsKept
<1>3. Solvent'
  BY <1>1, <1>2 DEF Solvent
<1>4. eng'.used = eng.used /\ (Flat(eng) => Flat(eng'))
  BY <1>1 DEF Moved, Kept, Alike
<1>5. QED
  BY <1>3, <1>4, SlotsKeep

\* process_deposit and process_bootstrap_lp
LEMMA DepositKeeps ==
    ASSUME Solvent, Owners, NEW i \in Accounts, NEW amount \in Nat,
           Commit(DepositOp(eng, i, amount, clock), amount)
    PROVE  /\ gc_cursor' = gc_cursor => Solvent'
           /\ eng'.used = eng.used \union {i} /\ (Flat(eng) => Flat(eng'))
<1>1. PICK e : e = DepositOp(eng, i, amount, clock)
  OBVIOUS
<1>2. clock \in Int /\ amount \in Int /\ Result(eng)
  BY DEF Solvent
<1>3. Result(e) /\ (Ok(e) => /\ e.vault = eng.vault + amount /\ e.used = eng.used \union {i}
                             /\ Flat(eng) => Flat(e))
  BY <1>1, <1>2, DepositResult
<1>4. /\ Result(eng') /\ Ok(eng') /\ tokens' = eng'.vault
      /\ clock' \in Nat /\ feed'.price \in Int
      /\ Ok(e) /\ eng'.used = e.used /\ (Flat(e) => Flat(eng'))
  BY <1>1, <1>2, <1>3, CommitKeeps
<1>5. QED
  BY <1>3, <1>4 DEF Solvent

\* Every instruction of a user.
LEMMA UserStepKeeps ==
    ASSUME Solvent, Owners, UserStep
    PROVE  Solvent' /\ Owners'
<1>1. ASSUME NEW u \in Users, NEW amount \in Amounts, Deposit(u, amount)
      PROVE  Solvent' /\ Owners'
  <2>1. amount \in Nat
    BY Bounds
  <2>2. CASE DepositKnown(u, amount)
    <3>1. PICK i \in Accounts : i = First(OwnSlots(u)) /\ i \in eng.used
      BY <2>2, OwnSlot DEF DepositKnown
    <3>2. Commit(DepositOp(eng, i, amount, clock), amount) /\ SlotsKept
      BY <2>2, <3>1 DEF DepositKnown
    <3>3. gc_cursor' = gc_cursor
      BY <3>2 DEF SlotsKept
    <3>4. Solvent' /\ eng'.used = eng.used \union {i} /\ (Flat(eng) => Flat(eng'))
      BY <2>1, <3>2, <3>3, DepositKeeps
    <3>5. eng'.used = eng.used
      BY <3>1, <3>4
    <3>6. QED
      BY <3>2, <3>4, <3>5, SlotsKeep
  <2>3. CASE DepositFresh(u, amount)
    <3>1. PICK i \in Accounts : i = Head(free)
      BY <2>3, Popped DEF DepositFresh, Owners
    <3>2. Commit(DepositOp(eng, i, amount, clock), amount) /\ Claim(i, u)
      BY <2>3, <3>1 DEF DepositFresh
    <3>3. gc_cursor' = gc_cursor
      BY <3>2 DEF Claim
    <3>4. Solvent' /\ eng'.used = eng.used \union {i} /\ (Flat(eng) => Flat(eng'))
      BY <2>1, <3>2, <3>3, DepositKeeps
    <3>5. free # <<>> /\ \A j \in eng.used : owner[j] # u
      BY <2>3 DEF DepositFresh, OwnSlots
    <3>6. u # LP
      BY Bounds
    <3>7. QED
      BY <3>1, <3>2, <3>4, <3>5, <3>6, ClaimKeeps
  <2>4. QED
    BY <1>1, <2>2, <2>3 DEF Deposit
<1>2. ASSUME NEW u \in Users, NEW amount \in Amounts, Withdraw(u, amount)
      PROVE  Solvent' /\ Owners'
  <2>1. PICK i \in Accounts : i = First(OwnSlots(u)) /\ i \in eng.used
    BY <1>2, OwnSlot DEF Withdraw
  <2>2. PICK z \in Int, p \in Int, n \in Int, now \in Int, pair \in Int \X Int :
           /\ z = 0 /\ p = eng.last_oracle_price /\ n = amount /\ now = clock /\ pair = Pair
    <3>1. eng.last_oracle_price \in Int /\ clock \in Int /\ amount \in Int
      BY Bounds, EngineFields DEF Solvent, Result, Good
    <3>2. QED
      BY <3>1, PairType
  <2>3. PICK e : e = WithdrawOp(eng, i, n, now, p, z, pair)
    OBVIOUS
  <2>4. Result(e) /\ Moved(eng, e) /\ e.vault = eng.vault - n
    BY <2>3, WithdrawResult DEF Solvent
  <2>5. Commit(e, -n) /\ SlotsKept
    BY <1>2, <2>1, <2>2, <2>3 DEF Withdraw, WithdrawCall
  <2>6. eng.vault \in Int
    BY EngineFields DEF Solvent, Result, Good
  <2>7. PICK paid \in Int : paid = -n
    BY <2>2
  <2>8. Ok(e) => e.vault = eng.vault + paid
    BY <2>4, <2>6, <2>7
  <2>9. QED
    BY <2>4, <2>5, <2>7, <2>8, PlainKeeps
<1>3. ASSUME NEW amount \in Amounts, BootstrapLp(amount)
      PROVE  Solvent' /\ Owners'
  <2>1. amount \in Nat
    BY Bounds
  <2>2. PICK i \in Accounts : i = PROTOCOL_LP_SLOT
    BY Bounds
  <2>3. /\ i \notin eng.used /\ free # <<>> /\ Head(free) = i
        /\ Commit(DepositOp(eng, i, amount, clock), amount) /\ Claim(i, LP)
    BY <1>3, <2>2 DEF BootstrapLp
  <2>4. gc_cursor' = gc_cursor
    BY <2>3 DEF Claim
  <2>5. Solvent' /\ eng'.used = eng.used \union {i} /\ (Flat(eng) => Flat(eng'))
    BY <2>1, <2>3, <2>4, DepositKeeps
  <2>6. \A j \in eng.used : owner[j] # LP
    BY <2>2, <2>3 DEF Owners
  <2>7. QED
    BY <2>2, <2>3, <2>5, <2>6, ClaimKeeps
<1>4. ASSUME NEW u \in Users, NEW s \in Side, NEW size \in Sizes, PlaceOrder(u, s, size)
      PROVE  Solvent' /\ Owners'
  <2>1. PICK i \in Accounts : i = First(OwnSlots(u)) /\ i \in eng.used
    BY <1>4, OwnSlot DEF PlaceOrder
  <2>2. PICK z \in Int, p \in Int, n \in Int, now \in Int, pair \in Int \X Int :
           /\ z = 0 /\ p = feed.price /\ n = size /\ now = clock /\ pair = Pair
    <3>1. feed.price \in Int /\ clock \in Int /\ size \in Int
      BY Bounds DEF Solvent
    <3>2. QED
      BY <3>1, PairType
  <2>3. PICK a \in Accounts, b \in Accounts : a = Buyer(i, s) /\ b = Seller(i, s)
    BY Bounds DEF Buyer, Seller
  <2>4. PICK e : e = TradeOp(eng, a, b, now, p, n, p, z, pair)
    OBVIOUS
  <2>5. Result(e) /\ Traded(eng, e)
    BY <2>4, TradeResult DEF Solvent
  <2>6. Commit(e, 0) /\ SlotsKept /\ LpReady
    BY <1>4, <2>1, <2>2, <2>3, <2>4 DEF PlaceOrder
  <2>7. eng.vault \in Int
    BY EngineFields DEF Solvent, Result, Good
  <2>8. Ok(e) => e.vault = eng.vault + z
    BY <2>2, <2>5, <2>7 DEF Traded
  <2>9. /\ Result(eng') /\ Ok(eng') /\ tokens' = eng'.vault
        /\ clock' \in Nat /\ feed'.price \in Int /\ Ok(e) /\ eng'.used = e.used
    BY <2>2, <2>5, <2>6, <2>8, CommitKeeps
  <2>10. Solvent'
    BY <2>6, <2>9 DEF Solvent, SlotsKept
  <2>11. eng'.used = eng.used /\ owner[PROTOCOL_LP_SLOT] = LP
    BY <2>5, <2>6, <2>9 DEF Traded, Kept, Alike, LpReady
  <2>12. QED
    BY <2>6, <2>10, <2>11, SlotsKeep
<1>5. QED
  BY <1>1, <1>2, <1>3, <1>4 DEF UserStep

-----------------------------------------------------------------------------
(* The calls anyone may send *)

\* process_liquidate
LEMMA LiquidateKeeps ==
    ASSUME Solvent, Owners, NEW i \in Accounts, Liquidate(i)
    PROVE  Solvent' /\ Owners'
<1>1. PICK z \in Int, p \in Int, now \in Int, pair \in Int \X Int :
         z = 0 /\ p = feed.price /\ now = clock /\ pair = Pair
  <2>1. feed.price \in Int /\ clock \in Int
    BY DEF Solvent
  <2>2. QED
    BY <2>1, PairType
<1>2. PICK policy : policy = FullClose
  OBVIOUS
<1>3. policy.q \in Nat
  BY <1>2 DEF FullClose
<1>4. PICK e : e = LiquidateOp(eng, i, now, p, policy, z, pair)
  OBVIOUS
<1>5. Result(e) /\ Sound(eng, e)
  BY <1>3, <1>4, LiquidateResult DEF Solvent
<1>6. i \in eng.used /\ LiquidatePaid(e, i) /\ SlotsKept
  BY <1>1, <1>2, <1>4 DEF Liquidate, LiquidateGuard, LiquidateCall
<1>7. Member(e, i)
  BY <1>5, <1>6 DEF Member, Sound, Moved, Kept, Alike
<1>8. PICK b : b = LiqBounty(e, i, eng.acc[i].capital)
  OBVIOUS
<1>9. b \in Int /\ b <= e.acc[i].capital
  <2>1. eng.acc[i].capital \in Int /\ e.acc[i].capital \in Int
    BY <1>5, EngineFields, AccountFields DEF Solvent, Result, Good
  <2>2. eng.acc[i].capital * LIQ_BOUNTY_BPS \in Int
    BY <2>1, Bounds, ProductInt
  <2>3. FloorDiv(eng.acc[i].capital * LIQ_BOUNTY_BPS, BPS) \in Int
    BY <2>2, Consts, FloorInt
  <2>4. QED
    BY <1>8, <2>1, <2>3 DEF LiqBounty, Lesser
<1>10. PICK f : f = BountyTaken(e, i, b)
  OBVIOUS
<1>11. Result(f) /\ Moved(e, f) /\ f.vault = e.vault - b
  BY <1>5, <1>7, <1>9, <1>10, BountyResult
<1>12. Moved(eng, f)
  BY <1>5, <1>11, SoundMoved, MovedTrans
<1>13. Commit(f, -b)
  BY <1>6, <1>8, <1>10 DEF LiquidatePaid, BountyPaid
<1>14. PICK paid \in Int : paid = -b
  BY <1>9
<1>15. eng.vault \in Int
  BY EngineFields DEF Solvent, Result, Good
<1>16. f.vault = eng.vault + paid
  BY <1>5, <1>9, <1>11, <1>14, <1>15 DEF Sound
<1>17. QED
  BY <1>6, <1>11, <1>12, <1>13, <1>14, <1>16, PlainKeeps

\* The crank pays its caller; what it did to the engine has kept the vault.
LEMMA WorkedKeeps ==
    ASSUME Solvent, NEW e, Result(e), Ok(e) => e.vault = eng.vault, Worked(e)
    PROVE  /\ Result(eng') /\ Ok(eng') /\ tokens' = eng'.vault
           /\ clock' \in Nat /\ feed'.price \in Int
           /\ Ok(e) /\ eng'.used = e.used /\ (Flat(e) => Flat(eng'))
<1>1. PICK pay : pay = CrankPay(e)
  OBVIOUS
<1>2. pay \in Int
  <2>1. PICK n \in Int : n = e.insurance - insurance_floor
    BY Consts, EngineFields DEF Result, Good
  <2>2. Pos(n) \in Int
    BY PosInt
  <2>3. QED
    BY <1>1, <2>1, <2>2, Bounds DEF CrankPay, Lesser
<1>3. PICK f : f = PayCaller(e, pay)
  OBVIOUS
<1>4. /\ Result(f) /\ (Ok(f) => Ok(e) /\ f.vault = e.vault - pay)
      /\ f.used = e.used /\ f.acc = e.acc
  BY <1>2, <1>3, PayCallerResult
<1>5. Commit(f, -pay)
  BY <1>1, <1>3 DEF Worked
<1>6. PICK paid \in Int : paid = -pay
  BY <1>2
<1>7. eng.vault \in Int
  BY EngineFields DEF Solvent, Result, Good
<1>8. Ok(f) => f.vault = eng.vault + paid
  BY <1>2, <1>4, <1>6, <1>7
<1>9. /\ Result(eng') /\ Ok(eng') /\ tokens' = eng'.vault
      /\ clock' \in Nat /\ feed'.price \in Int
      /\ Ok(f) /\ eng'.used = f.used /\ (Flat(f) => Flat(eng'))
  BY <1>4, <1>5, <1>6, <1>8, CommitKeeps
<1>10. QED
  BY <1>4, <1>9 DEF Flat

\* ... and if it left the slots alone too, both invariants are kept.
LEMMA WorkedPlainKeeps ==
    ASSUME Solvent, Owners, NEW e, Result(e), Sound(eng, e), Worked(e), SlotsKept
    PROVE  Solvent' /\ Owners'
<1>1. /\ Result(eng') /\ Ok(eng') /\ tokens' = eng'.vault
      /\ clock' \in Nat /\ feed'.price \in Int
      /\ Ok(e) /\ eng'.used = e.used /\ (Flat(e) => Flat(eng'))
  BY WorkedKeeps DEF Sound
<1>2. gc_cursor' = gc_cursor
  BY DEF SlotsKept
<1>3. Solvent'
  BY <1>1, <1>2 DEF Solvent
<1>4. eng'.used = eng.used /\ (Flat(eng) => Flat(eng'))
  BY <1>1 DEF Sound, Moved, Kept, Alike
<1>5. QED
  BY <1>3, <1>4, SlotsKeep

\* Crank(Funding)
LEMMA FundingKeeps ==
    ASSUME Solvent, Owners, CrankFunding
    PROVE  Solvent' /\ Owners'
<1>1. PICK z \in Int, p \in Int, now \in Int : z = 0 /\ p = eng.last_oracle_price /\ now = clock
  BY EngineFields DEF Solvent, Result, Good
<1>2. PICK e : e = AccrueMarket(eng, now, p, z)
  OBVIOUS
<1>3. Result(e) /\ Sound(eng, e)
  BY <1>2, AccrueResult DEF Solvent
<1>4. Worked(e) /\ SlotsKept
  BY <1>1, <1>2 DEF CrankFunding, FundingCall
<1>5. QED
  BY <1>3, <1>4, WorkedPlainKeeps

\* Crank(AdlReset)
LEMMA AdlResetKeeps ==
    ASSUME Solvent, Owners, CrankAdlReset
    PROVE  Solvent' /\ Owners'
<1>1. PICK z \in Int, p \in Int, now \in Int, pair \in Int \X Int :
         z = 0 /\ p = eng.last_oracle_price /\ now = clock /\ pair = Pair
  <2>1. eng.last_oracle_price \in Int /\ clock \in Int
    BY EngineFields DEF Solvent, Result, Good
  <2>2. QED
    BY <2>1, PairType
<1>2. PICK i \in Accounts : i = First(eng.used)
  <2>1. eng.used \subseteq Accounts /\ eng.used # {}
    BY DEF Owners, CrankAdlReset
  <2>2. QED
    BY <2>1, FirstIn
<1>3. PICK e : e = SettleOp(eng, i, now, p, z, pair)
  OBVIOUS
<1>4. Result(e) /\ Sound(eng, e)
  BY <1>3, SettleResult DEF Solvent
<1>5. Worked(e) /\ SlotsKept
  BY <1>1, <1>2, <1>3 DEF CrankAdlReset, AdlResetDone, AdlResetCall
<1>6. QED
  BY <1>4, <1>5, WorkedPlainKeeps

\* Whose capital is not dust.
NotDust == {j \in Accounts : eng.acc[j].capital >= min_initial_deposit}

\* What the sweep of Crank(Gc) keeps while it goes over the slots.
Swept(g) ==
    /\ Result(g.eng) /\ Ok(g.eng) /\ g.eng.vault = eng.vault
    /\ g.eng.used \subseteq eng.used
    /\ PROTOCOL_LP_SLOT \in eng.used => PROTOCOL_LP_SLOT \in g.eng.used
    /\ IsFreeList(g.free, g.eng.used)
    /\ Flat(eng) => Flat(g.eng)
    /\ Spares(eng, g.eng, NotDust)

\* One slot of the sweep.
LEMMA GcOneSwept ==
    ASSUME Solvent, NEW e \in EngineType, NEW s \in Seq(Accounts),
           NEW g, g = [eng |-> e, free |-> s], Swept(g), NEW i \in Accounts
    PROVE  /\ Swept(GcOne(g, i))
           /\ GcOne(g, i) \in [eng : EngineType, free : Seq(Accounts)]
<1>1. g.eng = e /\ g.free = s /\ Result(e) /\ clock \in Int
  BY DEF Swept, Solvent
<1>2. PICK f : f = ReclaimOp(e, i, clock)
  OBVIOUS
<1>3. Result(f) /\ f.vault = e.vault /\ (Ok(f) => i \in e.used /\ Left(e, f, i))
  BY <1>1, <1>2, ReclaimResult
<1>4. PICK t : t = <<i>> \o s
  OBVIOUS
<1>5. PICK h : h = [eng |-> f, free |-> t]
  OBVIOUS
<1>6. h.eng = f /\ h.free = t
  BY <1>5
<1>7. GcOne(g, i) = IF GcEligible(e, i) THEN (IF Ok(f) THEN h ELSE g) ELSE g
  BY <1>1, <1>2, <1>4, <1>5 DEF GcOne, Reclaimed
<1>8. ASSUME GcEligible(e, i), Ok(f) PROVE Swept(h)
  <2>1. i # PROTOCOL_LP_SLOT
    BY <1>8 DEF GcEligible
  <2>2. i \in e.used /\ f.used = e.used \ {i} /\ (Flat(e) => Flat(f))
    BY <1>3, <1>8 DEF Left
  <2>3. IsFreeList(t, e.used \ {i})
    BY <1>1, <1>4, <2>2, Pushed DEF Swept
  <2>4. Spares(eng, f, NotDust)
    <3>1. Spares(eng, e, NotDust) /\ Ok(e)
      BY <1>1 DEF Swept
    <3>2. e.acc[i].capital < min_initial_deposit
      BY <1>1, <1>2, <1>8, ReclaimSpares
    <3>3. i \notin NotDust
      <4>1. SUFFICES ASSUME i \in NotDust PROVE FALSE
        OBVIOUS
      <4>2. eng.acc[i].capital >= min_initial_deposit /\ e.acc[i] = eng.acc[i]
        BY <3>1, <4>1 DEF NotDust, Spares
      <4>3. e.acc[i].capital \in Int /\ min_initial_deposit \in Int
        BY FeeConsts, EngineFields, AccountFields
      <4>4. QED
        BY <3>2, <4>2, <4>3
    <3>4. NotDust \in SUBSET Accounts
      BY DEF NotDust
    <3>5. Spares(e, f, NotDust)
      BY <1>1, <1>2, <3>3, <3>4, ReclaimSpares
    <3>6. Good(eng) /\ Good(e) /\ Good(f)
      BY <1>1, <1>3 DEF Solvent, Result
    <3>7. QED
      BY <3>1, <3>5, <3>6, GoodSpares
  <2>5. QED
    BY <1>1, <1>3, <1>6, <1>8, <2>1, <2>2, <2>3, <2>4 DEF Swept
<1>9. f \in EngineType /\ t \in Seq(Accounts)
  BY <1>3, <1>4 DEF Result, Good
<1>10. h \in [eng : EngineType, free : Seq(Accounts)] /\ g \in [eng : EngineType, free : Seq(Accounts)]
  BY <1>5, <1>9
<1>11. QED
  BY <1>7, <1>8, <1>10

\* The whole sweep.
LEMMA GcSweptKept ==
    ASSUME Solvent, Owners
    PROVE  Swept(GcSwept)
<1>1. PICK ts : ts = GcScan
  OBVIOUS
<1>2. PICK D : D = 1..GcLength
  OBVIOUS
<1>3. IsFiniteSet(D) /\ D \subseteq Int /\ D = DOMAIN ts /\ \A j \in D : ts[j] \in Accounts
  <2>1. GcLength \in Nat /\ MaxAccounts \in Nat \ {0} /\ gc_cursor \in Nat
    BY TableSize DEF Solvent
  <2>2. IsFiniteSet(D) /\ D \subseteq Int
    BY <1>2, <2>1, FS_Interval
  <2>3. D = DOMAIN ts /\ \A j \in D : ts[j] = (gc_cursor + j) % MaxAccounts
    BY <1>1, <1>2 DEF GcScan
  <2>4. ASSUME NEW j \in D PROVE ts[j] \in Accounts
    <3>1. PICK n \in Int, m \in Nat \ {0} : n = gc_cursor + j /\ m = MaxAccounts
      BY <2>1, <2>2
    <3>2. n % m \in 0..(m - 1)
      OBVIOUS
    <3>3. QED
      BY <2>3, <3>1, <3>2, TableSize
  <2>5. QED
    BY <2>2, <2>3, <2>4
<1>4. PICK b : b = [eng |-> eng, free |-> free]
  OBVIOUS
<1> DEFINE S == {g \in [eng : EngineType, free : Seq(Accounts)] : Swept(g)}
           Body(it) == [s \in SUBSET D |->
                          IF s = {} THEN b ELSE GcOne(it[s \ {Max(s)}], ts[Max(s)])]
           fold == CHOOSE it : it = Body(it)
           step == [p \in S \X D |-> GcOne(p[1], ts[p[2]])]
<1>5. GcSwept = fold[D]
  BY <1>1, <1>3, <1>4, Zenon DEF GcSwept, FoldLeft, MapThenFoldSet
<1>6. b \in S
  <2>1. eng \in EngineType /\ free \in Seq(Accounts)
    BY DEF Solvent, Owners, Result, Good, IsFreeList
  <2>2. b \in [eng : EngineType, free : Seq(Accounts)] /\ b.eng = eng /\ b.free = free
    BY <1>4, <2>1
  <2>3. Swept(b)
    <3>1. Spares(eng, eng, NotDust)
      BY <2>1, SameSpares
    <3>2. QED
      BY <2>2, <3>1 DEF Swept, Solvent, Owners
  <2>4. QED
    BY <2>2, <2>3
<1>7. ASSUME NEW f \in S, NEW j \in D PROVE GcOne(f, ts[j]) \in S
  <2>1. PICK e \in EngineType, s \in Seq(Accounts) : f = [eng |-> e, free |-> s]
    OBVIOUS
  <2>2. PICK i \in Accounts : i = ts[j]
    BY <1>3
  <2>3. Swept(f)
    OBVIOUS
  <2>4. Swept(GcOne(f, i)) /\ GcOne(f, i) \in [eng : EngineType, free : Seq(Accounts)]
    BY <2>1, <2>3, GcOneSwept
  <2>5. QED
    BY <2>2, <2>4
<1> HIDE DEF S
<1>8. step \in [S \X D -> S]
  BY <1>7
<1>9. Picks(MaxPick(D), D)
  BY <1>3, MaxPicks
<1>10. PICK g \in [SUBSET D -> S] : Unfolds(g, D, MaxPick(D), b, step)
  <2> HIDE DEF step, fold, Body
  <2>1. QED
    BY <1>3, <1>6, <1>8, <1>9, FoldExists
<1>11. g = Body(g)
  <2>1. ASSUME NEW s \in SUBSET D, s # {}
        PROVE  g[s] = GcOne(g[s \ {Max(s)}], ts[Max(s)])
    <3>1. MaxPick(D)[s] = Max(s) /\ MaxPick(D)[s] \in s
      BY <1>9, <2>1 DEF MaxPick, Picks
    <3>2. Max(s) \in D /\ g[s \ {Max(s)}] \in S
      BY <3>1
    <3>3. g[s] = step[<<g[s \ {Max(s)}], Max(s)>>]
      BY <1>10, <2>1, <3>1 DEF Unfolds
    <3>4. QED
      BY <3>2, <3>3
  <2>2. g[{}] = b
    BY <1>10 DEF Unfolds
  <2>3. QED
    BY <2>1, <2>2
<1>12. fold = Body(fold)
  <2> HIDE DEF Body
  <2>1. \E h : h = Body(h)
    BY <1>11
  <2>2. QED
    BY <2>1
<1>13. FoldsTo(fold, D, b, S)
  <2> HIDE DEF fold
  <2>1. fold[{}] = b
    BY <1>12
  <2>2. ASSUME NEW s \in SUBSET D, s # {}, fold[s \ {Max(s)}] \in S PROVE fold[s] \in S
    <3>1. fold[s] = GcOne(fold[s \ {Max(s)}], ts[Max(s)])
      BY <1>12, <2>2
    <3>2. Max(s) \in D
      BY <1>9, <2>2 DEF MaxPick, Picks
    <3>3. QED
      BY <1>7, <2>2, <3>1, <3>2
  <2>3. QED
    BY <2>1, <2>2 DEF FoldsTo
<1>14. fold[D] \in S
  <2> HIDE DEF fold
  <2>1. QED
    BY <1>3, <1>6, <1>13, FoldStays
<1> HIDE DEF fold
<1>15. QED
  BY <1>5, <1>14 DEF S

\* Crank(Gc)
LEMMA GcKeeps ==
    ASSUME Solvent, Owners, CrankGc
    PROVE  Solvent' /\ Owners'
<1>1. PICK g : g = GcSwept
  OBVIOUS
<1>2. PICK e : e = g.eng
  OBVIOUS
<1>3. Swept(g)
  BY <1>1, GcSweptKept
<1>4. Worked(e) /\ free' = g.free /\ gc_cursor' = (gc_cursor + GcLength) % MaxAccounts
      /\ owner' = [i \in Accounts |-> IF i \in e.used THEN owner[i] ELSE NoOne]
  BY <1>1, <1>2 DEF CrankGc, GcDone
<1>5. Result(e) /\ e.vault = eng.vault
  BY <1>2, <1>3 DEF Swept
<1>6. /\ Result(eng') /\ Ok(eng') /\ tokens' = eng'.vault
      /\ clock' \in Nat /\ feed'.price \in Int
      /\ eng'.used = e.used /\ (Flat(e) => Flat(eng'))
  BY <1>4, <1>5, WorkedKeeps
<1>7. gc_cursor' \in Nat
  <2>1. GcLength \in Nat /\ MaxAccounts \in Nat \ {0} /\ gc_cursor \in Nat
    BY TableSize DEF Solvent
  <2>2. PICK n \in Int, m \in Nat \ {0} : n = gc_cursor + GcLength /\ m = MaxAccounts
    BY <2>1
  <2>3. n % m \in Nat
    OBVIOUS
  <2>4. QED
    BY <1>4, <2>2, <2>3
<1>8. Solvent'
  BY <1>6, <1>7 DEF Solvent
<1>9. /\ e.used \subseteq eng.used /\ (PROTOCOL_LP_SLOT \in eng.used => PROTOCOL_LP_SLOT \in e.used)
      /\ IsFreeList(free', e.used) /\ (Flat(eng) => Flat(e))
  BY <1>2, <1>3, <1>4 DEF Swept
<1>10. \A i \in Accounts : owner'[i] = IF i \in e.used THEN owner[i] ELSE NoOne
  BY <1>4
<1>11. owner' \in [Accounts -> Users \union {LP, NoOne}]
  BY <1>4 DEF Owners
<1>12. \A i, j \in e.used : owner'[i] = owner'[j] => i = j
  BY <1>9, <1>10 DEF Owners
<1>13. \A i \in Accounts : owner'[i] # NoOne <=> i \in e.used
  BY <1>9, <1>10 DEF Owners
<1>14. \A i \in Accounts : owner'[i] = LP => i = PROTOCOL_LP_SLOT
  BY <1>10, Bounds DEF Owners
<1>15. owner'[PROTOCOL_LP_SLOT] # LP => Flat(e)
  <2>1. owner[PROTOCOL_LP_SLOT] = LP => PROTOCOL_LP_SLOT \in eng.used
    BY Bounds DEF Owners
  <2>2. owner[PROTOCOL_LP_SLOT] = LP => owner'[PROTOCOL_LP_SLOT] = LP
    BY <1>9, <1>10, <2>1, Bounds
  <2>3. QED
    BY <1>9, <2>2 DEF Owners
<1>16. e.used \subseteq Accounts
  BY <1>9 DEF Owners
<1>17. Owners'
  BY <1>6, <1>9, <1>11, <1>12, <1>13, <1>14, <1>15, <1>16 DEF Owners
<1>18. QED
  BY <1>8, <1>17

-----------------------------------------------------------------------------
(* Every step *)

\* A step that leaves the market and the slots alone.
LEMMA IdleKeeps ==
    ASSUME Solvent, Owners, UNCHANGED <<eng, tokens>>, SlotsKept,
           clock' \in Nat, feed'.price \in Int
    PROVE  Solvent' /\ Owners'
<1>1. Solvent'
  BY DEF Solvent, SlotsKept
<1>2. Owners'
  BY DEF Owners, SlotsKept
<1>3. QED
  BY <1>1, <1>2

\* The oracle publishes, on its own or on the keeper's request.
LEMMA PublishKeeps ==
    ASSUME Solvent, Owners, UNCHANGED <<eng, tokens, clock>>, SlotsKept,
           NEW price \in Prices, feed' = [price |-> price, slot |-> clock]
    PROVE  Solvent' /\ Owners'
<1>1. clock' \in Nat /\ feed'.price \in Int
  BY Bounds DEF Solvent
<1>2. QED
  BY <1>1, IdleKeeps

\* A step of the program, or of nobody.
LEMMA StepKeeps ==
    ASSUME Solvent, Owners, [Next]_vars
    PROVE  Solvent' /\ Owners'
<1>1. CASE UserStep
  BY <1>1, UserStepKeeps
<1>2. ASSUME NEW i \in Accounts, Liquidate(i) PROVE Solvent' /\ Owners'
  BY <1>2, LiquidateKeeps
<1>3. CASE CrankFunding
  BY <1>3, FundingKeeps
<1>4. CASE CrankGc
  BY <1>4, GcKeeps
<1>5. CASE CrankAdlReset
  BY <1>5, AdlResetKeeps
<1>6. CASE Tick
  <2>1. UNCHANGED <<eng, tokens, feed>> /\ SlotsKept /\ clock' = clock + 1
    BY <1>6 DEF Tick
  <2>2. clock' \in Nat /\ feed'.price \in Int
    BY <2>1 DEF Solvent
  <2>3. QED
    BY <2>1, <2>2, IdleKeeps
<1>7. ASSUME NEW price \in Prices, Publish(price) PROVE Solvent' /\ Owners'
  BY <1>7, PublishKeeps DEF Publish
<1>8. CASE UNCHANGED vars
  <2>1. UNCHANGED <<eng, tokens, clock, feed>> /\ SlotsKept
    BY <1>8 DEF vars, SlotsKept
  <2>2. clock' \in Nat /\ feed'.price \in Int
    BY <2>1 DEF Solvent
  <2>3. QED
    BY <2>1, <2>2, IdleKeeps
<1>9. QED
  BY <1>1, <1>2, <1>3, <1>4, <1>5, <1>6, <1>7, <1>8 
     DEF Next, Instruction, Published, CrankStep

\* What others do with a keeper about is a step of the program, or concerns the
\* source of the feed only.
LEMMA OthersStep ==
    ASSUME Others
    PROVE  Next \/ SourceStep
  BY DEF Others, SomeoneUpdates, SomeoneConverts, Next

\* A step with the keeper about: it decides, submits, or somebody else steps.
LEMMA KeeperStepKeeps ==
    ASSUME Solvent, Owners, [KeeperNext]_kvars
    PROVE  Solvent' /\ Owners'
<1>1. ASSUME Refresh PROVE Solvent' /\ Owners'
  <2>1. PICK price \in Prices : feed' = [price |-> price, slot |-> clock]
    BY <1>1 DEF Refresh
  <2>2. UNCHANGED <<eng, tokens, clock>> /\ SlotsKept
    BY <1>1 DEF Refresh
  <2>3. QED
    BY <2>1, <2>2, PublishKeeps
<1>2. ASSUME Liquidate(pending.victim), pending.victim \in Accounts
      PROVE Solvent' /\ Owners'
  BY <1>2, LiquidateKeeps
<1>3. ASSUME Send PROVE Solvent' /\ Owners'
  <2>1. CASE Liquidate(pending.victim)
    <3>1. pending.victim \in eng.used
      BY <2>1 DEF Liquidate, LiquidateGuard
    <3>2. pending.victim \in Accounts
      BY <3>1 DEF Owners
    <3>3. QED
      BY <1>2, <2>1, <3>2
  <2>2. QED
    BY <1>1, <1>3, <2>1, FundingKeeps, AdlResetKeeps, GcKeeps DEF Send
<1>4. CASE UNCHANGED vars
  BY <1>4, StepKeeps
<1>5. CASE Decide
  BY <1>4, <1>5 DEF Decide
<1>6. CASE Submit
  BY <1>3, <1>4, <1>6 DEF Submit
<1>7. CASE Others
  <2>1. CASE Next
    BY <2>1, StepKeeps
  <2>2. CASE SourceStep
    <3>1. UNCHANGED <<eng, tokens, clock, feed>> /\ SlotsKept
      BY <2>2 DEF SourceStep
    <3>2. clock' \in Nat /\ feed'.price \in Int
      BY <3>1 DEF Solvent
    <3>3. QED
      BY <3>1, <3>2, IdleKeeps
  <2>3. QED
    BY <1>7, <2>1, <2>2, OthersStep
<1>8. CASE UNCHANGED kvars
  BY <1>4, <1>8 DEF kvars
<1>9. QED
  BY <1>5, <1>6, <1>7, <1>8 DEF KeeperNext

-----------------------------------------------------------------------------
(* What a step takes from nobody *)

\* The accounts of K are as they were, and the fund is not below its floor.
StepSpares(K) == FloorKept /\ \A j \in K : eng'.acc[j] = eng.acc[j]

\* All that a flat user's capital needs to be left alone.
Saver(i) == AtRest(eng.acc[i]) /\ eng.acc[i].capital >= min_initial_deposit

\* What nobody but the owner takes.
TakesNothing == FlatFundsKept /\ LpSlotKept /\ FloorKept

\* What the engine's call spares the step spares.
LEMMA CommitSpares ==
    ASSUME Solvent, NEW e \in EngineType, NEW paid, Commit(e, paid), NEW K, Spares(eng, e, K)
    PROVE  StepSpares(K) /\ eng'.acc = e.acc
<1>1. eng' = [e EXCEPT !.ctx = NoContext] /\ Ok(e)
  BY DEF Commit
<1>2. eng'.acc = e.acc /\ eng'.insurance = e.insurance
  BY <1>1 DEF EngineType
<1>3. QED
  BY <1>1, <1>2 DEF Spares, StepSpares, FloorKept

\* The crank's callers are paid, too.
LEMMA WorkedSpares ==
    ASSUME Solvent, NEW e, Result(e), Worked(e), NEW K, Spares(eng, e, K)
    PROVE  StepSpares(K)
<1>1. PICK pay : pay = CrankPay(e)
  OBVIOUS
<1>2. pay \in Int
  <2>1. PICK n \in Int : n = e.insurance - insurance_floor
    BY Consts, EngineFields DEF Result, Good
  <2>2. Pos(n) \in Int
    BY PosInt
  <2>3. QED
    BY <1>1, <2>1, <2>2, Bounds DEF CrankPay, Lesser
<1>3. PICK f : f = PayCaller(e, pay)
  OBVIOUS
<1>4. Good(eng) /\ Good(e) /\ Good(f)
  BY <1>2, <1>3, PayCallerResult DEF Solvent, Result
<1>5. Spares(e, f, K)
  BY <1>1, <1>3, <1>4, PayCallerSpares DEF Good
<1>6. Spares(eng, f, K)
  BY <1>4, <1>5, GoodSpares
<1>7. Commit(f, -pay)
  BY <1>1, <1>3 DEF Worked
<1>8. QED
  BY <1>4, <1>6, <1>7, CommitSpares DEF Good

\* A step that spares everybody but the caller's slot, ...
LEMMA SparesTakes ==
    ASSUME Solvent, Solvent', FloorKept, LpSlotKept,
           \A u \in Users : \A i \in OwnSlots(u) : Saver(i) =>
               eng'.acc[i].capital >= eng.acc[i].capital \/ ByOwner(u)
    PROVE  TakesNothing
<1>1. SUFFICES ASSUME NEW u \in Users, NEW i \in OwnSlots(u), NEW a, a = eng.acc[i],
                      Untouched(a), a.pnl = 0, a.fee_credits = 0,
                      a.capital >= min_initial_deposit, eng'.acc[i].capital < a.capital
               PROVE  ByOwner(u)
  BY DEF TakesNothing, FlatFundsKept
<1>2. Saver(i)
  BY <1>1 DEF Saver, AtRest, Untouched
<1>3. eng'.acc[i].capital >= a.capital => FALSE
  <2>1. eng \in EngineType /\ eng' \in EngineType /\ i \in Accounts
    BY EngineFields DEF Solvent, Result, Good, OwnSlots
  <2>2. eng.acc[i].capital \in Int /\ eng'.acc[i].capital \in Int
    BY <2>1, EngineFields, AccountFields
  <2>3. QED
    BY <1>1, <2>2
<1>4. QED
  BY <1>1, <1>2, <1>3

\* ... such as one that leaves the market and the slots alone.
LEMMA IdleTakes ==
    ASSUME Solvent, Solvent', UNCHANGED eng, UNCHANGED owner
    PROVE  TakesNothing
<1>1. eng \in EngineType /\ insurance_floor \in Int
  BY Consts DEF Solvent, Result, Good
<1>2. FloorKept
  <2>1. eng.insurance \in Int
    BY <1>1, EngineFields
  <2>2. QED
    BY <1>1, <2>1 DEF FloorKept, Lesser
<1>3. ASSUME NEW u \in Users, NEW i \in OwnSlots(u)
      PROVE  eng'.acc[i].capital >= eng.acc[i].capital
  <2>1. i \in Accounts
    BY <1>1, EngineFields DEF OwnSlots
  <2>2. eng.acc[i].capital \in Int
    BY <1>1, <2>1, EngineFields, AccountFields
  <2>3. QED
    BY <2>2
<1>4. QED
  BY <1>2, <1>3, SparesTakes DEF LpSlotKept

\* A step that leaves the slots of its callers to them and spares the others.
LEMMA OthersSpared ==
    ASSUME Solvent, Solvent', Owners, LpSlotKept, StepSpares({}),
           \A u \in Users : \A i \in OwnSlots(u) : Saver(i) => ByOwner(u) \/ StepSpares({i})
    PROVE  TakesNothing
<1>1. FloorKept
  BY DEF StepSpares
<1>2. ASSUME NEW u \in Users, NEW i \in OwnSlots(u), Saver(i), ~ByOwner(u)
      PROVE  eng'.acc[i].capital >= eng.acc[i].capital
  <2>1. eng'.acc[i] = eng.acc[i]
    BY <1>2 DEF StepSpares
  <2>2. eng.acc[i].capital \in Int
    BY <1>2, EngineFields, AccountFields DEF Solvent, Result, Good, OwnSlots
  <2>3. QED
    BY <2>1, <2>2
<1>3. QED
  BY <1>1, <1>2, SparesTakes

\* The slots of two keys are two slots.
LEMMA OtherSlots ==
    ASSUME Owners, NEW u \in Users, NEW i \in OwnSlots(u), NEW w, w # u, NEW j \in OwnSlots(w)
    PROVE  i \in Accounts /\ i \in eng.used /\ j # i
  BY DEF OwnSlots, Owners

\* The LP's slot is not on the free list.
LEMMA ClaimTakes ==
    ASSUME Owners, free # <<>>, NEW i, i = Head(free), NEW k, Claim(i, k)
    PROVE  LpSlotKept /\ i \in Accounts
<1>1. i \in Accounts /\ i \notin eng.used
  BY Popped DEF Owners
<1>2. owner' = [owner EXCEPT ![i] = k]
  BY DEF Claim
<1>3. owner[PROTOCOL_LP_SLOT] = LP => PROTOCOL_LP_SLOT # i
  BY <1>1, Bounds DEF Owners
<1>4. QED
  BY <1>1, <1>2, <1>3, Bounds DEF Owners, LpSlotKept

\* process_deposit and process_bootstrap_lp
LEMMA DepositTakes ==
    ASSUME Solvent, Solvent', Owners, LpSlotKept, NEW i \in Accounts, NEW amount \in Nat,
           Commit(DepositOp(eng, i, amount, clock), amount)
    PROVE  TakesNothing
<1>1. PICK e : e = DepositOp(eng, i, amount, clock)
  OBVIOUS
<1>2. clock \in Int /\ Result(eng) /\ eng \in EngineType
  BY DEF Solvent, Result, Good
<1>3. Result(e) /\ e \in EngineType /\ Commit(e, amount) /\ Ok(e)
  BY <1>1, <1>2, DepositResult DEF Result, Good, Commit
<1>4. ASSUME NEW K \in SUBSET Accounts, i \notin K PROVE StepSpares(K) /\ eng'.acc = e.acc
  <2>1. Spares(eng, e, K)
    BY <1>1, <1>2, <1>4, DepositSpares
  <2>2. QED
    BY <1>3, <2>1, CommitSpares
<1>5. FloorKept /\ eng'.acc = e.acc
  <2>1. {} \in SUBSET Accounts /\ i \notin {}
    OBVIOUS
  <2>2. QED
    BY <1>4, <2>1 DEF StepSpares
<1>6. ASSUME NEW u \in Users, NEW j \in OwnSlots(u), Saver(j)
      PROVE  eng'.acc[j].capital >= eng.acc[j].capital
  <2>1. j \in eng.used /\ j \in Accounts /\ eng.acc[j].capital \in Int
    BY <1>2, EngineFields, AccountFields DEF OwnSlots
  <2>2. CASE j = i
    <3>1. AtRest(eng.acc[i])
      BY <1>6, <2>2 DEF Saver
    <3>2. e.acc[i].capital >= eng.acc[i].capital
      BY <1>1, <1>2, <1>3, <2>1, <2>2, <3>1, DepositOwn
    <3>3. QED
      BY <1>5, <2>2, <3>2
  <2>3. CASE j # i
    <3>1. StepSpares({j})
      BY <1>4, <2>1, <2>3
    <3>2. eng'.acc[j] = eng.acc[j]
      BY <3>1 DEF StepSpares
    <3>3. QED
      BY <2>1, <3>2
  <2>4. QED
    BY <2>2, <2>3
<1>7. QED
  BY <1>5, <1>6, SparesTakes

\* process_withdraw
LEMMA WithdrawTakes ==
    ASSUME Solvent, Solvent', Owners, NEW w \in Users, NEW amount \in Amounts,
           Withdraw(w, amount)
    PROVE  TakesNothing
<1>1. PICK k \in Accounts : k = First(OwnSlots(w)) /\ k \in OwnSlots(w)
  <2>1. OwnSlots(w) # {} /\ OwnSlots(w) \subseteq Accounts
    BY DEF Withdraw, OwnSlots, Owners
  <2>2. QED
    BY <2>1, FirstIn
<1>2. PICK z \in Int, p \in Int, n \in Int, now \in Int, pair \in Int \X Int :
         /\ z = 0 /\ p = eng.last_oracle_price /\ n = amount /\ now = clock /\ pair = Pair
  <2>1. eng.last_oracle_price \in Int /\ clock \in Int /\ amount \in Int
    BY Bounds, EngineFields DEF Solvent, Result, Good
  <2>2. QED
    BY <2>1, PairType
<1>3. PICK e : e = WithdrawOp(eng, k, n, now, p, z, pair)
  OBVIOUS
<1>4. Result(e) /\ e \in EngineType
  BY <1>3, WithdrawResult DEF Solvent, Result, Good
<1>5. Commit(e, -n) /\ SlotsKept
  BY <1>1, <1>2, <1>3 DEF Withdraw, WithdrawCall
<1>6. ASSUME NEW K \in SUBSET Accounts, k \notin K PROVE StepSpares(K)
  <2>1. Spares(eng, e, K)
    BY <1>3, <1>6, WithdrawSpares DEF Solvent
  <2>2. QED
    BY <1>4, <1>5, <2>1, CommitSpares
<1>7. ASSUME NEW u \in Users, NEW i \in OwnSlots(u) PROVE ByOwner(u) \/ StepSpares({i})
  <2>1. CASE u = w
    BY <2>1 DEF ByOwner
  <2>2. CASE u # w
    BY <1>1, <1>6, <2>2, OtherSlots
  <2>3. QED
    BY <2>1, <2>2
<1>8. LpSlotKept /\ StepSpares({})
  <2>1. {} \in SUBSET Accounts /\ k \notin {}
    OBVIOUS
  <2>2. QED
    BY <1>5, <1>6, <2>1 DEF LpSlotKept, SlotsKept
<1>9. QED
  BY <1>7, <1>8, OthersSpared

\* process_place_order: the counterparty is the LP, no user.
LEMMA OrderTakes ==
    ASSUME Solvent, Solvent', Owners, NEW w \in Users, NEW s \in Side, NEW size \in Sizes,
           PlaceOrder(w, s, size)
    PROVE  TakesNothing
<1>1. PICK k \in Accounts : k = First(OwnSlots(w)) /\ k \in OwnSlots(w)
  <2>1. OwnSlots(w) # {} /\ OwnSlots(w) \subseteq Accounts
    BY DEF PlaceOrder, OwnSlots, Owners
  <2>2. QED
    BY <2>1, FirstIn
<1>2. PICK z \in Int, p \in Nat, n \in Int, now \in Int, pair \in Int \X Int :
         /\ z = 0 /\ p = feed.price /\ n = size /\ now = clock /\ pair = Pair
  <2>1. feed.price \in Nat /\ clock \in Int /\ size \in Int
    BY Bounds, Consts DEF Solvent, PlaceOrder, FeedFresh
  <2>2. QED
    BY <2>1, PairType
<1>3. PICK a \in Accounts, b \in Accounts : a = Buyer(k, s) /\ b = Seller(k, s)
  BY Bounds DEF Buyer, Seller
<1>4. a \in {k, PROTOCOL_LP_SLOT} /\ b \in {k, PROTOCOL_LP_SLOT}
  BY <1>3 DEF Buyer, Seller
<1>5. PICK e : e = TradeOp(eng, a, b, now, p, n, p, z, pair)
  OBVIOUS
<1>6. Result(e) /\ e \in EngineType
  BY <1>2, <1>5, TradeResult DEF Solvent, Result, Good
<1>7. Commit(e, 0) /\ SlotsKept /\ owner[PROTOCOL_LP_SLOT] = LP
  BY <1>1, <1>2, <1>3, <1>5 DEF PlaceOrder, LpReady
<1>8. ASSUME NEW K \in SUBSET Accounts, k \notin K, PROTOCOL_LP_SLOT \notin K
      PROVE  StepSpares(K)
  <2>1. a \notin K /\ b \notin K
    BY <1>4, <1>8
  <2>2. Spares(eng, e, K)
    BY <1>2, <1>5, <2>1, TradeSpares DEF Solvent
  <2>3. QED
    BY <1>6, <1>7, <2>2, CommitSpares
<1>9. ASSUME NEW u \in Users, NEW i \in OwnSlots(u) PROVE ByOwner(u) \/ StepSpares({i})
  <2>1. CASE u = w
    BY <2>1 DEF ByOwner
  <2>2. CASE u # w
    <3>1. i # PROTOCOL_LP_SLOT
      BY <1>7, Bounds DEF OwnSlots
    <3>2. i \in Accounts /\ k # i
      BY <1>1, <2>2, OtherSlots
    <3>3. QED
      BY <1>8, <3>1, <3>2
  <2>3. QED
    BY <2>1, <2>2
<1>10. LpSlotKept /\ StepSpares({})
  <2>1. {} \in SUBSET Accounts /\ k \notin {} /\ PROTOCOL_LP_SLOT \notin {}
    OBVIOUS
  <2>2. QED
    BY <1>7, <1>8, <2>1 DEF LpSlotKept, SlotsKept
<1>11. QED
  BY <1>9, <1>10, OthersSpared

\* Every instruction of a user.
LEMMA UserStepTakes ==
    ASSUME Solvent, Solvent', Owners, UserStep
    PROVE  TakesNothing
<1>1. ASSUME NEW u \in Users, NEW amount \in Amounts, Deposit(u, amount)
      PROVE  TakesNothing
  <2>1. amount \in Nat
    BY Bounds
  <2>2. CASE DepositKnown(u, amount)
    <3>1. PICK i \in Accounts : i = First(OwnSlots(u))
      BY <2>2, OwnSlot DEF DepositKnown
    <3>2. Commit(DepositOp(eng, i, amount, clock), amount) /\ LpSlotKept
      BY <2>2, <3>1 DEF DepositKnown, SlotsKept, LpSlotKept
    <3>3. QED
      BY <2>1, <3>2, DepositTakes
  <2>3. CASE DepositFresh(u, amount)
    <3>1. PICK i : i = Head(free)
      OBVIOUS
    <3>2. Commit(DepositOp(eng, i, amount, clock), amount) /\ Claim(i, u) /\ free # <<>>
      BY <2>3, <3>1 DEF DepositFresh
    <3>3. LpSlotKept /\ i \in Accounts
      BY <3>1, <3>2, ClaimTakes
    <3>4. QED
      BY <2>1, <3>2, <3>3, DepositTakes
  <2>4. QED
    BY <1>1, <2>2, <2>3 DEF Deposit
<1>2. ASSUME NEW amount \in Amounts, BootstrapLp(amount)
      PROVE  TakesNothing
  <2>1. amount \in Nat
    BY Bounds
  <2>2. PICK i : i = Head(free)
    OBVIOUS
  <2>3. Commit(DepositOp(eng, i, amount, clock), amount) /\ Claim(i, LP) /\ free # <<>>
    BY <1>2, <2>2 DEF BootstrapLp
  <2>4. LpSlotKept /\ i \in Accounts
    BY <2>2, <2>3, ClaimTakes
  <2>5. QED
    BY <2>1, <2>3, <2>4, DepositTakes
<1>3. QED
  BY <1>1, <1>2, WithdrawTakes, OrderTakes DEF UserStep

\* The touch finds an account at rest healthy.
LEMMA RestingHealthy ==
    ASSUME NEW e, Result(e), NEW i \in Accounts, AtRest(e.acc[i]), NEW now \in Int,
           NEW price \in Int, NEW rate \in Int, NEW pair \in Int \X Int, NEW policy,
           Ok(LiquidateOp(e, i, now, price, policy, rate, pair))
    PROVE  ~Liquidatable(BeginTouch(e, i, now, price, rate, pair), i, price)
<1>1. PICK t : t = BeginTouch(e, i, now, price, rate, pair)
  OBVIOUS
<1>2. Good(t)
  BY <1>1, BeginTouchSound, ResultBacked
<1>3. Ok(t)
  <2>1. SUFFICES ASSUME ~Ok(t) PROVE FALSE
    OBVIOUS
  <2>2. FinalizeTouched(LiquidateTouched(t, i, price, policy)) = t
    BY <2>1 DEF LiquidateTouched, FinalizeTouched
  <2>3. LiquidateOp(e, i, now, price, policy, rate, pair) = Finish(t)
    BY <1>1, <2>2 DEF LiquidateOp
  <2>4. SideOnly(t, Finish(t))
    BY <1>2, FinishOnly
  <2>5. QED
    BY <2>1, <2>3, <2>4 DEF SideOnly
<1>4. PICK K : K = {i}
  OBVIOUS
<1>5. K \in SUBSET Accounts /\ i \in K /\ Calm(e, i, K)
  BY <1>4 DEF Calm
<1>6. t.acc[i] = e.acc[i]
  BY <1>1, <1>3, <1>5, BeginTouchSpares DEF Spares
<1>7. EffectivePos(t, i) = 0
  BY <1>6 DEF AtRest, EffectivePos, SideOf
<1>8. QED
  BY <1>1, <1>7 DEF Liquidatable

\* process_liquidate
LEMMA LiquidateTakes ==
    ASSUME Solvent, Solvent', Owners, NEW i \in Accounts, Liquidate(i)
    PROVE  TakesNothing
<1>1. PICK z \in Int, p \in Nat, now \in Int, pair \in Int \X Int :
         z = 0 /\ p = feed.price /\ now = clock /\ pair = Pair
  <2>1. feed.price \in Nat /\ clock \in Int
    BY Consts DEF Solvent, Liquidate, LiquidateGuard, FeedFresh
  <2>2. QED
    BY <2>1, PairType
<1>2. PICK e : e = LiquidateOp(eng, i, now, p, FullClose, z, pair)
  OBVIOUS
<1>3. Result(e) /\ Good(eng) /\ Good(e) /\ e \in EngineType
  <2>1. PICK policy : policy = FullClose
    OBVIOUS
  <2>2. policy.q \in Nat
    BY <2>1 DEF FullClose
  <2>3. Result(e)
    BY <1>2, <2>1, <2>2, LiquidateResult DEF Solvent
  <2>4. QED
    BY <2>3 DEF Solvent, Result, Good
<1>4. LiquidatePaid(e, i) /\ SlotsKept
  BY <1>1, <1>2 DEF Liquidate, LiquidateCall
<1>5. PICK b : b = LiqBounty(e, i, eng.acc[i].capital)
  OBVIOUS
<1>6. b \in Int
  <2>1. eng.acc[i].capital \in Int /\ e.acc[i].capital \in Int
    BY <1>3, EngineFields, AccountFields DEF Good
  <2>2. eng.acc[i].capital * LIQ_BOUNTY_BPS \in Int
    BY <2>1, Bounds, ProductInt
  <2>3. FloorDiv(eng.acc[i].capital * LIQ_BOUNTY_BPS, BPS) \in Int
    BY <2>2, Consts, FloorInt
  <2>4. QED
    BY <1>5, <2>1, <2>3 DEF LiqBounty, Lesser
<1>7. PICK f : f = BountyTaken(e, i, b)
  OBVIOUS
<1>8. Commit(f, -b)
  BY <1>4, <1>5, <1>7 DEF LiquidatePaid, BountyPaid
<1>9. f \in EngineType /\ (Ok(f) => Ok(e))
  <2>1. PICK K : K = {}
    OBVIOUS
  <2>2. f \in EngineType /\ Spares(e, f, K)
    BY <1>3, <1>6, <1>7, <2>1, BountySpares
  <2>3. QED
    BY <2>2 DEF Spares
<1>10. ASSUME NEW K \in SUBSET Accounts, i \notin K PROVE StepSpares(K)
  <2>1. Spares(eng, e, K)
    BY <1>1, <1>2, <1>10, LiquidateSpares DEF Solvent
  <2>2. Spares(e, f, K)
    BY <1>3, <1>6, <1>7, <1>10, BountySpares
  <2>3. Spares(eng, f, K)
    BY <1>3, <1>9, <2>1, <2>2, SparesTrans DEF Good
  <2>4. QED
    BY <1>8, <1>9, <2>3, CommitSpares
<1>11. ~AtRest(eng.acc[i])
  <2>1. Ok(e)
    BY <1>8, <1>9 DEF Commit
  <2>2. Liquidatable(BeginTouch(eng, i, now, p, z, pair), i, p)
    BY <1>1 DEF Liquidate, LiquidateGuard, DidLiquidate
  <2>3. QED
    BY <1>1, <1>2, <2>1, <2>2, RestingHealthy DEF Solvent
<1>12. ASSUME NEW u \in Users, NEW j \in OwnSlots(u), Saver(j) PROVE StepSpares({j})
  <2>1. j \in Accounts /\ j # i
    BY <1>11, <1>12 DEF Saver, OwnSlots, Owners
  <2>2. QED
    BY <1>10, <2>1
<1>13. LpSlotKept /\ StepSpares({})
  <2>1. {} \in SUBSET Accounts /\ i \notin {}
    OBVIOUS
  <2>2. QED
    BY <1>4, <1>10, <2>1 DEF LpSlotKept, SlotsKept
<1>14. QED
  BY <1>12, <1>13, OthersSpared

\* Crank(Funding)
LEMMA FundingTakes ==
    ASSUME Solvent, Solvent', Owners, CrankFunding
    PROVE  TakesNothing
<1>1. PICK z \in Int, p \in Int, now \in Int : z = 0 /\ p = eng.last_oracle_price /\ now = clock
  BY EngineFields DEF Solvent, Result, Good
<1>2. PICK e : e = AccrueMarket(eng, now, p, z)
  OBVIOUS
<1>3. Result(e) /\ eng \in EngineType
  BY <1>2, AccrueResult DEF Solvent, Result, Good
<1>4. Worked(e) /\ SlotsKept
  BY <1>1, <1>2 DEF CrankFunding, FundingCall
<1>5. ASSUME NEW K PROVE StepSpares(K)
  <2>1. Spares(eng, e, K)
    BY <1>2, <1>3, AccrueOnly, SideOnlySpares
  <2>2. QED
    BY <1>3, <1>4, <2>1, WorkedSpares
<1>6. LpSlotKept
  BY <1>4 DEF LpSlotKept, SlotsKept
<1>7. QED
  BY <1>5, <1>6, OthersSpared

\* Crank(AdlReset): whoever is settled, it is not an account at rest.
LEMMA AdlResetTakes ==
    ASSUME Solvent, Solvent', Owners, CrankAdlReset
    PROVE  TakesNothing
<1>1. PICK z \in Int, p \in Int, now \in Int, pair \in Int \X Int :
         z = 0 /\ p = eng.last_oracle_price /\ now = clock /\ pair = Pair
  <2>1. eng.last_oracle_price \in Int /\ clock \in Int
    BY EngineFields DEF Solvent, Result, Good
  <2>2. QED
    BY <2>1, PairType
<1>2. PICK i \in Accounts : i = First(eng.used)
  <2>1. eng.used \subseteq Accounts /\ eng.used # {}
    BY DEF Owners, CrankAdlReset
  <2>2. QED
    BY <2>1, FirstIn
<1>3. PICK e : e = SettleOp(eng, i, now, p, z, pair)
  OBVIOUS
<1>4. Result(e)
  BY <1>3, SettleResult DEF Solvent
<1>5. Worked(e) /\ SlotsKept
  BY <1>1, <1>2, <1>3 DEF CrankAdlReset, AdlResetDone, AdlResetCall
<1>6. ASSUME NEW K \in SUBSET Accounts, \A j \in K : AtRest(eng.acc[j]) PROVE StepSpares(K)
  <2>1. Calm(eng, i, K)
    BY <1>6 DEF Calm
  <2>2. Spares(eng, e, K)
    BY <1>3, <2>1, SettleSpares DEF Solvent
  <2>3. QED
    BY <1>4, <1>5, <2>2, WorkedSpares
<1>7. ASSUME NEW u \in Users, NEW j \in OwnSlots(u), Saver(j) PROVE StepSpares({j})
  <2>1. j \in Accounts /\ AtRest(eng.acc[j])
    BY <1>7 DEF Saver, OwnSlots, Owners
  <2>2. QED
    BY <1>6, <2>1
<1>8. LpSlotKept /\ StepSpares({})
  <2>1. {} \in SUBSET Accounts
    OBVIOUS
  <2>2. QED
    BY <1>5, <1>6, <2>1 DEF LpSlotKept, SlotsKept
<1>9. QED
  BY <1>7, <1>8, OthersSpared

\* Crank(Gc) collects only dust, and never slot 0.
LEMMA GcTakes ==
    ASSUME Solvent, Solvent', Owners, CrankGc
    PROVE  TakesNothing
<1>1. PICK g : g = GcSwept
  OBVIOUS
<1>2. PICK e : e = g.eng
  OBVIOUS
<1>3. Swept(g)
  BY <1>1, GcSweptKept
<1>4. Worked(e) /\ owner' = [i \in Accounts |-> IF i \in e.used THEN owner[i] ELSE NoOne]
  BY <1>1, <1>2 DEF CrankGc, GcDone
<1>5. Result(e) /\ Spares(eng, e, NotDust)
  BY <1>2, <1>3 DEF Swept
<1>6. StepSpares(NotDust)
  BY <1>4, <1>5, WorkedSpares
<1>7. StepSpares({})
  BY <1>6 DEF StepSpares
<1>8. ASSUME NEW u \in Users, NEW j \in OwnSlots(u), Saver(j) PROVE StepSpares({j})
  <2>1. j \in NotDust
    BY <1>8 DEF Saver, OwnSlots, Owners, NotDust
  <2>2. QED
    BY <1>6, <2>1 DEF StepSpares
<1>9. LpSlotKept
  <2>1. owner[PROTOCOL_LP_SLOT] = LP => PROTOCOL_LP_SLOT \in e.used
    BY <1>2, <1>3, Bounds DEF Owners, Swept
  <2>2. QED
    BY <1>4, <2>1, Bounds DEF LpSlotKept
<1>10. QED
  BY <1>7, <1>8, <1>9, OthersSpared

\* A step of the program.
LEMMA StepTakes ==
    ASSUME Solvent, Solvent', Owners, Next
    PROVE  TakesNothing
<1>1. ASSUME NEW i \in Accounts, Liquidate(i) PROVE TakesNothing
  BY <1>1, LiquidateTakes
<1>2. CASE Tick
  BY <1>2, IdleTakes DEF Tick, SlotsKept
<1>3. ASSUME NEW price \in Prices, Publish(price) PROVE TakesNothing
  BY <1>3, IdleTakes DEF Publish, SlotsKept
<1>4. CASE UserStep
  BY <1>4, UserStepTakes
<1>5. CASE CrankStep
  BY <1>5, FundingTakes, AdlResetTakes, GcTakes DEF CrankStep
<1>6. QED
  BY <1>1, <1>2, <1>3, <1>4, <1>5 DEF Next, Instruction, Published

\* A step with the keeper about.
LEMMA KeeperStepTakes ==
    ASSUME Solvent, Solvent', Owners, KeeperNext
    PROVE  TakesNothing \/ UNCHANGED vars
<1>1. CASE Decide
  BY <1>1 DEF Decide
<1>2. CASE Others
  <2>1. CASE Next
    BY <2>1, StepTakes
  <2>2. CASE SourceStep
    BY <2>2, IdleTakes DEF SourceStep, SlotsKept
  <2>3. QED
    BY <1>2, <2>1, <2>2, OthersStep
<1>3. ASSUME Send PROVE TakesNothing
  <2>1. CASE Refresh
    BY <2>1, IdleTakes DEF Refresh, SlotsKept
  <2>2. CASE Liquidate(pending.victim)
    <3>1. pending.victim \in Accounts
      BY <2>2 DEF Liquidate, LiquidateGuard, Owners
    <3>2. QED
      BY <2>2, <3>1, LiquidateTakes
  <2>3. QED
    BY <1>3, <2>1, <2>2, FundingTakes, AdlResetTakes, GcTakes DEF Send
<1>4. CASE Submit
  BY <1>3, <1>4 DEF Submit
<1>5. QED
  BY <1>1, <1>2, <1>4 DEF KeeperNext

-----------------------------------------------------------------------------
(* The first state *)

\* The slots behind those that were claimed are free, the lowest first.
LEMMA FirstFreeList ==
    ASSUME NEW n \in Nat, NEW m \in Nat, n <= m, Accounts = 0..(m - 1),
           NEW used, \A i \in Accounts : i \in used <=> i < n
    PROVE  IsFreeList([k \in 1..(m - n) |-> n + k - 1], used)
<1>1. PICK s : s = [k \in 1..(m - n) |-> n + k - 1]
  OBVIOUS
<1>2. m - n \in Nat
  OBVIOUS
<1>3. \A k \in 1..(m - n) : s[k] = n + k - 1 /\ n + k - 1 \in Accounts
  BY <1>1
<1>4. s \in Seq(Accounts) /\ Len(s) = m - n
  BY <1>1, <1>2, <1>3
<1>5. \A k, l \in 1..(m - n) : s[k] = s[l] => k = l
  BY <1>3
<1>6. ASSUME NEW i \in Accounts PROVE i \notin used <=> \E k \in 1..(m - n) : s[k] = i
  <2>1. ASSUME i \notin used PROVE \E k \in 1..(m - n) : s[k] = i
    <3>1. i - n + 1 \in 1..(m - n) /\ n + (i - n + 1) - 1 = i
      BY <2>1
    <3>2. s[i - n + 1] = i
      BY <1>3, <3>1
    <3>3. QED
      BY <3>1, <3>2
  <2>2. ASSUME NEW k \in 1..(m - n), s[k] = i PROVE i \notin used
    BY <1>3, <2>2
  <2>3. QED
    BY <2>1, <2>2
<1>7. QED
  BY <1>1, <1>4, <1>5, <1>6 DEF IsFreeList

\* A market after its first instructions is solvent.
LEMMA InitSolvent ==
    ASSUME Init
    PROVE  Solvent
<1>1. PICK o \in Openings :
        /\ eng = Opened(o) /\ Ok(eng) /\ gc_cursor = 0 /\ tokens = eng.vault /\ clock = 0
        /\ feed = [price |-> o.price, slot |-> 0]
  BY DEF Init
<1>2. Result(Opened(o)) /\ o.price \in Nat
  BY <1>1, Bounds, OpenedResult DEF IsOpening
<1>3. QED
  BY <1>1, <1>2 DEF Solvent

\* Every slot with a deposit has its owner, and nobody has traded with a slot 0
\* that is not the LP's.
LEMMA InitOwners ==
    ASSUME Init
    PROVE  Owners
<1>1. PICK o \in Openings :
        /\ eng = Opened(o) /\ Ok(eng)
        /\ owner = [i \in Accounts |-> IF i < Len(o.owners) THEN o.owners[i + 1] ELSE NoOne]
        /\ free = [k \in 1..(Cardinality(Accounts) - Len(o.owners)) |-> Len(o.owners) + k - 1]
  BY DEF Init
<1>2. IsOpening(o) /\ IsOwned(o)
  BY Bounds
<1>3. PICK os : os = o.owners
  OBVIOUS
<1>4. PICK n \in Nat : n = Len(os)
  BY <1>2, <1>3 DEF IsOwned
<1>5. /\ os \in Seq(Users \union {LP}) /\ n <= MaxAccounts
      /\ \A k \in 1..n : os[k] \in Users \union {LP}
      /\ \A k, l \in 1..n : os[k] = os[l] => k = l
      /\ \A k \in 1..n : os[k] = LP => k = 1
      /\ \A i \in Accounts : i < n <=> o.cap[i] # 0
      /\ o.trades # <<>> => n # 0 /\ os[1] = LP
  <2>1. os \in Seq(Users \union {LP}) /\ DOMAIN os = 1..n
    BY <1>2, <1>3, <1>4 DEF IsOwned
  <2>2. \A k \in 1..n : os[k] \in Users \union {LP}
    BY <1>4, <2>1
  <2>3. o.trades # <<>> => n # 0 /\ os[1] = LP
    BY <1>2, <1>3, <1>4, <2>1 DEF IsOwned
  <2>4. QED
    BY <1>2, <1>3, <1>4, <2>1, <2>2, <2>3 DEF IsOwned, MaxAccounts
<1>6. eng.used = {i \in Accounts : o.cap[i] # 0} /\ (o.trades = <<>> => Flat(eng))
  BY <1>1, <1>2, OpenedResult
<1>7. \A i \in Accounts : i \in eng.used <=> i < n
  BY <1>5, <1>6
<1>8. owner = [i \in Accounts |-> IF i < n THEN os[i + 1] ELSE NoOne]
  BY <1>1, <1>3, <1>4
<1>9. \A i \in Accounts : i \in Nat /\ (i < n => i + 1 \in 1..n)
  BY Consts
<1>10. \A i \in Accounts : owner[i] = IF i < n THEN os[i + 1] ELSE NoOne
  BY <1>8
<1>11. owner \in [Accounts -> Users \union {LP, NoOne}]
  BY <1>5, <1>8, <1>9
<1>12. ASSUME NEW i \in eng.used, NEW j \in eng.used, owner[i] = owner[j] PROVE i = j
  <2>1. i \in Accounts /\ j \in Accounts /\ i < n /\ j < n
    BY <1>6, <1>7
  <2>2. i + 1 \in 1..n /\ j + 1 \in 1..n /\ os[i + 1] = os[j + 1]
    BY <1>9, <1>10, <1>12, <2>1
  <2>3. i + 1 = j + 1
    BY <1>5, <2>2
  <2>4. QED
    BY <1>9, <2>1, <2>3
<1>13. ASSUME NEW i \in Accounts PROVE owner[i] # NoOne <=> i \in eng.used
  <2>1. i < n => os[i + 1] # NoOne
    BY <1>5, <1>9, Bounds
  <2>2. QED
    BY <1>7, <1>10, <2>1
<1>14. ASSUME NEW i \in Accounts, owner[i] = LP PROVE i = PROTOCOL_LP_SLOT
  <2>1. i < n /\ os[i + 1] = LP
    BY <1>10, <1>14, Bounds
  <2>2. i + 1 = 1
    BY <1>5, <1>9, <2>1
  <2>3. QED
    BY <1>9, <2>2 DEF PROTOCOL_LP_SLOT
<1>15. owner[PROTOCOL_LP_SLOT] # LP => Flat(eng)
  <2>1. n # 0 /\ os[1] = LP => owner[PROTOCOL_LP_SLOT] = LP
    <3>1. n # 0 => 0 < n
      OBVIOUS
    <3>2. 0 \in Accounts /\ 0 + 1 = 1
      BY Bounds DEF PROTOCOL_LP_SLOT
    <3>3. QED
      BY <1>10, <3>1, <3>2 DEF PROTOCOL_LP_SLOT
  <2>2. QED
    BY <1>5, <1>6, <2>1
<1>16. IsFreeList(free, eng.used)
  <2>1. free = [k \in 1..(MaxAccounts - n) |-> n + k - 1]
    BY <1>1, <1>3, <1>4 DEF MaxAccounts
  <2>2. PICK m \in Nat : m = MaxAccounts
    BY TableSize
  <2>3. IsFreeList([k \in 1..(m - n) |-> n + k - 1], eng.used)
    BY <1>5, <1>7, <2>2, TableSize, FirstFreeList
  <2>4. QED
    BY <2>1, <2>2, <2>3
<1>17. eng.used \subseteq Accounts
  BY <1>6
<1>18. QED
  BY <1>11, <1>12, <1>13, <1>14, <1>15, <1>16, <1>17 DEF Owners

-----------------------------------------------------------------------------
(* Theorems *)

\* The invariants give the books ...
LEMMA SolventBooks ==
    ASSUME Solvent
    PROVE  BooksExact
<1>1. Market(eng) /\ Books(eng)
  BY DEF Solvent, Result, Good
<1>2. eng.c_tot = Sum(Capitals(eng))
  BY <1>1 DEF Books, Sums
<1>3. QED
  BY <1>1, <1>2 DEF Solvent, BooksExact, Market, Capitals

\* ... and the owners.
LEMMA OwnersSoundly ==
    ASSUME Owners
    PROVE  OwnersSound
<1>1. ToSet(free) = Accounts \ eng.used /\ Len(free) = Cardinality(Accounts \ eng.used)
  BY FreeListLength DEF Owners
<1>2. QED
  BY <1>1 DEF Owners, OwnersSound, Flat

\* Both invariants are inductive, for every table and with any arguments.
THEOREM ProgramInvariant == Spec => [](Solvent /\ Owners)
<1>1. Init => Solvent /\ Owners
  BY InitSolvent, InitOwners
<1>2. Solvent /\ Owners /\ [Next]_vars => (Solvent /\ Owners)'
  BY StepKeeps
<1>3. QED
  BY <1>1, <1>2, PTL DEF Spec

\* The vault's token account holds what the engine believes, C_tot is the sum of
\* the capitals, and C_tot and the insurance fund are backed: also through the
\* bounties, which the program takes out of the engine's fields by hand.
THEOREM BooksAreExact == Spec => []BooksExact
<1>1. Solvent /\ Owners => BooksExact
  BY SolventBooks
<1>2. QED
  BY <1>1, ProgramInvariant, PTL

\* No key owns two slots, the free list holds every slot that is not in use
\* once, and nobody trades against a slot 0 that is not the LP's.
THEOREM OwnersAreSound == Spec => []OwnersSound
<1>1. Solvent /\ Owners => OwnersSound
  BY OwnersSoundly
<1>2. QED
  BY <1>1, ProgramInvariant, PTL

\* ... and the keeper, whose decisions may be stale when they are submitted,
\* takes the market nowhere else.
THEOREM KeeperIsSafe == KeeperSpec => [](BooksExact /\ OwnersSound)
<1>1. KeeperInit => Solvent /\ Owners
  BY InitSolvent, InitOwners DEF KeeperInit
<1>2. Solvent /\ Owners /\ [KeeperNext]_kvars => (Solvent /\ Owners)'
  BY KeeperStepKeeps
<1>3. Solvent /\ Owners => BooksExact /\ OwnersSound
  BY SolventBooks, OwnersSoundly
<1>4. QED
  BY <1>1, <1>2, <1>3, PTL DEF KeeperSpec

\* Neither a liquidation nor a crank nor another user's instruction takes the
\* capital of a flat user above the dust limit; the LP's slot is not collected;
\* neither absorbed losses nor bounties take the fund below its floor.
THEOREM NothingIsTaken == Spec => TakenFromNobody
<1>1. Solvent /\ Owners /\ Solvent' /\ [Next]_vars => [TakesNothing]_vars
  BY StepTakes
<1>2. [TakesNothing]_vars => [FlatFundsKept /\ LpSlotKept /\ FloorKept]_vars
  BY DEF TakesNothing
<1>3. QED
  BY <1>1, <1>2, ProgramInvariant, PTL DEF Spec, TakenFromNobody

\* ... also when a keeper submits what it decided on earlier.
THEOREM KeeperTakesNothing == KeeperSpec => TakenFromNobody
<1>1. KeeperInit => Solvent /\ Owners
  BY InitSolvent, InitOwners DEF KeeperInit
<1>2. Solvent /\ Owners /\ [KeeperNext]_kvars => (Solvent /\ Owners)'
  BY KeeperStepKeeps
<1>3. Solvent /\ Owners /\ Solvent' /\ [KeeperNext]_kvars => [TakesNothing]_vars
  BY KeeperStepTakes DEF kvars
<1>4. [TakesNothing]_vars => [FlatFundsKept /\ LpSlotKept /\ FloorKept]_vars
  BY DEF TakesNothing
<1>5. QED
  BY <1>1, <1>2, <1>3, <1>4, PTL DEF KeeperSpec, TakenFromNobody
=============================================================================
