-------------------------- MODULE SettlementProofs --------------------------
(***************************************************************************)
(* The amounts and the tiers of a cancellation, for every price, every     *)
(* notice and every setting of the tiers.                                  *)
(***************************************************************************)
EXTENDS Settlement, TLAPS

(***************************************************************************)
(* The tiers are monotone in the notice.                                   *)
(***************************************************************************)
LEMMA DivMonotone ==
    ASSUME NEW a \in Int, NEW b \in Int, a <= b
    PROVE  a \div HOUR <= b \div HOUR
BY NoticeAssumption

\* A shorter notice never buys a larger share.
LEMMA TierMonotone ==
    ASSUME NEW a \in Int, NEW b \in Int, a <= b
    PROVE  RefundPercent(a) <= RefundPercent(b)
<1>1. a \div HOUR \in Int /\ b \div HOUR \in Int /\ a \div HOUR <= b \div HOUR
  BY NoticeAssumption, DivMonotone
<1>2. ASSUME b \div HOUR <= FULL_NOTICE, b < HALF_NOTICE * HOUR
      PROVE  RefundPercent(a) = 0
  BY <1>1, <1>2, NoticeAssumption DEF RefundPercent
<1>3. ASSUME a \div HOUR > FULL_NOTICE PROVE RefundPercent(b) = 100
  BY <1>1, <1>3, NoticeAssumption DEF RefundPercent
<1> QED
  BY <1>1, <1>2, <1>3, NoticeAssumption DEF RefundPercent

\* A share is one of the three of the refund tiers.
LEMMA ShareIsPercent == \A n : RefundPercent(n) \in Percents
BY DEF RefundPercent, Percents

(***************************************************************************)
(* Without HALF_NOTICE hours of notice nothing is paid back: the tier of   *)
(* whole hours cannot be reached below the tier of exact notice.           *)
(***************************************************************************)
LEMMA LateIsFree ==
    ASSUME NEW n \in Int, n < HALF_NOTICE * HOUR
    PROVE  RefundPercent(n) = 0
<1>1. n \div HOUR <= HALF_NOTICE
  <2>1. HALF_NOTICE * HOUR \in Int
    BY NoticeAssumption
  <2>2. (HALF_NOTICE * HOUR) \div HOUR = HALF_NOTICE
    BY NoticeAssumption
  <2> QED BY <2>1, <2>2, DivMonotone
<1> QED
  BY <1>1, NoticeAssumption DEF RefundPercent

(***************************************************************************)
(* One cent is all the two float computations can disagree by.             *)
(***************************************************************************)
LEMMA AmountsAgree ==
    ASSUME NEW p \in Nat \ {0}, NEW percent \in Percents
    PROVE  /\ LedgerCents(p, percent) \in {ReplyCents(p, percent) - 1,
                                           ReplyCents(p, percent)}
           /\ LedgerCents(p, percent) \in Nat
           /\ LedgerCents(p, percent) <= p
           /\ ReplyCents(p, percent) <= p
<1>1. FloatCents(p) = p \/ FloatCents(p) = p - 1
  BY DEF FloatCents
<1>2. CASE percent = 100
  BY <1>1, <1>2 DEF LedgerCents, ReplyCents
<1>3. CASE percent = 50
  BY <1>1, <1>3 DEF LedgerCents, ReplyCents
<1>4. CASE percent = 0
  BY <1>4 DEF LedgerCents, ReplyCents
<1> QED BY <1>2, <1>3, <1>4 DEF Percents

-----------------------------------------------------------------------------
SettlementInv ==
    /\ price \in Nat \ {0}
    /\ notice \in Int
    /\ receipt # None => receipt.percent = RefundPercent(notice)
    /\ receipt # None => \E percent \in Percents :
           /\ receipt.percent = percent
           /\ receipt.reply = ReplyCents(price, percent)
           /\ receipt.ledger = LedgerCents(price, percent)

\* The receipt is what the price and the notice at its time determine.
THEOREM SettlementInvAlways == Spec => []SettlementInv
<1>1. Init => SettlementInv
  BY SettlementAssumption DEF Init, SettlementInv
<1>2. SettlementInv /\ [Next]_vars => SettlementInv'
  BY ShareIsPercent DEF SettlementInv, Next, Wait, Cancel, vars
<1> QED BY <1>1, <1>2, PTL DEF Spec

(***************************************************************************)
(* For every price: the refund stored and the refund replied differ by at  *)
(* most a cent, the ledger having the smaller, and neither exceeds the     *)
(* price.                                                                  *)
(***************************************************************************)
THEOREM LedgerAlwaysWithinACent == Spec => []LedgerWithinACent
<1>1. SettlementInv => LedgerWithinACent
  BY AmountsAgree DEF SettlementInv, LedgerWithinACent
<1> QED BY <1>1, SettlementInvAlways, PTL

(***************************************************************************)
(* For every setting of the tiers: waiting never raises the share, and a   *)
(* late cancellation pays nothing.                                         *)
(***************************************************************************)
THEOREM WaitingIsNeverRewarded == Spec => WaitingNeverPaysMore
<1>1. ASSUME SettlementInv, [Next]_vars
      PROVE  [ /\ notice' <= notice => RefundPercent(notice') <= RefundPercent(notice)
               /\ receipt' # None /\ notice < HALF_NOTICE * HOUR => receipt'.reply = 0
             ]_vars
  <2>1. CASE Wait
    <3>1. notice \in Int /\ notice' \in Int /\ notice' <= notice /\ receipt' = None
      BY <1>1, <2>1 DEF SettlementInv, Wait
    <3> QED BY <3>1, TierMonotone
  <2>2. CASE Cancel
    <3>1. notice \in Int /\ notice' = notice
      BY <1>1, <2>2 DEF SettlementInv, Cancel
    <3>2. receipt'.reply = ReplyCents(price, RefundPercent(notice))
      BY <2>2 DEF Cancel
    <3>3. notice < HALF_NOTICE * HOUR => receipt'.reply = 0
      BY <3>1, <3>2, LateIsFree DEF ReplyCents
    <3> QED BY <3>1, <3>3, TierMonotone
  <2> QED BY <1>1, <2>1, <2>2 DEF Next
<1> QED BY <1>1, SettlementInvAlways, PTL DEF Spec, WaitingNeverPaysMore

(***************************************************************************)
(* For every setting of the tiers: the only notices that are not paid as   *)
(* promised are those of FULL_NOTICE hours and less than one more.         *)
(***************************************************************************)
THEOREM UnderpaysInOneHourOnly == Spec => []UnderpaidOnlyInOneHour
<1>1. ASSUME NEW n \in Int
      PROVE  \/ RefundPercent(n) = Promised(n)
             \/ /\ FULL_NOTICE * HOUR <= n /\ n < (FULL_NOTICE + 1) * HOUR
                /\ RefundPercent(n) = 50
  <2>1. /\ HOUR \in Nat \ {0} /\ FULL_NOTICE \in Nat /\ HALF_NOTICE \in Nat
        /\ FULL_NOTICE * HOUR \in Int /\ HALF_NOTICE * HOUR \in Int
        /\ (FULL_NOTICE + 1) * HOUR \in Int
        /\ HALF_NOTICE * HOUR <= FULL_NOTICE * HOUR
    BY NoticeAssumption
  <2>2. CASE n \div HOUR > FULL_NOTICE
    <3>1. n \div HOUR >= FULL_NOTICE + 1 /\ n >= HOUR * (n \div HOUR)
      BY <2>1, <2>2
    <3>2. n >= FULL_NOTICE * HOUR
      BY <2>1, <3>1
    <3> QED BY <2>2, <3>2 DEF RefundPercent, Promised
  <2>3. CASE ~(n \div HOUR > FULL_NOTICE)
    <3>1. n < (FULL_NOTICE + 1) * HOUR
      <4>1. ASSUME n >= (FULL_NOTICE + 1) * HOUR PROVE FALSE
        <5>1. ((FULL_NOTICE + 1) * HOUR) \div HOUR = FULL_NOTICE + 1
          BY <2>1
        <5>2. ((FULL_NOTICE + 1) * HOUR) \div HOUR <= n \div HOUR
          BY <2>1, <4>1, DivMonotone
        <5> QED BY <2>1, <2>3, <5>1, <5>2
      <4> QED BY <2>1, <4>1
    <3>2. RefundPercent(n) = IF n >= HALF_NOTICE * HOUR THEN 50 ELSE 0
      BY <2>3 DEF RefundPercent
    <3> QED BY <2>1, <3>1, <3>2 DEF Promised
  <2> QED BY <2>2, <2>3
<1>2. SettlementInv => UnderpaidOnlyInOneHour
  BY <1>1 DEF SettlementInv, UnderpaidOnlyInOneHour, InFirstFullHour
<1> QED BY <1>2, SettlementInvAlways, PTL
=============================================================================
