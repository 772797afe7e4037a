----------------------------- MODULE RefundMath -----------------------------
(***************************************************************************)
(* What a cancellation pays back: the notice tiers of cancel_booking, the  *)
(* amount its reply states and the amount log_refund stores.  The two      *)
(* amounts come from two different float computations in the code; here    *)
(* each is the integer that computation yields.                            *)
(***************************************************************************)
EXTENDS Integers

CONSTANTS
    HOUR,         \* clock ticks in an hour
    FULL_NOTICE,  \* the 48 of bookings.py, in hours
    HALF_NOTICE   \* the 24 of bookings.py, in hours

ASSUME NoticeAssumption ==
    /\ HOUR \in Nat \ {0}
    /\ HALF_NOTICE \in Nat
    /\ FULL_NOTICE \in Nat
    /\ HALF_NOTICE <= FULL_NOTICE

Percents == {0, 50, 100}

\* README, business rule 7: 48 hours or more, 24 to 48 hours, less.
Promised(notice) ==
    IF notice >= FULL_NOTICE * HOUR THEN 100
    ELSE IF notice >= HALF_NOTICE * HOUR THEN 50
    ELSE 0

\* The notices for which the code departs from it: the whole hour from
\* FULL_NOTICE on.
InFirstFullHour(notice) ==
    FULL_NOTICE * HOUR <= notice /\ notice < (FULL_NOTICE + 1) * HOUR

\* BUGS.md #11: 50% also without 24 hours' notice.
RefundPercentNoZeroTier(notice) == IF notice \div HOUR > FULL_NOTICE THEN 100 ELSE 50

(***************************************************************************)
(* notice_hours is floored to whole hours and then compared with > 48,     *)
(* while the middle tier compares the exact notice with >= 24 h.           *)
(***************************************************************************)
RefundPercent(notice) ==
    IF notice \div HOUR > FULL_NOTICE THEN 100
    ELSE IF notice >= HALF_NOTICE * HOUR THEN 50
    ELSE 0

(***************************************************************************)
(* round(price * (percent / 100.0)): 1.0 and 0.5 are exact, and Python's   *)
(* round sends a tie to the even neighbour.                                *)
(***************************************************************************)
ReplyCents(price, percent) ==
    CASE percent = 100 -> price
      [] percent = 50  -> IF price % 4 = 3 THEN (price + 1) \div 2
                                            ELSE price \div 2
      [] percent = 0   -> 0

-----------------------------------------------------------------------------
(***************************************************************************)
(* int((price / 100.0) * 100) in binary64: one cent short exactly when the *)
(* quotient was rounded down and the product could not be rounded back.    *)
(* Exponent(p) is the e with 2^e <= 1.28 p < 2^(e+1), which fixes the      *)
(* spacing of the doubles around p/100; Residue(p) is p 2^(59-e) mod 100,  *)
(* the part of p/100 the 53-bit significand drops (the powers of 2 repeat  *)
(* mod 100 with period 20 from 2^2 on).                                    *)
(***************************************************************************)
Exponent(p) == CHOOSE e \in 0 .. p :
                  100 * 2^e <= 128 * p /\ 128 * p < 100 * 2^(e + 1)

Residue(p) ==
    LET shift == 2 + ((57 - Exponent(p)) % 20)
    IN (p * (2^shift % 100)) % 100

Lossy(p) == p > 0 /\ 32 < Residue(p) /\ Residue(p) < 50 /\ p <= 2^Exponent(p)

FloatCents(p) == IF Lossy(p) THEN p - 1 ELSE p

\* A plausible mistake: half a cent is rounded up.
LedgerCentsUp(price, percent) ==
    IF percent = 50 THEN (FloatCents(price) + 1) \div 2
    ELSE IF percent = 100 THEN FloatCents(price) ELSE 0

(***************************************************************************)
(* amount_cents of log_refund: dollars, a share of them, cents, truncated. *)
(* The share (1.0, 0.5 or 0.0) is exact in binary64.                       *)
(***************************************************************************)
LedgerCents(price, percent) ==
    CASE percent = 100 -> FloatCents(price)
      [] percent = 50  -> FloatCents(price) \div 2
      [] percent = 0   -> 0
=============================================================================
