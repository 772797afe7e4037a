----------------------------- MODULE Settlement -----------------------------
(***************************************************************************)
(* One confirmed booking on its way to its start time, and the cancel      *)
(* request that may settle it: which share of the price the notice buys,   *)
(* and the two amounts the code derives from it, refund_amount_cents in    *)
(* the reply and amount_cents in the refund ledger.                        *)
(***************************************************************************)
EXTENDS RefundMath

CONSTANTS
    Prices,     \* the price_cents a booking may carry
    MaxNotice,  \* the longest notice explored, in ticks before start_time
    MaxLate,    \* and how long after start_time a cancellation may still come
    None        \* no cancellation yet

ASSUME SettlementAssumption ==
    /\ Prices \subseteq Nat \ {0}
    /\ MaxNotice \in Nat /\ MaxLate \in Nat
    /\ None \notin [percent : Percents, reply : Nat, ledger : Nat]

VARIABLES
    price,    \* booking.price_cents
    notice,   \* booking.start_time - now
    receipt   \* what the cancellation answered and stored

vars == <<price, notice, receipt>>

Init ==
    /\ price \in Prices
    /\ notice = MaxNotice
    /\ receipt = None

\* Time passes.
Wait ==
    /\ receipt = None
    /\ notice > -MaxLate
    /\ notice' = notice - 1
    /\ UNCHANGED <<price, receipt>>

\* cancel_booking from the notice to the reply, with log_refund's amount.
Cancel ==
    /\ receipt = None
    /\ LET percent == RefundPercent(notice)
       IN receipt' = [percent |-> percent,
                      reply   |-> ReplyCents(price, percent),
                      ledger  |-> LedgerCents(price, percent)]
    /\ UNCHANGED <<price, notice>>

Next == Wait \/ Cancel

Spec == Init /\ [][Next]_vars

-----------------------------------------------------------------------------
(***************************************************************************)
(* The amount stored in the ledger is the amount replied or one cent less, *)
(* and never more than the customer paid: the float truncation of          *)
(* log_refund and the rounding of cancel_booking never drift further.      *)
(***************************************************************************)
LedgerWithinACent ==
    receipt # None =>
        /\ receipt.ledger \in {receipt.reply - 1, receipt.reply}
        /\ receipt.ledger <= price
        /\ receipt.reply <= price
        /\ receipt.ledger >= 0

(***************************************************************************)
(* Waiting before cancelling never buys a larger share, at any of the tier *)
(* boundaries, and a cancellation without HALF_NOTICE hours pays nothing.  *)
(***************************************************************************)
WaitingNeverPaysMore ==
    [][ /\ notice' <= notice => RefundPercent(notice') <= RefundPercent(notice)
        /\ receipt' # None /\ notice < HALF_NOTICE * HOUR => receipt'.reply = 0
      ]_vars

(***************************************************************************)
(* A cancellation pays the share the README promises, but for a notice of  *)
(* FULL_NOTICE hours and less than one more: the code floors the notice to *)
(* hours, asks for more than FULL_NOTICE of them and pays half.            *)
(***************************************************************************)
UnderpaidOnlyInOneHour ==
    receipt # None =>
        \/ receipt.percent = Promised(notice)
        \/ InFirstFullHour(notice) /\ receipt.percent = 50
=============================================================================
