---------------------------- MODULE MCSettlement ----------------------------
(***************************************************************************)
(* Settlement for TLC: hours of two ticks, the notice tiers of the code,   *)
(* and every price up to 2000 cents together with some around powers of 2. *)
(***************************************************************************)
EXTENDS Settlement

PricesFull == (1 .. 2000) \cup {4095, 4096, 4097, 8191, 10247, 16383, 32767}
=============================================================================
