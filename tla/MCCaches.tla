------------------------------ MODULE MCCaches ------------------------------
(***************************************************************************)
(* Two bookings of one room: the first ends past midnight, the second      *)
(* starts on the day the first reaches into.  A second room is created     *)
(* while requests are served.                                              *)
(***************************************************************************)
EXTENDS Caches, TLC

CONSTANTS late, early

DeskOnly == [b \in {late, early} |-> 1]
DeskAndLoft == [b \in {late, early} |-> IF b = late THEN 1 ELSE 2]
Starts == [b \in {late, early} |-> IF b = late THEN 1 ELSE 2]
Lasts == [b \in {late, early} |-> 2]
OneRange == {<<1, 2>>}
TwoRanges == {<<1, 1>>, <<1, 2>>}
AllWrites == {"create", "cancel"} \X {late, early}
ThreeWrites == AllWrites \ {<<"cancel", early>>}
FirstDay == {<<1, 1, "iso">>}
BothDays == {1, 2} \X {1, 2} \X {"iso"}
=============================================================================
