------------------------------ MODULE MCLedger ------------------------------
(* Ledger on two agents; amounts below, at and above the half cent, whole   *)
(* cents, and a negative one.                                               *)
EXTENDS Ledger

MCCaps    == {0, 20, 30}
MCAmounts == {-10, 4, 5, 10, 15, 16, 20}
=============================================================================
