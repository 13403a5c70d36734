------------------------------ MODULE MCLogin -------------------------------
(* One console login of one admin whose key is changed, for TLC.           *)
EXTENDS ConsoleGate

One == {[preauth |-> 1, preauthip |-> 1, sessions |-> 1]}

LoginSpec == GateInit /\ [][GateNext]_gateVars
=============================================================================
