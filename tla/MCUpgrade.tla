------------------------------ MODULE MCUpgrade ------------------------------
(* Instances of Upgrade for TLC.                                           *)
EXTENDS Upgrade, TLC

CONSTANTS d, h1, h2, b0, b1

Chain    == {{d, h1}, {h1, h2}}
OneEach  == b0 :> d @@ b1 :> h1
FarBot   == b1 :> h1
Conns    == <<b0, h1>>
Conns1   == <<h1>>
FirstHub == {{d, h1}, {h1, h2}, h1}
Remote == {h1, h2, b1}
Runs == {{}, Remote}
Faults == {} :> 0 @@ Remote :> 1
Whole == {{}}
NoFaults == {} :> 0
=============================================================================
