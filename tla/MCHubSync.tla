----------------------------- MODULE MCHubSync -----------------------------
(* Instances of HubSync for TLC.                                           *)
EXTENDS HubSync, TLC

CONSTANTS a, b, c, x

Swap     == Permutations({a, c})

Pair     == {{a, b}}
Triangle == {{a, b}, {b, c}, {a, c}}
Line     == {{a, b}, {b, c}}
KindB    == [r \in Recs |-> "B"]
KindC    == [r \in Recs |-> "c"]
NoSkew   == [h \in Hubs |-> 0]
SkewA    == [h \in Hubs |-> IF h = a THEN 1 ELSE 0]
=============================================================================
