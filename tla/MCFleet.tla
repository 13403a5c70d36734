------------------------------- MODULE MCFleet ------------------------------
(***************************************************************************)
(* What a hub knows of the nodes of its network, and how it brings them to *)
(* a release, for TLC: the gossip of module Roster and the plan and the    *)
(* roll-up of module Rollout, a behaviour being one of either.             *)
(***************************************************************************)
EXTENDS Rollout, Roster, OutQueue, TLC

CONSTANTS b1, b2, g

Tree == [bot |-> 1 :> 0 @@ 2 :> 1 @@ 3 :> 2, hub |-> 1 :> 0 @@ 2 :> 1]
From == [n \in {b1, b2, g, Driver} |-> 1]
Asks == {[bot |-> 3, hub |-> 2], [bot |-> 2, hub |-> 0]}

(* A ring of three hubs and one more beside the origin, whose roster has   *)
(* room for one bot only.                                                  *)
Ring == {{"o", "a"}, {"o", "c"}, {"a", "c"}, {"o", "d"}}
TwoBots == <<"p", "q">>
SyncPending == (RHubs \X {"p", "q"}) \ {<<"a", "q">>}
Rows == [h \in RHubs |-> IF h = "d" THEN 1 ELSE 2]

(* The second change of a config undoes the first; contents grow.          *)
Undone   == [v \in Versions |-> IF v = 1 THEN 1 ELSE 0]
Growing  == [c \in 0 .. MaxVersion |-> c + 1]

VARIABLE part
fleetVars == <<part, rolVars, rosVars, oqVars>>

FleetInit ==
    /\ part \in {"rollout", "roster", "queue"} /\ RolInit /\ RosInit /\ OqInit
FleetNext ==
    \/ part = "rollout" /\ RolNext /\ UNCHANGED <<part, rosVars, oqVars>>
    \/ part = "roster" /\ RosNext /\ UNCHANGED <<part, rolVars, oqVars>>
    \/ part = "queue" /\ OqNext /\ UNCHANGED <<part, rolVars, rosVars>>

(* The main loop handles what arrives and runs its maintenance; OqFairness.*)
FleetSpec ==
    /\ FleetInit /\ [][FleetNext]_fleetVars
    /\ WF_rolVars(part = "rollout" /\ Handled) /\ WF_rolVars(part = "rollout" /\ plan_tick)
    /\ WF_rolVars(part = "rollout" /\ Walked)
    /\ WF_rolVars(part = "rollout" /\ rollup_scan_hubs)
    /\ WF_oqVars(part = "queue" /\ flush_bot_config) /\ WF_oqVars(part = "queue" /\ Second)
    /\ WF_oqVars(part = "queue" /\ BotReceives) /\ WF_oqVars(part = "queue" /\ Reconnect)
    /\ WF_oqVars(part = "queue" /\ (\E n \in 0 .. Len(Order) : drain_writable(n, "all")) /\ UNCHANGED events)
    /\ WF_oqVars(part = "queue" /\ dead /\ disconnect_client)
    /\ WF_oqVars(part = "queue" /\ \E accepted \in BOOLEAN : process_bot_config_push(accepted))
=============================================================================
