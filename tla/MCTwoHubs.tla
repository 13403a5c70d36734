------------------------------ MODULE MCTwoHubs -----------------------------
(***************************************************************************)
(* Two hubs, for TLC: two that are to link up, or two that are linked and  *)
(* whose admins are removed; a behaviour is one of either.                 *)
(***************************************************************************)
EXTENDS PeerLink, AdminFloor

CONSTANTS h1, h2, x, y

Pair  == {{h1, h2}}
Even  == [h \in Hubs |-> 0]

VARIABLE part
twoVars == <<part, plVars, vars>>

Up == [by |-> 1, end |-> [h \in Sides |-> "open"], hello |-> FALSE]

TwoInit ==
    /\ Init
    /\ \/ part = "link" /\ PlInit
       \/ /\ part = "floor" /\ fd = [h \in Sides |-> 1] /\ fails = 0
          /\ conn = [s \in Slots |-> IF s = 1 THEN Up ELSE [Up EXCEPT !.end = [h \in Sides |-> "closed"]]]
TwoNext ==
    \/ part = "link" /\ PlNext /\ UNCHANGED <<part, vars>>
    \/ part = "floor" /\ Next /\ UNCHANGED <<part, plVars>>

(* The fairness of PeerLink and of AdminFloor, each in its behaviours.     *)
LinkStep(a) == part = "link" /\ a /\ UNCHANGED <<part, vars>>
FloorStep(a) == part = "floor" /\ a /\ UNCHANGED <<part, plVars>>
TwoSpec ==
    /\ TwoInit /\ [][TwoNext]_twoVars
    /\ \A h \in Sides : WF_twoVars(LinkStep(check_peers(h)))
    /\ \A s \in Slots :
         /\ WF_twoVars(LinkStep(accept_one(s))) /\ WF_twoVars(LinkStep(finish_dials(s)))
         /\ WF_twoVars(LinkStep(handle_hubv3(s)))
         /\ \A h \in Sides : WF_twoVars(LinkStep(read_one(s, h)))
    /\ \A g, h \in Hubs : WF_twoVars(FloorStep(process_peer_sync(g, h))) /\ WF_twoVars(FloorStep(LinkUp(g, h)))
=============================================================================
