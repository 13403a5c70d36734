----------------------------- MODULE UpgradeAbs ------------------------------
(***************************************************************************)
(* What a network upgrade promises, whatever the mesh looks like: a run    *)
(* asks, moves nodes, and ends once.  A node changes its build only when   *)
(* the run has granted it the move, goes back only when the run is aborted *)
(* or its own watchdog gives the new build up, and is counted as moved     *)
(* only when it was; hubs move one at a time with nothing else in flight,  *)
(* and the hub that drives the run moves last.                             *)
(*                                                                         *)
(* A granted hub that kept the build of an earlier upgrade may be taken    *)
(* back to that one by an aborted run: the hub does not look whether it    *)
(* had moved.                                                              *)
(***************************************************************************)
EXTENDS Naturals, FiniteSets

CONSTANTS Hubs, Bots, Driver,
          Flaky,   \* nodes whose new build may not stay up
          Retained, \* hubs that kept the build of an earlier upgrade
          Wave     \* bots that may be moving at once

VARIABLES stage,   \* of the run
          granted, \* nodes told to move
          flight,  \* of these, the ones not yet heard from
          counted, \* nodes the run counts as moved
          build    \* what each node runs

Nodes == Hubs \cup Bots
avars == <<stage, granted, flight, counted, build>>

AInit == /\ stage = "idle" /\ granted = {} /\ flight = {} /\ counted = {}
         /\ build = [n \in Nodes |-> "old"]

(* Nodes answer or are given up; one that moved may be counted.            *)
Heard(rest) ==
    /\ rest \subseteq flight
    /\ counted' \subseteq counted \cup {n \in flight \ rest :
                                  build[n] = "new" \/ n \in Flaky \/ stage = "aborted"}

Ask  == stage = "idle" /\ stage' = "asking" /\ UNCHANGED <<granted, flight, counted, build>>
Open == stage = "asking" /\ stage' = "moving" /\ UNCHANGED <<granted, flight, counted, build>>

(* A wave of bots, or one hub with nothing in flight.                      *)
Grant ==
    LET S == granted' \ granted
    IN  /\ stage = "moving" /\ S # {} /\ granted \subseteq granted'
        /\ S \subseteq flight' /\ Heard(flight' \ S)
        /\ \/ flight' \subseteq Bots /\ Cardinality(flight') <= Wave
           \/ \E h \in Hubs \ {Driver} : flight' = {h}
        /\ UNCHANGED <<stage, build>>

(* The driver grants itself last, and with that the run is over.           *)
Last ==
    /\ stage = "moving" /\ Driver \notin granted
    /\ stage' = "done" /\ granted' = granted \cup {Driver}
    /\ Heard({}) /\ flight' \subseteq {Driver}
    /\ build' \in {build, [build EXCEPT ![Driver] = "new"]}

Settle == Heard(flight') /\ UNCHANGED <<stage, granted, build>>
Finish == /\ stage \in {"asking", "moving"} /\ stage' = "done" /\ flight' = {} /\ Heard({})
          /\ UNCHANGED <<granted, build>>
Abort  == stage \in {"asking", "moving"} /\ stage' = "aborted" /\ Heard(flight') /\ UNCHANGED <<granted, build>>
Lose   == /\ stage \in {"asking", "moving"} /\ stage' = "lost" /\ flight' = {} /\ counted' = {}
          /\ UNCHANGED <<granted, build>>

Move(n) == /\ n \in granted /\ build[n] # "new" /\ build' = [build EXCEPT ![n] = "new"]
           /\ UNCHANGED <<stage, granted, flight, counted>>
Back(n) == /\ n \in granted /\ build[n] = "new" /\ (stage = "aborted" \/ n \in Flaky)
           /\ build' = [build EXCEPT ![n] = "old"]
           /\ UNCHANGED <<stage, granted, flight, counted>>
FarBack(n) == /\ n \in granted \cap Hubs \cap Retained /\ stage = "aborted"
              /\ build' = [build EXCEPT ![n] = "older"]
              /\ UNCHANGED <<stage, granted, flight, counted>>

ANext == \/ Ask \/ Open \/ Grant \/ Last \/ Settle \/ Finish \/ Abort \/ Lose
         \/ \E n \in Nodes : Move(n) \/ Back(n) \/ FarBack(n)

ASpec == AInit /\ [][ANext]_avars
=============================================================================
