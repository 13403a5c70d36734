--------------------------- MODULE ScheduledPurge ---------------------------
(***************************************************************************)
(* Who runs the daily purge.  Hubs are numbered in the order of their      *)
(* uuids; a name or a uuid is its place in the common order of strings:    *)
(* the uuid of hub h is 2 * h, a friendly name anything.  A link's client  *)
(* record holds the friendly name of the peer as its id.                   *)
(***************************************************************************)
EXTENDS Integers, FiniteSets

CONSTANTS
    Hubs,     \* 1 .. N
    Names     \* places a friendly name may have among the strings

VARIABLES
    name,    \* name[h]: what the peers of h call it (p| lines, the hello)
    links,   \* pairs of hubs with an authenticated link
    due,     \* hubs whose last_purge is more than a day old
    led      \* hubs that ran this day's purge, with the links of that moment

vars == <<name, links, due, led>>

Uuid(h) == 2 * h
Peers(h) == {g \in Hubs : {g, h} \in links /\ g # h}

Init ==
    /\ name \in [Hubs -> Names]
    /\ links = {} /\ due = Hubs /\ led = {}

Link(g, h)   == g # h /\ links' = links \cup {{g, h}} /\ UNCHANGED <<name, due, led>>
Unlink(g, h) == {g, h} \in links /\ links' = links \ {{g, h}} /\ UNCHANGED <<name, due, led>>

should_initiate_scheduled_purge(h) == ~\E g \in Peers(h) : name[g] < Uuid(h)

(* maintenance: the day is over; the leader purges.                        *)
maintenance(h) ==
    /\ h \in due
    /\ due' = due \ {h}
    /\ led' = IF should_initiate_scheduled_purge(h) THEN led \cup {<<h, Peers(h)>>} ELSE led
    /\ UNCHANGED <<name, links>>

NewDay == due = {} /\ due' = Hubs /\ led' = {} /\ UNCHANGED <<name, links>>

Next == \/ \E g, h \in Hubs : Link(g, h) \/ Unlink(g, h)
        \/ \E h \in Hubs : maintenance(h)
        \/ NewDay

Spec == Init /\ [][Next]_vars

-----------------------------------------------------------------------------
(* "the hub with the lexicographically smallest UUID in the connected mesh *)
(* leads": whoever purged had the smallest uuid among the hubs it was      *)
(* linked to.                                                              *)
SmallestLeads == \A l \in led : \A g \in l[2] : Uuid(l[1]) < Uuid(g)
=============================================================================
