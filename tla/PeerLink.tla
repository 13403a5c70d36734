------------------------------ MODULE PeerLink ------------------------------
(***************************************************************************)
(* The link between two hubs that both dial: non-blocking connects, the    *)
(* HUBv3 hello, the tie-break when each side already has a link, and the   *)
(* reaping of the losers on their EOF.  Hubs are numbered in the order of  *)
(* their uuids.  A slot is one TCP connection; it is free again once both  *)
(* ends are closed.                                                        *)
(***************************************************************************)
EXTENDS Integers, FiniteSets

CONSTANTS
    Slots,     \* connections that may exist at once
    MaxFails   \* bound: failed connects, timed-out ends and restarts

ASSUME PeerLinkAssumption ==
    /\ Slots \subseteq Nat \ {0} /\ IsFiniteSet(Slots)
    /\ MaxFails \in Nat

VARIABLES
    conn,   \* conn[s]: who dialled it, both ends, the hello on its way
    fd,     \* fd[h]: the slot of the peer record (connected), 0 if none
    fails   \* failures so far

plVars == <<conn, fd, fails>>

Sides == {1, 2}
Other(h) == 3 - h

(* An end: "none" not accepted yet, "dialing", "preauth" accepted and not  *)
(* authenticated, "open" an authenticated peer, "shut" superseded and shut *)
(* down, "closed".                                                         *)
End  == {"none", "dialing", "preauth", "open", "shut", "closed"}
Conn == [by : Sides, end : [Sides -> End], hello : BOOLEAN]

Free(s) == \A h \in Sides : conn[s].end[h] = "closed"
OpenAt(h) == {s \in Slots : conn[s].end[h] = "open"}

PlTypeOK ==
    /\ conn \in [Slots -> Conn]
    /\ fd \in [Sides -> Slots \cup {0}]
    /\ fails \in 0 .. MaxFails

PlInit ==
    /\ conn = [s \in Slots |->
                 [by |-> 1, end |-> [h \in Sides |-> "closed"], hello |-> FALSE]]
    /\ fd = [h \in Sides |-> 0]
    /\ fails = 0

(* check_peers: dial a peer that is neither linked nor being dialled.      *)
check_peers(h) ==
    /\ fd[h] = 0
    /\ \A s \in Slots : ~(conn[s].by = h /\ conn[s].end[h] = "dialing")
    /\ \E s \in Slots :
         /\ Free(s)
         /\ \A r \in Slots : r < s => ~Free(r)
         /\ conn' = [conn EXCEPT ![s] =
                       [by |-> h, hello |-> FALSE,
                        end |-> [g \in Sides |-> IF g = h THEN "dialing" ELSE "none"]]]
    /\ UNCHANGED <<fd, fails>>

accept_one(s) ==
    LET g == Other(conn[s].by)
    IN  /\ conn[s].end[g] = "none"
        /\ conn' = [conn EXCEPT ![s].end[g] = "preauth"]
        /\ UNCHANGED <<fd, fails>>

(* Mutant: a finished dial does not look whether the peer linked first.    *)
finish_dialsBlindly(s) ==
    LET h == conn[s].by
    IN  /\ conn[s].end[h] = "dialing"
        /\ conn' = [conn EXCEPT ![s].end[h] = "open", ![s].hello = TRUE]
        /\ fd' = [fd EXCEPT ![h] = s]
        /\ UNCHANGED fails

(* finish_dials: not needed any more, or peer_handshake: the dialler takes *)
(* itself for linked as soon as its hello is written.                      *)
finish_dials(s) ==
    LET h == conn[s].by
    IN  /\ conn[s].end[h] = "dialing"
        /\ IF fd[h] # 0
           THEN conn' = [conn EXCEPT ![s].end[h] = "closed"] /\ UNCHANGED fd
           ELSE /\ conn' = [conn EXCEPT ![s].end[h] = "open", ![s].hello = TRUE]
                /\ fd' = [fd EXCEPT ![h] = s]
        /\ UNCHANGED fails

(* Mutants: the dial of the other side always wins; the dial of the lower  *)
(* uuid never replaces.                                                    *)
KeepNewAlways(s, old, g) == TRUE
KeepNewReconnect(s, old, g) == old # 0 => conn[old].by # g

(* peer_link_tie at hub g, when the peer dialled s while g has link old.   *)
KeepNew(s, old, g) ==
    \/ old = 0
    \/ conn[old].by # g          \* inbound: the peer reconnects
    \/ conn[s].by < g            \* the lower uuid's dial stays

(* handle_hubv3: the hello arrives (its sender may be gone already).       *)
handle_hubv3(s) ==
    LET g   == Other(conn[s].by)
        old == fd[g]
    IN  /\ conn[s].end[g] = "preauth" /\ conn[s].hello
        /\ IF KeepNew(s, old, g)
           THEN /\ conn' = [t \in Slots |->
                     IF t = s THEN [conn[s] EXCEPT !.end[g] = "open", !.hello = FALSE]
                     ELSE IF t = old THEN [conn[t] EXCEPT !.end[g] = "shut"]
                     ELSE conn[t]]
                /\ fd' = [fd EXCEPT ![g] = s]
           ELSE /\ conn' = [conn EXCEPT ![s].end[g] = "closed", ![s].hello = FALSE]
                /\ UNCHANGED fd
        /\ UNCHANGED fails

(* Mutant: any end that goes unlinks the peer.                             *)
CloseAnyEnd(s, h) ==
    /\ conn' = [conn EXCEPT ![s].end[h] = "closed"]
    /\ fd' = [fd EXCEPT ![h] = 0]

(* disconnect_client: the peer is unlinked only if this was its link.      *)
Close(s, h) ==
    /\ conn' = [conn EXCEPT ![s].end[h] = "closed"]
    /\ fd' = IF fd[h] = s THEN [fd EXCEPT ![h] = 0] ELSE fd

(* The reader finds EOF: its own end was shut down, or the other end went  *)
(* away and everything sent before that is read.                           *)
read_one(s, h) ==
    /\ \/ conn[s].end[h] = "shut"
       \/ /\ conn[s].end[h] \in {"preauth", "open"}
          /\ conn[s].end[Other(h)] \in {"shut", "closed"}
          /\ conn[s].hello => conn[s].by = h
    /\ Close(s, h)
    /\ UNCHANGED fails

(* Timeouts of the maintenance scan, failed connects and writes.           *)
Fail(s, h) ==
    /\ fails < MaxFails
    /\ conn[s].end[h] \in {"dialing", "preauth", "open"}
    /\ Close(s, h)
    /\ fails' = fails + 1

(* A hub dies: its kernel closes every end.                                *)
Reboot(h) ==
    /\ fails < MaxFails
    /\ conn' = [s \in Slots |-> [conn[s] EXCEPT !.end[h] = "closed"]]
    /\ fd' = [fd EXCEPT ![h] = 0]
    /\ fails' = fails + 1

PlNext ==
    \/ \E h \in Sides : check_peers(h) \/ Reboot(h)
    \/ \E s \in Slots :
         \/ accept_one(s) \/ finish_dials(s) \/ handle_hubv3(s)
         \/ \E h \in Sides : read_one(s, h) \/ Fail(s, h)

(* Poll loop and maintenance tick: connects finish, hellos and EOFs are    *)
(* read, unlinked peers are dialled again.                                 *)
PlFairness ==
    /\ \A h \in Sides : WF_plVars(check_peers(h))
    /\ \A s \in Slots :
         /\ WF_plVars(accept_one(s)) /\ WF_plVars(finish_dials(s)) /\ WF_plVars(handle_hubv3(s))
         /\ \A h \in Sides : WF_plVars(read_one(s, h))

PlSpec == PlInit /\ [][PlNext]_plVars /\ PlFairness

-----------------------------------------------------------------------------
(* Properties                                                              *)

(* The peer record always names the one authenticated link: a hub never    *)
(* has two, and never forgets one it has.                                  *)
OneLink == \A h \in Sides : OpenAt(h) = {fd[h]} \ {0}

Settled(s) == \A h \in Sides : fd[h] = s /\ conn[s].end[h] = "open"

(* Without failures a link both hubs use is never given up for another.    *)
Stays == [][\A s \in Slots : Settled(s) /\ fails = 0 /\ fails' = 0 => Settled(s)']_plVars

(* Once failures are over, both hubs keep the same one link for good,      *)
(* whoever dialled first.                                                  *)
BothLink == <>[](\E s \in Slots : Settled(s))
=============================================================================
