---------------------------- MODULE PeerLinkProofs ----------------------------
(***************************************************************************)
(* OneLink and Stays for any number of connections and failures.           *)
(***************************************************************************)
EXTENDS PeerLink, TLAPS

(* OneLink by the slot: an end is an open link exactly where the peer      *)
(* record points.                                                          *)
Points == \A h \in Sides : \A s \in Slots : conn[s].end[h] = "open" <=> fd[h] = s

LEMMA HubFacts == \A h \in Sides : Other(h) \in Sides /\ Other(h) # h
BY DEF Sides, Other

LEMMA PointsOneLink == PlTypeOK /\ Points => OneLink
<1> SUFFICES ASSUME PlTypeOK, Points, NEW h \in Sides
             PROVE  OpenAt(h) = {fd[h]} \ {0}
  BY DEF OneLink
<1>1. fd[h] \in Slots \cup {0} /\ 0 \notin Slots
  BY PeerLinkAssumption DEF PlTypeOK
<1> QED BY <1>1 DEF Points, OpenAt

(* The connections once one end of one slot, and its hello, changed.       *)
WithEnd(s, h, v) == [conn EXCEPT ![s].end[h] = v]
WithHello(s, h, v) == [conn EXCEPT ![s].end[h] = v, ![s].hello = (v = "open")]

(* A step that changes one end of one slot keeps the type.                 *)
LEMMA SetEnd ==
    ASSUME PlTypeOK, NEW s \in Slots, NEW h \in Sides, NEW v \in End
    PROVE  /\ WithEnd(s, h, v) \in [Slots -> Conn]
           /\ \A t \in Slots : \A g \in Sides :
                WithEnd(s, h, v)[t].end[g] = IF t = s /\ g = h THEN v ELSE conn[t].end[g]
<1>1. conn \in [Slots -> Conn] /\ conn[s] \in Conn /\ conn[s].end \in [Sides -> End]
  BY DEF PlTypeOK, Conn
<1> DEFINE c == [conn[s] EXCEPT !.end = [conn[s].end EXCEPT ![h] = v]]
<1>2. [conn[s].end EXCEPT ![h] = v] \in [Sides -> End]
  BY <1>1
<1>3. c \in Conn /\ c.end = [conn[s].end EXCEPT ![h] = v]
  BY <1>1, <1>2 DEF Conn
<1>4. WithEnd(s, h, v) = [conn EXCEPT ![s] = c]
  BY <1>1 DEF WithEnd
<1> HIDE DEF c
<1> QED BY <1>1, <1>3, <1>4

(* The same where the hello is written or taken off as well.               *)
LEMMA SetEndHello ==
    ASSUME PlTypeOK, NEW s \in Slots, NEW h \in Sides, NEW v \in End
    PROVE  /\ WithHello(s, h, v) \in [Slots -> Conn]
           /\ \A t \in Slots : \A g \in Sides :
                WithHello(s, h, v)[t].end[g] = IF t = s /\ g = h THEN v ELSE conn[t].end[g]
<1>1. conn \in [Slots -> Conn] /\ conn[s] \in Conn /\ conn[s].end \in [Sides -> End]
  BY DEF PlTypeOK, Conn
<1> DEFINE c == [conn[s] EXCEPT !.end = [conn[s].end EXCEPT ![h] = v], !.hello = (v = "open")]
<1>2. [conn[s].end EXCEPT ![h] = v] \in [Sides -> End]
  BY <1>1
<1>3. c \in Conn /\ c.end = [conn[s].end EXCEPT ![h] = v]
  BY <1>1, <1>2 DEF Conn
<1>4. WithHello(s, h, v) = [conn EXCEPT ![s] = c]
  BY <1>1 DEF WithHello
<1> HIDE DEF c
<1> QED BY <1>1, <1>3, <1>4

(* Giving up an end, and the record with it where it was the link.         *)
LEMMA CloseInv ==
    ASSUME PlTypeOK, Points, NEW s \in Slots, NEW h \in Sides, Close(s, h), fails' \in 0 .. MaxFails
    PROVE  PlTypeOK' /\ Points'
<1>1. 0 \notin Slots /\ "closed" \in End /\ fd \in [Sides -> Slots \cup {0}]
  BY PeerLinkAssumption DEF End, PlTypeOK
<1>2. conn' \in [Slots -> Conn] /\ \A t \in Slots : \A g \in Sides :
        conn'[t].end[g] = IF t = s /\ g = h THEN "closed" ELSE conn[t].end[g]
  <2>1. conn' = WithEnd(s, h, "closed")
    BY DEF Close, WithEnd
  <2> QED BY <2>1, <1>1, SetEnd
<1>3. fd' \in [Sides -> Slots \cup {0}]
  BY <1>1 DEF Close
<1>4. Points'
  <2> SUFFICES ASSUME NEW g \in Sides, NEW t \in Slots PROVE (conn'[t].end[g] = "open") <=> (fd'[g] = t)
    BY DEF Points
  <2>1. CASE t = s /\ g = h
    BY <2>1, <1>1, <1>2 DEF Close
  <2>2. CASE ~(t = s /\ g = h)
    BY <2>2, <1>1, <1>2 DEF Close, Points
  <2> QED BY <2>1, <2>2
<1> QED BY <1>2, <1>3, <1>4 DEF PlTypeOK

(* Every step keeps the records pointing at the open links.                *)
LEMMA StepInv == PlTypeOK /\ Points /\ [PlNext]_plVars => PlTypeOK' /\ Points'
<1> SUFFICES ASSUME PlTypeOK, Points, [PlNext]_plVars PROVE PlTypeOK' /\ Points'
  OBVIOUS
<1>t. /\ conn \in [Slots -> Conn] /\ fd \in [Sides -> Slots \cup {0}] /\ fails \in 0 .. MaxFails
      /\ 0 \notin Slots /\ MaxFails \in Nat
      /\ {"none", "dialing", "preauth", "open", "shut", "closed"} = End
  BY PeerLinkAssumption DEF PlTypeOK, End
<1>0. CASE UNCHANGED plVars
  BY <1>0 DEF plVars, PlTypeOK, Points
<1>1. ASSUME NEW h \in Sides, check_peers(h) PROVE PlTypeOK' /\ Points'
  <2>1. PICK s \in Slots :
          /\ Free(s)
          /\ conn' = [conn EXCEPT ![s] =
                        [by |-> h, hello |-> FALSE,
                         end |-> [g \in Sides |-> IF g = h THEN "dialing" ELSE "none"]]]
    BY <1>1 DEF check_peers
  <2> DEFINE c == [by |-> h, hello |-> FALSE,
                   end |-> [g \in Sides |-> IF g = h THEN "dialing" ELSE "none"]]
  <2>2. c \in Conn /\ \A g \in Sides : c.end[g] # "open"
    BY <1>t DEF Conn
  <2>3. conn' = [conn EXCEPT ![s] = c] /\ UNCHANGED <<fd, fails>>
    BY <2>1, <1>1 DEF check_peers
  <2>4. \A g \in Sides : conn[s].end[g] # "open"
    BY <2>1 DEF Free
  <2> HIDE DEF c
  <2>5. Points'
    BY <2>2, <2>3, <2>4, <1>t DEF Points
  <2> QED BY <2>2, <2>3, <2>5, <1>t DEF PlTypeOK
<1>2. ASSUME NEW s \in Slots, accept_one(s) PROVE PlTypeOK' /\ Points'
  <2> DEFINE g == Other(conn[s].by)
  <2>1. g \in Sides /\ conn[s].end[g] = "none"
    BY <1>2, <1>t, HubFacts DEF accept_one, Conn
  <2>2. conn' = [conn EXCEPT ![s].end[g] = "preauth"] /\ UNCHANGED <<fd, fails>>
    BY <1>2 DEF accept_one
  <2> HIDE DEF g
  <2>3. conn' \in [Slots -> Conn] /\ \A t \in Slots : \A k \in Sides :
          conn'[t].end[k] = IF t = s /\ k = g THEN "preauth" ELSE conn[t].end[k]
    <3>1. conn' = WithEnd(s, g, "preauth")
      BY <2>2 DEF WithEnd
    <3> QED BY <3>1, <2>1, <1>t, SetEnd
  <2>4. Points'
    BY <2>1, <2>2, <2>3 DEF Points
  <2> QED BY <2>2, <2>3, <2>4 DEF PlTypeOK
<1>3. ASSUME NEW s \in Slots, finish_dials(s) PROVE PlTypeOK' /\ Points'
  <2> DEFINE h == conn[s].by
  <2>1. h \in Sides /\ conn[s].end[h] = "dialing" /\ fails' = fails
    BY <1>3, <1>t DEF finish_dials, Conn
  <2>2. CASE fd[h] # 0
    <3>1. conn' = [conn EXCEPT ![s].end[h] = "closed"] /\ fd' = fd
      BY <2>2, <1>3 DEF finish_dials
    <3> HIDE DEF h
    <3>2. conn' \in [Slots -> Conn] /\ \A t \in Slots : \A k \in Sides :
            conn'[t].end[k] = IF t = s /\ k = h THEN "closed" ELSE conn[t].end[k]
      <4>1. conn' = WithEnd(s, h, "closed")
        BY <3>1 DEF WithEnd
      <4> QED BY <4>1, <2>1, <1>t, SetEnd
    <3>3. Points'
      BY <2>1, <3>1, <3>2 DEF Points
    <3> QED BY <2>1, <3>1, <3>2, <3>3 DEF PlTypeOK
  <2>3. CASE fd[h] = 0
    <3>1. conn' = [conn EXCEPT ![s].end[h] = "open", ![s].hello = TRUE] /\ fd' = [fd EXCEPT ![h] = s]
      BY <2>3, <1>3 DEF finish_dials
    <3> HIDE DEF h
    <3>2. conn' \in [Slots -> Conn] /\ \A t \in Slots : \A k \in Sides :
            conn'[t].end[k] = IF t = s /\ k = h THEN "open" ELSE conn[t].end[k]
      <4>1. conn' = WithHello(s, h, "open")
        BY <3>1 DEF WithHello
      <4> QED BY <4>1, <2>1, <1>t, SetEndHello
    <3>3. Points'
      <4> SUFFICES ASSUME NEW k \in Sides, NEW t \in Slots PROVE (conn'[t].end[k] = "open") <=> (fd'[k] = t)
        BY DEF Points
      <4>1. (conn[t].end[k] = "open") <=> (fd[k] = t)
        BY DEF Points
      <4> QED BY <4>1, <2>1, <2>3, <3>1, <3>2, <1>t
    <3> QED BY <2>1, <3>1, <3>2, <3>3, <1>t DEF PlTypeOK
  <2> QED BY <2>2, <2>3
<1>4. ASSUME NEW s \in Slots, handle_hubv3(s) PROVE PlTypeOK' /\ Points'
  <2> DEFINE g == Other(conn[s].by)
             old == fd[g]
  <2>1. g \in Sides /\ conn[s].end[g] = "preauth" /\ fails' = fails /\ old \in Slots \cup {0}
    BY <1>4, <1>t, HubFacts DEF handle_hubv3, Conn
  <2>2. CASE KeepNew(s, old, g)
    <3>1. /\ conn' = [t \in Slots |->
                IF t = s THEN [conn[s] EXCEPT !.end[g] = "open", !.hello = FALSE]
                ELSE IF t = old THEN [conn[t] EXCEPT !.end[g] = "shut"]
                ELSE conn[t]]
          /\ fd' = [fd EXCEPT ![g] = s]
      BY <2>2, <1>4 DEF handle_hubv3
    <3> HIDE DEF g, old
    <3>2. \A t \in Slots : conn'[t] \in Conn /\ \A k \in Sides :
            conn'[t].end[k] = IF t = s /\ k = g THEN "open"
                              ELSE IF t = old /\ k = g THEN "shut" ELSE conn[t].end[k]
      <4> SUFFICES ASSUME NEW t \in Slots
                   PROVE  conn'[t] \in Conn /\ \A k \in Sides :
                            conn'[t].end[k] = IF t = s /\ k = g THEN "open"
                                              ELSE IF t = old /\ k = g THEN "shut" ELSE conn[t].end[k]
        OBVIOUS
      <4>1. conn[t] \in Conn /\ conn[t].end \in [Sides -> End]
        BY <1>t DEF Conn
      <4>2. /\ [conn[t].end EXCEPT ![g] = "open"] \in [Sides -> End]
            /\ [conn[t].end EXCEPT ![g] = "shut"] \in [Sides -> End]
        BY <4>1, <1>t
      <4>3. CASE t = s
        <5>1. conn'[t] = [conn[t] EXCEPT !.end = [conn[t].end EXCEPT ![g] = "open"], !.hello = FALSE]
          BY <4>3, <3>1
        <5>2. conn'[t] \in Conn /\ conn'[t].end = [conn[t].end EXCEPT ![g] = "open"]
          BY <5>1, <4>1, <4>2 DEF Conn
        <5> QED BY <5>2, <4>1, <4>3, <2>1
      <4>4. CASE t # s /\ t = old
        <5>1. conn'[t] = [conn[t] EXCEPT !.end = [conn[t].end EXCEPT ![g] = "shut"]]
          BY <4>4, <3>1
        <5>2. conn'[t] \in Conn /\ conn'[t].end = [conn[t].end EXCEPT ![g] = "shut"]
          BY <5>1, <4>1, <4>2 DEF Conn
        <5> QED BY <5>2, <4>1, <4>4, <2>1
      <4>5. CASE t # s /\ t # old
        BY <4>1, <4>5, <3>1
      <4> QED BY <4>3, <4>4, <4>5
    <3>3. Points'
      <4> SUFFICES ASSUME NEW k \in Sides, NEW t \in Slots PROVE (conn'[t].end[k] = "open") <=> (fd'[k] = t)
        BY DEF Points
      <4>1. (conn[t].end[k] = "open") <=> (fd[k] = t)
        BY DEF Points
      <4>2. CASE k # g
        BY <4>1, <4>2, <2>1, <3>1, <3>2, <1>t
      <4>3. CASE k = g
        <5>1. fd'[k] = s
          BY <4>3, <2>1, <3>1, <1>t
        <5>2. CASE t = s
          BY <5>1, <5>2, <4>3, <3>2, <2>1
        <5>3. CASE t # s
          <6>1. conn[t].end[k] = "open" => t = old
            BY <4>1, <4>3 DEF old
          <6>2. conn'[t].end[k] # "open"
            BY <6>1, <5>3, <4>3, <3>2, <2>1
          <6> QED BY <6>2, <5>1, <5>3
        <5> QED BY <5>2, <5>3
      <4> QED BY <4>2, <4>3
    <3>4. conn' \in [Slots -> Conn]
      BY <3>1, <3>2
    <3> QED BY <2>1, <3>1, <3>3, <3>4, <1>t DEF PlTypeOK
  <2>3. CASE ~KeepNew(s, old, g)
    <3>1. conn' = [conn EXCEPT ![s].end[g] = "closed", ![s].hello = FALSE] /\ fd' = fd
      BY <2>3, <1>4 DEF handle_hubv3
    <3> HIDE DEF g, old
    <3>2. conn' \in [Slots -> Conn] /\ \A t \in Slots : \A k \in Sides :
            conn'[t].end[k] = IF t = s /\ k = g THEN "closed" ELSE conn[t].end[k]
      <4>1. conn' = WithHello(s, g, "closed")
        BY <3>1 DEF WithHello
      <4> QED BY <4>1, <2>1, <1>t, SetEndHello
    <3>3. Points'
      BY <2>1, <3>1, <3>2 DEF Points
    <3> QED BY <2>1, <3>1, <3>2, <3>3 DEF PlTypeOK
  <2> QED BY <2>2, <2>3
<1>5. ASSUME NEW s \in Slots, NEW h \in Sides, read_one(s, h) PROVE PlTypeOK' /\ Points'
  BY <1>5, <1>t, CloseInv DEF read_one
<1>6. ASSUME NEW s \in Slots, NEW h \in Sides, Fail(s, h) PROVE PlTypeOK' /\ Points'
  <2>1. fails' \in 0 .. MaxFails
    BY <1>6, <1>t DEF Fail
  <2> QED BY <2>1, <1>6, CloseInv DEF Fail
<1>7. ASSUME NEW h \in Sides, Reboot(h) PROVE PlTypeOK' /\ Points'
  <2>1. /\ conn' = [s \in Slots |-> [conn[s] EXCEPT !.end[h] = "closed"]]
        /\ fd' = [fd EXCEPT ![h] = 0] /\ fails' \in 0 .. MaxFails
    BY <1>7, <1>t DEF Reboot
  <2>2. \A s \in Slots : conn'[s] \in Conn /\ conn'[s].end = [conn[s].end EXCEPT ![h] = "closed"]
    <3> SUFFICES ASSUME NEW s \in Slots
                 PROVE  conn'[s] \in Conn /\ conn'[s].end = [conn[s].end EXCEPT ![h] = "closed"]
      OBVIOUS
    <3>1. conn[s] \in Conn /\ conn[s].end \in [Sides -> End]
      BY <1>t DEF Conn
    <3>2. [conn[s].end EXCEPT ![h] = "closed"] \in [Sides -> End]
      BY <3>1, <1>t
    <3>3. conn'[s] = [conn[s] EXCEPT !.end = [conn[s].end EXCEPT ![h] = "closed"]]
      BY <2>1
    <3> QED BY <3>1, <3>2, <3>3 DEF Conn
  <2>3. Points'
    <3> SUFFICES ASSUME NEW k \in Sides, NEW t \in Slots PROVE (conn'[t].end[k] = "open") <=> (fd'[k] = t)
      BY DEF Points
    <3>1. (conn[t].end[k] = "open") <=> (fd[k] = t)
      BY DEF Points
    <3>2. conn[t].end \in [Sides -> End]
      BY <1>t DEF Conn
    <3>3. CASE k = h
      <4>1. conn'[t].end[k] = "closed"
        BY <3>2, <3>3, <2>2
      <4>2. fd'[k] = 0
        BY <3>3, <2>1, <1>t
      <4> QED BY <4>1, <4>2, <1>t
    <3>4. CASE k # h
      <4>1. conn'[t].end[k] = conn[t].end[k]
        BY <3>2, <3>4, <2>2
      <4>2. fd'[k] = fd[k]
        BY <3>4, <2>1, <1>t
      <4> QED BY <3>1, <4>1, <4>2
    <3> QED BY <3>3, <3>4
  <2>4. conn' \in [Slots -> Conn]
    BY <2>1, <2>2
  <2> QED BY <2>1, <2>3, <2>4, <1>t DEF PlTypeOK
<1>8. CASE PlNext
  <2>1. CASE \E h \in Sides : check_peers(h) \/ Reboot(h)
    BY <2>1, <1>1, <1>7
  <2>2. CASE \E s \in Slots : \/ accept_one(s) \/ finish_dials(s) \/ handle_hubv3(s)
                              \/ \E h \in Sides : read_one(s, h) \/ Fail(s, h)
    BY <2>2, <1>2, <1>3, <1>4, <1>5, <1>6
  <2> QED BY <1>8, <2>1, <2>2 DEF PlNext
<1> QED BY <1>0, <1>8

(* The peer record names exactly the authenticated link, for any number of *)
(* connections at once, simultaneous dials, failures and restarts:         *)
(* finish_dials, handle_hubv3 and disconnect_client keep them together.    *)
THEOREM OneLinkAlways == PlSpec => []OneLink
<1>1. PlInit => PlTypeOK /\ Points
  <2> SUFFICES ASSUME PlInit PROVE PlTypeOK /\ Points
    OBVIOUS
  <2>1. 0 \notin Slots /\ MaxFails \in Nat
    BY PeerLinkAssumption
  <2> QED BY <2>1 DEF PlInit, PlTypeOK, Points, Conn, End, Sides
<1>2. PlTypeOK /\ Points /\ [PlNext]_plVars => PlTypeOK' /\ Points'
  BY StepInv
<1>3. PlTypeOK /\ Points => OneLink
  BY PointsOneLink
<1> QED BY <1>1, <1>2, <1>3, PTL DEF PlSpec

-----------------------------------------------------------------------------
(* Simultaneous dials without failures.                                    *)

(* As long as nothing has failed: a dial of hub 1, the lower uuid, is kept *)
(* at both ends once its hello is written; a hello of hub 2 that waits at  *)
(* hub 1 is of hub 2's link, unless hub 1's own dial has already won; and  *)
(* what hub 1 took from hub 2, hub 2 still has.                            *)
Won(cs) == \E w \in Slots : cs[w].by = 1 /\ cs[w].end[1] = "open"

CalmSlot(c, won) ==
    /\ c.end[c.by] = "dialing" => ~c.hello /\ c.end[Other(c.by)] \in {"none", "preauth"}
    /\ c.by = 1 => /\ c.hello \/ c.end[2] = "open" => c.end[1] = "open"
                   /\ c.end[1] = "open" => c.end[2] \notin {"shut", "closed"}
    /\ c.by = 2 => /\ c.hello => c.end[1] \in {"none", "preauth"} /\ (c.end[2] = "open" \/ won)
                   /\ c.end[1] = "open" => c.end[2] = "open"

Calm == \A s \in Slots : CalmSlot(conn[s], Won(conn))

(* What a change of one end leaves of the connections.                     *)
LEMMA KeepsRest ==
    ASSUME PlTypeOK, NEW s \in Slots, NEW h \in Sides, NEW v \in End
    PROVE  \A t \in Slots :
             /\ WithEnd(s, h, v)[t].by = conn[t].by /\ WithHello(s, h, v)[t].by = conn[t].by
             /\ WithEnd(s, h, v)[t].hello = conn[t].hello
             /\ WithHello(s, h, v)[t].hello = IF t = s THEN v = "open" ELSE conn[t].hello
<1>1. conn \in [Slots -> Conn] /\ conn[s] \in Conn
  BY DEF PlTypeOK
<1>2. /\ WithEnd(s, h, v) = [conn EXCEPT ![s] = [conn[s] EXCEPT !.end = [conn[s].end EXCEPT ![h] = v]]]
      /\ WithHello(s, h, v) = [conn EXCEPT ![s] = [conn[s] EXCEPT !.end = [conn[s].end EXCEPT ![h] = v],
                                                                  !.hello = (v = "open")]]
  BY <1>1 DEF WithEnd, WithHello
<1> QED BY <1>1, <1>2 DEF Conn

(* One end of slot s became v; hellos are b for s and as before elsewhere. *)
OneEnd(s, h, v, b) ==
    \A t \in Slots :
        /\ conn'[t].by = conn[t].by
        /\ conn'[t].hello = IF t = s THEN b ELSE conn[t].hello
        /\ \A g \in Sides : conn'[t].end[g] = IF t = s /\ g = h THEN v ELSE conn[t].end[g]

LEMMA OneEndPlain ==
    ASSUME PlTypeOK, NEW s \in Slots, NEW h \in Sides, NEW v \in End,
           conn' = [conn EXCEPT ![s].end[h] = v]
    PROVE  OneEnd(s, h, v, conn[s].hello)
<1>1. conn' = WithEnd(s, h, v)
  BY DEF WithEnd
<1>2. \A t \in Slots : conn'[t].by = conn[t].by /\ conn'[t].hello = conn[t].hello
  BY <1>1, KeepsRest
<1>3. \A t \in Slots : \A g \in Sides :
        conn'[t].end[g] = IF t = s /\ g = h THEN v ELSE conn[t].end[g]
  <2>1. \A t \in Slots : \A g \in Sides :
          WithEnd(s, h, v)[t].end[g] = IF t = s /\ g = h THEN v ELSE conn[t].end[g]
    BY SetEnd
  <2> QED BY <1>1, <2>1
<1>4. \A t \in Slots : conn'[t].hello = IF t = s THEN conn[s].hello ELSE conn[t].hello
  BY <1>2, Zenon
<1> QED BY <1>2, <1>3, <1>4, Zenon DEF OneEnd

LEMMA OneEndHello ==
    ASSUME PlTypeOK, NEW s \in Slots, NEW h \in Sides, NEW v \in End, NEW b, b = (v = "open"),
           conn' = [conn EXCEPT ![s].end[h] = v, ![s].hello = b]
    PROVE  OneEnd(s, h, v, b)
<1>1. conn' = WithHello(s, h, v)
  BY DEF WithHello
<1>2. \A t \in Slots : conn'[t].by = conn[t].by
                       /\ conn'[t].hello = IF t = s THEN v = "open" ELSE conn[t].hello
  <2>1. \A t \in Slots : WithHello(s, h, v)[t].by = conn[t].by
                          /\ WithHello(s, h, v)[t].hello = IF t = s THEN v = "open" ELSE conn[t].hello
    BY KeepsRest
  <2> QED BY <1>1, <2>1
<1>3. \A t \in Slots : \A g \in Sides :
        conn'[t].end[g] = IF t = s /\ g = h THEN v ELSE conn[t].end[g]
  <2>1. \A t \in Slots : \A g \in Sides :
          WithHello(s, h, v)[t].end[g] = IF t = s /\ g = h THEN v ELSE conn[t].end[g]
    BY SetEndHello
  <2> QED BY <1>1, <2>1
<1>4. \A t \in Slots : conn'[t].hello = IF t = s THEN b ELSE conn[t].hello
  BY <1>2, Zenon
<1> QED BY <1>2, <1>3, <1>4, Zenon DEF OneEnd

(* Such a step is calm if slot s is, and no dial of hub 1 is given up.     *)
LEMMA OneEndCalm ==
    ASSUME PlTypeOK, Calm, NEW s \in Slots, NEW h \in Sides, NEW v \in End, NEW b \in BOOLEAN,
           OneEnd(s, h, v, b), Won(conn) => Won(conn'), CalmSlot(conn'[s], Won(conn'))
    PROVE  Calm'
<1> SUFFICES ASSUME NEW t \in Slots, t # s PROVE CalmSlot(conn'[t], Won(conn'))
  BY DEF Calm
<1>1. conn[t].by \in {1, 2} /\ Other(1) = 2 /\ Other(2) = 1 /\ Sides = {1, 2}
  BY DEF PlTypeOK, Conn, Sides, Other
<1>2. /\ conn'[t].by = conn[t].by /\ conn'[t].hello = conn[t].hello
      /\ conn'[t].end[1] = conn[t].end[1] /\ conn'[t].end[2] = conn[t].end[2]
  BY <1>1 DEF OneEnd
<1> QED BY <1>1, <1>2 DEF Calm, CalmSlot

LEMMA CalmStep ==
    ASSUME PlTypeOK, Points, Calm, [PlNext]_plVars, fails' = fails
    PROVE  Calm'
<1>t. /\ conn \in [Slots -> Conn] /\ fd \in [Sides -> Slots \cup {0}] /\ fails \in Nat
      /\ 0 \notin Slots
      /\ {"none", "dialing", "preauth", "open", "shut", "closed"} = End
      /\ Sides = {1, 2} /\ Other(1) = 2 /\ Other(2) = 1
  BY PeerLinkAssumption DEF PlTypeOK, End, Sides, Other
<1>b. \A t \in Slots : conn[t].by \in {1, 2} /\ conn[t].hello \in BOOLEAN
                       /\ conn[t].end \in [Sides -> End]
  BY <1>t DEF Conn
<1>0. CASE UNCHANGED plVars
  BY <1>0 DEF plVars, Calm
<1>1. ASSUME NEW h \in Sides, check_peers(h) PROVE Calm'
  <2> DEFINE c == [by |-> h, hello |-> FALSE,
                   end |-> [g \in Sides |-> IF g = h THEN "dialing" ELSE "none"]]
  <2>1. PICK s \in Slots : Free(s) /\ conn' = [conn EXCEPT ![s] = c]
    BY <1>1 DEF check_peers
  <2>2. c.by = h /\ ~c.hello /\ c.end[h] = "dialing" /\ c.end[Other(h)] = "none"
    BY <1>t
  <2>3. conn'[s] = c /\ \A t \in Slots \ {s} : conn'[t] = conn[t]
    BY <2>1, <1>t
  <2>4. conn[s].end[1] = "closed" /\ conn[s].end[2] = "closed"
    BY <2>1, <1>t DEF Free
  <2> HIDE DEF c
  <2>5. \A w \in Slots : conn[w].by = 1 /\ conn[w].end[1] = "open" => conn'[w] = conn[w]
    BY <2>3, <2>4
  <2> SUFFICES ASSUME NEW t \in Slots PROVE CalmSlot(conn'[t], Won(conn'))
    BY DEF Calm
  <2>6. CASE t = s
    BY <2>6, <2>2, <2>3, <1>t DEF CalmSlot
  <2>7. CASE t # s
    BY <2>7, <2>3, <2>5 DEF Calm, CalmSlot, Won
  <2> QED BY <2>6, <2>7
<1>2. ASSUME NEW s \in Slots, accept_one(s) PROVE Calm'
  <2>1. OneEnd(s, Other(conn[s].by), "preauth", conn[s].hello) /\ conn[s].end[Other(conn[s].by)] = "none"
    BY <1>2, <1>b, <1>t, OneEndPlain DEF accept_one
  <2>2. Won(conn) => Won(conn')
    BY <2>1, <1>t DEF Won, OneEnd
  <2>3. CalmSlot(conn'[s], Won(conn'))
    BY <2>1, <2>2, <1>t, <1>b DEF Calm, CalmSlot, OneEnd
  <2> QED BY <2>1, <2>2, <2>3, <1>t, <1>b, OneEndCalm
<1>3. ASSUME NEW s \in Slots, finish_dials(s) PROVE Calm'
  <2> DEFINE h == conn[s].by
  <2>1. h \in Sides /\ conn[s].end[h] = "dialing"
    BY <1>3, <1>b, <1>t DEF finish_dials
  <2>2. CASE fd[h] # 0
    <3>1. OneEnd(s, h, "closed", conn[s].hello)
      BY <2>1, <2>2, <1>3, <1>t, OneEndPlain DEF finish_dials
    <3>2. Won(conn) => Won(conn')
      BY <2>1, <3>1, <1>t DEF Won, OneEnd
    <3>3. CalmSlot(conn'[s], Won(conn'))
      BY <2>1, <3>1, <3>2, <1>t, <1>b DEF Calm, CalmSlot, OneEnd
    <3> QED BY <2>1, <3>1, <3>2, <3>3, <1>t, <1>b, OneEndCalm
  <2>3. CASE fd[h] = 0
    <3>1. OneEnd(s, h, "open", TRUE)
      <4>1. conn' = [conn EXCEPT ![s].end[h] = "open", ![s].hello = TRUE]
        BY <2>3, <1>3 DEF finish_dials
      <4>2. TRUE = ("open" = "open") /\ "open" \in End
        BY <1>t
      <4> HIDE DEF h
      <4> QED BY <2>1, <4>1, <4>2, OneEndHello
    <3>2. Won(conn) => Won(conn')
      BY <2>1, <3>1, <1>t DEF Won, OneEnd
    <3>3. /\ conn'[s].by = conn[s].by /\ conn'[s].end[h] = "open"
          /\ conn'[s].end[Other(h)] = conn[s].end[Other(h)]
      <4>1. /\ conn'[s].by = conn[s].by
            /\ \A k \in Sides : conn'[s].end[k] = IF s = s /\ k = h THEN "open" ELSE conn[s].end[k]
        BY <3>1, Zenon DEF OneEnd
      <4>2. Other(h) \in Sides /\ Other(h) # h
        BY <2>1, HubFacts
      <4> QED BY <2>1, <4>1, <4>2
    <3>4. conn[s].end[Other(h)] \in {"none", "preauth"}
      BY <2>1 DEF Calm, CalmSlot
    <3>5. CalmSlot(conn'[s], Won(conn'))
      BY <2>1, <3>3, <3>4, <1>t, <1>b DEF CalmSlot
    <3> QED BY <2>1, <3>1, <3>2, <3>5, <1>t, <1>b, OneEndCalm
  <2> QED BY <2>2, <2>3
<1>4. ASSUME NEW s \in Slots, handle_hubv3(s) PROVE Calm'
  <2> DEFINE g == Other(conn[s].by)
             old == fd[g]
  <2>1. g \in Sides /\ conn[s].end[g] = "preauth" /\ conn[s].hello /\ old \in Slots \cup {0}
    BY <1>4, <1>b, <1>t DEF handle_hubv3
  <2>2. CASE KeepNew(s, old, g)
    <3>1. /\ conn' = [t \in Slots |->
                IF t = s THEN [conn[s] EXCEPT !.end[g] = "open", !.hello = FALSE]
                ELSE IF t = old THEN [conn[t] EXCEPT !.end[g] = "shut"]
                ELSE conn[t]]
      BY <2>2, <1>4 DEF handle_hubv3
    <3>2. ASSUME NEW t \in Slots
          PROVE  /\ conn'[t].by = conn[t].by
                 /\ conn'[t].hello = IF t = s THEN FALSE ELSE conn[t].hello
                 /\ \A k \in Sides : conn'[t].end[k] =
                      IF t = s /\ k = g THEN "open"
                      ELSE IF t = old /\ k = g THEN "shut" ELSE conn[t].end[k]
      <4> HIDE DEF g, old
      <4>1. conn[t] \in Conn /\ conn[t].end \in [Sides -> End]
        BY <1>t, <1>b
      <4>2. CASE t = s
        <5>1. conn'[t] = [conn[t] EXCEPT !.end = [conn[t].end EXCEPT ![g] = "open"], !.hello = FALSE]
          BY <4>2, <3>1
        <5>2. conn'[t].by = conn[t].by /\ ~conn'[t].hello /\ conn'[t].hello = FALSE
              /\ conn'[t].end = [conn[t].end EXCEPT ![g] = "open"]
          BY <5>1, <4>1 DEF Conn
        <5> QED BY <5>2, <4>1, <4>2, <2>1
      <4>3. CASE t # s /\ t = old
        <5>1. conn'[t] = [conn[t] EXCEPT !.end = [conn[t].end EXCEPT ![g] = "shut"]]
          BY <4>3, <3>1
        <5>2. conn'[t].by = conn[t].by /\ conn'[t].hello = conn[t].hello
              /\ conn'[t].end = [conn[t].end EXCEPT ![g] = "shut"]
          BY <5>1, <4>1 DEF Conn
        <5> QED BY <5>2, <4>1, <4>3, <2>1
      <4>4. CASE t # s /\ t # old
        BY <4>1, <4>4, <3>1
      <4> QED BY <4>2, <4>3, <4>4
    <3>3. \A t \in Slots : conn[t].end[1] = "open" <=> fd[1] = t
      BY <1>t DEF Points
    <3>4. \A t \in Slots : conn[t].end[2] = "open" <=> fd[2] = t
      BY <1>t DEF Points
    <3>5. CASE conn[s].by = 1
      \* hub 1's dial wins at hub 2, and is hub 1's link
      <4>1. g = 2 /\ conn[s].end[1] = "open" /\ fd[1] = s
        BY <3>3, <3>5, <2>1, <1>t DEF Calm, CalmSlot, Won
      <4>2. old \in Slots => conn[old].end[1] # "open" \/ old = s
        BY <4>1, <3>3
      <4>3. \A w \in Slots : conn'[w].end[1] = conn[w].end[1]
        BY <3>2, <4>1, <1>t
      <4> SUFFICES ASSUME NEW t \in Slots PROVE CalmSlot(conn'[t], Won(conn'))
        BY DEF Calm
      <4>4. conn'[s].by = 1 /\ conn'[s].end[1] = "open" /\ conn'[s].end[2] = "open"
        BY <3>2, <3>5, <4>1, <4>3, <1>t
      <4>5. CASE t = s
        BY <4>4, <4>5, <3>2, <1>t DEF CalmSlot
      <4>6. CASE t # s /\ t = old
        <5>1. conn[t].end[2] = "open" /\ conn'[t].end[2] = "shut" /\ conn'[t].end[1] = conn[t].end[1]
          BY <3>2, <3>4, <4>1, <4>6, <1>t
        <5>2. conn[t].end[1] # "open"
          BY <4>2, <4>6
        <5>3. conn[t].by = 2 /\ conn'[t].by = 2 /\ conn'[t].hello = conn[t].hello
          BY <5>1, <5>2, <4>6, <3>2, <1>b DEF Calm, CalmSlot
        <5>4. conn[t].hello => conn[t].end[1] \in {"none", "preauth"}
          BY <5>3 DEF Calm, CalmSlot
        <5>5. Won(conn')
          BY <4>4 DEF Won
        <5> QED BY <5>1, <5>2, <5>3, <5>4, <5>5, <1>t DEF CalmSlot
      <4>7. CASE t # s /\ t # old
        <5>1. conn'[t].end[1] = conn[t].end[1] /\ conn'[t].end[2] = conn[t].end[2]
              /\ conn'[t].by = conn[t].by /\ conn'[t].hello = conn[t].hello
          BY <3>2, <4>7, <1>t
        <5> QED BY <5>1, <4>4, <1>t, <1>b DEF Calm, CalmSlot, Won
      <4> QED BY <4>5, <4>6, <4>7
    <3>6. CASE conn[s].by = 2
      \* hub 1 takes hub 2's dial: it has no link of its own dialling
      <4>1. g = 1
        BY <3>6, <1>t
      <4>2. ASSUME NEW w \in Slots, conn[w].by = 1, conn[w].end[1] = "open" PROVE FALSE
        <5>1. old = w
          BY <4>1, <4>2, <3>3
        <5> QED BY <5>1, <4>1, <4>2, <3>6, <2>2, <1>t DEF KeepNew
      <4>3. conn[s].end[2] = "open" /\ fd[2] = s
        BY <3>4, <3>6, <4>2, <2>1, <1>t DEF Calm, CalmSlot, Won
      <4>4. CASE old \in Slots
        \* the old link would be of hub 2's, which has but one
        <5>1. conn[old].end[1] = "open" /\ old # s
          BY <4>1, <4>4, <3>3, <2>1
        <5>2. conn[old].by = 2 /\ conn[old].end[2] = "open"
          BY <5>1, <4>2, <4>4, <1>b DEF Calm, CalmSlot, Won
        <5> QED BY <5>1, <5>2, <4>3, <4>4, <3>4
      <4>5. CASE old = 0
        <5>1. \A t \in Slots \ {s} : /\ conn'[t].by = conn[t].by /\ conn'[t].hello = conn[t].hello
                                     /\ conn'[t].end[1] = conn[t].end[1]
                                     /\ conn'[t].end[2] = conn[t].end[2]
          BY <3>2, <4>5, <1>t
        <5>2. /\ conn'[s].by = 2 /\ ~conn'[s].hello
              /\ conn'[s].end[1] = "open" /\ conn'[s].end[2] = "open"
          BY <3>2, <3>6, <4>1, <4>3, <4>5, <1>t
        <5> QED BY <5>1, <5>2, <3>6, <4>2, <1>t, <1>b DEF Calm, CalmSlot, Won
      <4> QED BY <4>4, <4>5, <2>1
    <3> QED BY <3>5, <3>6, <1>b
  <2>3. CASE ~KeepNew(s, old, g)
    <3>1. OneEnd(s, g, "closed", FALSE)
      <4>1. conn' = [conn EXCEPT ![s].end[g] = "closed", ![s].hello = FALSE]
        BY <2>3, <1>4 DEF handle_hubv3
      <4>2. FALSE = ("closed" = "open") /\ "closed" \in End
        BY <1>t
      <4> HIDE DEF g
      <4> QED BY <2>1, <4>1, <4>2, OneEndHello
    <3>2. conn[s].by = 2 /\ g = 1
      BY <2>3, <1>b, <1>t DEF KeepNew
    <3>a. \A t \in Slots : /\ conn'[t].by = conn[t].by
                           /\ conn'[t].end[1] = IF t = s THEN "closed" ELSE conn[t].end[1]
                           /\ conn'[t].end[2] = conn[t].end[2]
      <4> HIDE DEF g
      <4>1. \A t \in Slots : /\ conn'[t].by = conn[t].by
              /\ \A k \in Sides : conn'[t].end[k] = IF t = s /\ k = g THEN "closed" ELSE conn[t].end[k]
        BY <3>1, Zenon DEF OneEnd
      <4> QED BY <4>1, <3>2, <1>t
    <3>b. ~conn'[s].hello
      BY <3>1, Zenon DEF OneEnd
    <3>3. Won(conn) => Won(conn')
      BY <3>a, <3>2 DEF Won
    <3>4. CalmSlot(conn'[s], Won(conn'))
      <4>1. /\ conn'[s].by = 2 /\ conn'[s].end[1] = "closed"
            /\ conn'[s].end[2] = conn[s].end[2] /\ conn[s].end[2] # "dialing"
        BY <3>a, <3>2, <2>1, <1>t DEF Calm, CalmSlot
      <4> QED BY <4>1, <3>b, <1>t DEF CalmSlot
    <3> QED BY <2>1, <3>1, <3>3, <3>4, <1>t, <1>b, OneEndCalm
  <2> QED BY <2>2, <2>3
<1>5. ASSUME NEW s \in Slots, NEW h \in Sides, read_one(s, h) PROVE Calm'
  <2>1. OneEnd(s, h, "closed", conn[s].hello)
    BY <1>5, <1>t, OneEndPlain DEF read_one, Close
  <2>2. \/ conn[s].end[h] = "shut"
        \/ /\ conn[s].end[h] \in {"preauth", "open"}
           /\ conn[s].end[Other(h)] \in {"shut", "closed"}
           /\ conn[s].hello => conn[s].by = h
    BY <1>5 DEF read_one
  <2>3. CalmSlot(conn[s], Won(conn))
    BY DEF Calm, CalmSlot, Won
  <2>4. ~(conn[s].by = 1 /\ h = 1 /\ conn[s].end[1] = "open")
    BY <2>2, <2>3, <1>t DEF CalmSlot
  <2>5. Won(conn) => Won(conn')
    BY <2>1, <2>4, <1>t DEF Won, OneEnd
  <2>6. CalmSlot(conn'[s], Won(conn'))
    BY <2>1, <2>2, <2>3, <2>4, <2>5, <1>t, <1>b DEF CalmSlot, OneEnd
  <2> QED BY <2>1, <2>5, <2>6, <1>t, <1>b, OneEndCalm
<1>6. CASE PlNext
  <2>1. ASSUME NEW h \in Sides, Reboot(h) PROVE FALSE
    BY <2>1, <1>t DEF Reboot
  <2>2. ASSUME NEW s \in Slots, NEW h \in Sides, Fail(s, h) PROVE FALSE
    BY <2>2, <1>t DEF Fail
  <2> QED BY <1>6, <2>1, <2>2, <1>1, <1>2, <1>3, <1>4, <1>5 DEF PlNext
<1> QED BY <1>0, <1>6

(* Calm holds until something fails.                                       *)
LEMMA CalmAlways == PlSpec => [](PlTypeOK /\ Points /\ (fails = 0 => Calm))
<1>1. PlInit => PlTypeOK /\ Points /\ (fails = 0 => Calm)
  <2> SUFFICES ASSUME PlInit PROVE PlTypeOK /\ Points /\ Calm
    OBVIOUS
  <2>1. 0 \notin Slots /\ MaxFails \in Nat
    BY PeerLinkAssumption
  <2>2. PlTypeOK /\ Points
    BY <2>1 DEF PlInit, PlTypeOK, Points, Conn, End, Sides
  <2>3. Calm
    BY DEF PlInit, Calm, CalmSlot, Sides, Other
  <2> QED BY <2>2, <2>3
<1>2. PlTypeOK /\ Points /\ (fails = 0 => Calm) /\ [PlNext]_plVars
        => (PlTypeOK /\ Points /\ (fails = 0 => Calm))'
  <2> SUFFICES ASSUME PlTypeOK, Points, fails = 0 => Calm, [PlNext]_plVars, fails' = 0
               PROVE  Calm'
    BY StepInv
  <2>1. fails \in Nat
    BY PeerLinkAssumption DEF PlTypeOK
  <2>2. fails' = fails \/ fails' = fails + 1
    BY DEF PlNext, plVars, check_peers, accept_one, finish_dials, handle_hubv3, read_one, Fail, Reboot
  <2> QED BY <2>1, <2>2, CalmStep
<1> QED BY <1>1, <1>2, PTL DEF PlSpec

(* Simultaneous dials settle once: while nothing fails, no hello, EOF or   *)
(* finished dial, however late, takes away a link that both hubs use, and  *)
(* the two never part over which of two dials to keep.                     *)
THEOREM StaysAlways == PlSpec => Stays
<1>1. PlTypeOK /\ Points /\ (fails = 0 => Calm) /\ [PlNext]_plVars
        => [\A s \in Slots : Settled(s) /\ fails = 0 /\ fails' = 0 => Settled(s)']_plVars
  <2> SUFFICES ASSUME PlTypeOK, Points, fails = 0 => Calm, [PlNext]_plVars,
                      NEW s \in Slots, Settled(s), fails = 0, fails' = 0
               PROVE  Settled(s)'
    OBVIOUS
  <2>t. /\ Calm /\ Sides = {1, 2} /\ Other(1) = 2 /\ Other(2) = 1 /\ 0 \notin Slots
        /\ fd \in [Sides -> Slots \cup {0}]
        /\ conn \in [Slots -> Conn]
        /\ \A t \in Slots : conn[t].by \in {1, 2}
    BY PeerLinkAssumption DEF Sides, Other, PlTypeOK, Conn
  <2>p. PlTypeOK' /\ Points'
    BY StepInv
  <2>0. /\ fd[1] = s /\ fd[2] = s
        /\ conn[s].end[1] = "open" /\ conn[s].end[2] = "open"
    BY <2>t DEF Settled
  <2>1. fd' = fd => Settled(s)'
    BY <2>0, <2>p, <2>t DEF Settled, Points
  <2>2. ASSUME NEW h \in Sides, check_peers(h) \/ Reboot(h) PROVE fd' = fd
    BY <2>2, <2>t DEF check_peers, Reboot
  <2>3. ASSUME NEW t \in Slots, accept_one(t) PROVE fd' = fd
    BY <2>3 DEF accept_one
  <2>4. ASSUME NEW t \in Slots, finish_dials(t) PROVE fd' = fd
    <3>1. fd[conn[t].by] # 0
      BY <2>0, <2>t
    <3> QED BY <2>4, <3>1 DEF finish_dials
  <2>5. ASSUME NEW t \in Slots, handle_hubv3(t) PROVE fd' = fd
    <3> DEFINE g == Other(conn[t].by)
    <3>1. conn[t].end[g] = "preauth" /\ conn[t].hello
      BY <2>5 DEF handle_hubv3
    <3>2. t # s
      BY <3>1, <2>0, <2>t
    <3>3. ~KeepNew(t, fd[g], g)
      <4>0. \A u \in Slots : (conn[u].end[1] = "open" <=> u = s) /\ (conn[u].end[2] = "open" <=> u = s)
        BY <2>0, <2>t DEF Points
      <4>1. CASE conn[t].by = 1
        \* the hello of a dial of hub 1 is of its link
        <5>1. conn[t].end[1] = "open"
          BY <3>1, <4>1 DEF Calm, CalmSlot
        <5> QED BY <3>2, <4>0, <5>1
      <4>2. CASE conn[t].by = 2
        \* hub 1's own dial has won, and is the link
        <5>1. Won(conn)
          BY <3>1, <3>2, <4>0, <4>2 DEF Calm, CalmSlot
        <5>2. conn[s].by = 1
          BY <4>0, <5>1 DEF Won
        <5> QED BY <4>2, <5>2, <2>0, <2>t DEF KeepNew
      <4> QED BY <4>1, <4>2, <2>t
    <3> QED BY <2>5, <3>3 DEF handle_hubv3
  <2>6. ASSUME NEW t \in Slots, NEW h \in Sides, read_one(t, h) PROVE fd' = fd
    <3>1. t # s
      BY <2>0, <2>6, <2>t DEF read_one
    <3> QED BY <2>0, <2>6, <2>t, <3>1 DEF read_one, Close
  <2>7. ASSUME NEW t \in Slots, NEW h \in Sides, Fail(t, h) PROVE FALSE
    BY <2>7 DEF Fail
  <2>8. fd' = fd
    BY <2>2, <2>3, <2>4, <2>5, <2>6, <2>7 DEF PlNext, plVars
  <2> QED BY <2>1, <2>8
<1> QED BY <1>1, CalmAlways, PTL DEF PlSpec, Stays
=============================================================================
