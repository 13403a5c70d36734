------------------------------- MODULE OpFlow -------------------------------
(***************************************************************************)
(* Requests that travel between hubs: a bot asks to be opped by another    *)
(* bot, a console has a user opped by every bot, and a locked-out bot of   *)
(* an older hub asks for a channel key.  A hub acts on a request, passes   *)
(* it on under its id and drops the second copy; a request for one bot     *)
(* goes to the hub the roster places that bot on, when it is a peer, and   *)
(* to every peer otherwise.                                                *)
(*                                                                         *)
(* A connection stands for its descriptor.  Frames for a connection whose  *)
(* queue is full close it, so they are lost with the link.                 *)
(***************************************************************************)
EXTENDS Integers, Sequences, FiniteSets, Functions

CONSTANTS
    Nodes, Lines,   \* hubs, pairs of linked hubs at the start
    Bots, Home,     \* Home[b]: the hub bot b is connected to
    Left,           \* Left[b]: a hub b was on before, which rosters may still name
    Req,            \* Req[id]: [kind, by, to, at], the requests that are made
    Elder,          \* hubs of an older release, which asks for keys this way
    Stored,         \* Stored[h]: bots whose hostmask record h holds
    RingSize, OpSlots, ChanSlots,
    Sessions,       \* bound: sets of requests that one behaviour makes
    MaxOpFaults     \* bound: links and bots lost, lanes full, requests and slots that outlive their time

Ids == DOMAIN Req
Nobody == "nobody"

ASSUME OpFlowAssumption ==
    /\ Nobody \notin Nodes
    /\ \A l \in Lines : \E g, h \in Nodes : g # h /\ l = {g, h}
    /\ Home \in [Bots -> Nodes] /\ Left \in [Bots -> Nodes] /\ Elder \subseteq Nodes
    /\ \A i \in Ids : /\ Req[i].kind \in {"op", "admin", "key"} /\ Req[i].at \in Nodes
                      /\ Req[i].kind # "admin" => Req[i].by \in Bots /\ Home[Req[i].by] = Req[i].at
                      /\ Req[i].kind = "op" => Req[i].to \in Bots
    /\ Stored \in [Nodes -> SUBSET Bots]
    /\ {RingSize, OpSlots, ChanSlots} \subseteq Nat \ {0} /\ MaxOpFaults \in Nat /\ Sessions \subseteq SUBSET Ids

VARIABLES
    asked,      \* requests made
    ring,       \* ring[h]: seen_forwards, oldest first
    opPend,     \* opPend[h]: pending_op_requests
    chPend,     \* chPend[h]: pending_chan_requests; old: past CHAN_REQUEST_TIMEOUT
    joined, on, \* links there are; bots connected
    frames,     \* frames[g][h]: frames from hub g to hub h
    stale,      \* requests older than OP_FORWARD_TTL_SECONDS
    handled,    \* history: handled[i][h]: how often hub h acted on request i
    granted,    \* history: pairs of a request and a bot that was sent the grant
    failed,     \* history: requests whose requester was told OP_FAILED
    offered,    \* history: key requests a bot answered
    keyed,      \* keyed[i]: how many CHAN_REPLY the requester of i has got
    opFaults

opState == <<ring, opPend, chPend, joined, on, frames, stale>>
opVars == <<asked, opState, handled, granted, failed, offered, keyed, opFaults>>

Near(h) == {g \in Nodes : {g, h} \in joined /\ g # h}
BotsAt(h) == {b \in on : Home[b] = h}

OfTypeOK ==
    /\ asked \subseteq Ids /\ stale \subseteq Ids /\ on \subseteq Bots /\ joined \subseteq Lines
    /\ \A h \in Nodes :
         /\ Len(ring[h]) <= RingSize /\ Range(ring[h]) \subseteq Ids
         /\ Cardinality(opPend[h]) <= OpSlots
         /\ opPend[h] \subseteq [id : Ids, from : Bots]
         /\ Cardinality(chPend[h]) <= ChanSlots
         /\ chPend[h] \subseteq [id : Ids, from : Nodes \cup {Nobody}, old : BOOLEAN]
    /\ granted \subseteq Ids \X Bots /\ failed \subseteq Ids /\ opFaults \in 0 .. MaxOpFaults

OfInit ==
    /\ asked = {} /\ stale = {} /\ joined = Lines /\ on = Bots
    /\ ring = [h \in Nodes |-> <<>>]
    /\ opPend = [h \in Nodes |-> {}] /\ chPend = [h \in Nodes |-> {}]
    /\ frames = [g \in Nodes |-> [h \in Nodes |-> <<>>]]
    /\ handled = [i \in Ids |-> [h \in Nodes |-> 0]]
    /\ granted = {} /\ failed = {} /\ offered = {}
    /\ keyed = [i \in Ids |-> 0] /\ opFaults = 0

-----------------------------------------------------------------------------

(* forward_seen_check_and_add: the lookup, and the ring with the new id.   *)
ring_has(h, i) == i \in Range(ring[h])
ring_add(h, i) ==
    LET r == Append(ring[h], i) IN IF Len(r) > RingSize THEN Tail(r) ELSE r

(* The roster rows of bot b a hub has when it looks: gossip lags behind,   *)
(* so none yet, that of the hub the bot left, or both.                     *)
Rows(b) == {{}, {Home[b]}, {Left[b]}, {Home[b], Left[b]}}

(* op_route_peer: the one hub the rows place the bot on, if it is a peer   *)
(* and not the one the request came from.                                  *)
op_route_peer(h, rows, from) == {g \in Near(h) \ {from} : rows = {g}}

(* split_horizon_links: the links the sender last reported, if it did so   *)
(* lately; they may since have gone.                                       *)
ReportedLinks(g) == {{}, Near(g), {h \in Nodes : {g, h} \in Lines /\ g # h}}

(* Who is sent a flooded request.                                          *)
Flooded(h, from, skip) == Near(h) \ ({from} \cup skip)

SendAll(w, h, to, m) ==
    [w EXCEPT ![h] = [g \in Nodes |-> IF g \in to THEN Append(w[h][g], m) ELSE w[h][g]]]
SendOne(w, h, g, m) == SendAll(w, h, {g} \cap Near(h), m)
Taken(g, h) == [frames EXCEPT ![g][h] = Tail(@)]

(* Mutant: the split horizon applies to a request sent to us alone.        *)
forward_split_always(w, h, i, mask, from, split) ==
    LET m(how) == [cmd |-> "oreq", id |-> i, mask |-> mask, flood |-> how]
    IN  \E rows \in (IF Req[i].kind = "admin" THEN {{}} ELSE Rows(Req[i].to)) :
          IF op_route_peer(h, rows, from) # {}
          THEN frames' = SendAll(w, h, op_route_peer(h, rows, from), m(FALSE))
          ELSE \E skip \in (IF from # Nobody THEN ReportedLinks(from) ELSE {{}}) :
                   frames' = SendAll(w, h, Flooded(h, from, skip), m(TRUE))

(* forward_op_request_to_peers, with the frames w after it.                *)
forward_op_request_to_peers(w, h, i, mask, from, split) ==
    LET m(how) == [cmd |-> "oreq", id |-> i, mask |-> mask, flood |-> how]
    IN  \E rows \in (IF Req[i].kind = "admin" THEN {{}} ELSE Rows(Req[i].to)) :
          IF op_route_peer(h, rows, from) # {}
          THEN frames' = SendAll(w, h, op_route_peer(h, rows, from), m(FALSE))
          ELSE \E skip \in (IF split THEN ReportedLinks(from) ELSE {{}}) :
                   frames' = SendAll(w, h, Flooded(h, from, skip), m(TRUE))

(* broadcast_op_grant: every bot connected here.                           *)
broadcast_op_grant(h, i) == granted' = granted \cup {<<i, b>> : b \in BotsAt(h)}

Acts(h, i) == handled' = [handled EXCEPT ![i][h] = @ + 1]

(* send_cmd_to_bot: the grant is queued for the bot asked for, or its      *)
(* urgent lane is full and nothing is, which nobody is told.               *)
GrantSent(h, i) == granted' = granted \cup {<<i, Req[i].to>>} /\ Acts(h, i) /\ UNCHANGED opFaults
GrantRefused ==
    /\ opFaults < MaxOpFaults /\ opFaults' = opFaults + 1
    /\ UNCHANGED <<granted, handled>>

Made(i) == i \notin asked /\ asked' = asked \cup {i} /\ \E s \in Sessions : asked' \subseteq s

(* Mutant: after the peers are asked, the bot is told that it failed.      *)
process_op_requestFalls(i) ==
    LET h == Req[i].at
        b == Req[i].by
    IN  /\ Req[i].kind = "op" /\ b \in on /\ Req[i].to \notin BotsAt(h) /\ Made(i)
        /\ opPend' = [opPend EXCEPT ![h] = @ \cup {[id |-> i, from |-> b]}]
        /\ ring' = [ring EXCEPT ![h] = ring_add(h, i)] /\ failed' = failed \cup {i}
        /\ forward_op_request_to_peers(frames, h, i, TRUE, Nobody, FALSE)
        /\ UNCHANGED <<granted, handled, chPend, joined, on, stale, offered, keyed, opFaults>>

(* CMD_OP_REQUEST.  A bot of this hub is sent the grant; for any other the *)
(* peers are asked and a slot remembers who to tell.  Without a hostmask,  *)
(* a peer or a slot the bot is told at once.  An older hub sends neither   *)
(* hostmask nor time.                                                      *)
process_op_request(i) ==
    LET h == Req[i].at
        b == Req[i].by
    IN  /\ Req[i].kind = "op" /\ b \in on /\ Made(i)
        /\ IF Req[i].to \in BotsAt(h)
           THEN /\ IF b \in Stored[h]
                   THEN (GrantSent(h, i) \/ GrantRefused) /\ UNCHANGED failed
                   ELSE failed' = failed \cup {i} /\ UNCHANGED <<granted, handled, opFaults>>
                /\ UNCHANGED <<opPend, ring, frames>>
           ELSE IF Near(h) # {} /\ (b \in Stored[h] \/ h \in Elder) /\ Cardinality(opPend[h]) < OpSlots
           THEN /\ opPend' = [opPend EXCEPT ![h] = @ \cup {[id |-> i, from |-> b]}]
                /\ ring' = [ring EXCEPT ![h] = ring_add(h, i)]
                /\ forward_op_request_to_peers(frames, h, i, h \notin Elder, Nobody, FALSE)
                /\ UNCHANGED <<granted, handled, failed, opFaults>>
           ELSE failed' = failed \cup {i} /\ UNCHANGED <<granted, handled, opPend, ring, frames, opFaults>>
        /\ UNCHANGED <<chPend, joined, on, stale, offered, keyed>>

(* CMD_ADMIN_OP_USER: the bots here, then every peer.                      *)
admin_op_user(i) ==
    LET h == Req[i].at
    IN  /\ Req[i].kind = "admin" /\ Made(i)
        /\ broadcast_op_grant(h, i) /\ Acts(h, i)
        /\ ring' = [ring EXCEPT ![h] = ring_add(h, i)]
        /\ forward_op_request_to_peers(frames, h, i, FALSE, Nobody, FALSE)
        /\ UNCHANGED <<opPend, chPend, joined, on, stale, failed, offered, keyed, opFaults>>

-----------------------------------------------------------------------------
Incoming(g, h, cmd) ==
    /\ frames[g][h] # <<>> /\ Head(frames[g][h]).cmd = cmd
    /\ UNCHANGED <<asked, joined, on, stale>>

(* An op request from peer g: dropped when too old or seen before; else    *)
(* every bot, the bot asked for, or the next hubs.  A grant that was       *)
(* queued is confirmed to the peer it came from.                           *)
process_forward_op_request(g, h) ==
    LET m == Head(frames[g][h])
        i == m.id
        back(x) == SendOne(Taken(g, h), h, g, [cmd |-> x, id |-> i])
    IN  /\ Incoming(g, h, "oreq")
        /\ IF (i \in stale /\ Req[i].at \notin Elder) \/ ring_has(h, i)
           THEN frames' = Taken(g, h) /\ UNCHANGED <<ring, granted, handled, opFaults>>
           ELSE /\ ring' = [ring EXCEPT ![h] = ring_add(h, i)]
                /\ \/ /\ Req[i].kind = "admin"
                      /\ broadcast_op_grant(h, i) /\ Acts(h, i)
                      /\ forward_op_request_to_peers(Taken(g, h), h, i, FALSE, g, m.flood)
                      /\ UNCHANGED opFaults
                   \/ /\ Req[i].kind = "op" /\ Req[i].to \notin BotsAt(h)
                      /\ forward_op_request_to_peers(Taken(g, h), h, i, m.mask, g, m.flood)
                      /\ UNCHANGED <<granted, handled, opFaults>>
                   \/ /\ Req[i].kind = "op" /\ Req[i].to \in BotsAt(h)
                      /\ IF m.mask \/ Req[i].by \in Stored[h]
                         THEN (GrantSent(h, i) /\ frames' = back("ogrant")) \/ (GrantRefused /\ frames' = Taken(g, h))
                         ELSE frames' = back("ofail") /\ UNCHANGED <<granted, handled, opFaults>>
        /\ UNCHANGED <<opPend, chPend, failed, offered, keyed>>

(* The slot of the hub the request started at is free again; any other hub *)
(* drops the frame.                                                        *)
process_forward_op_grant(g, h) ==
    /\ Incoming(g, h, "ogrant")
    /\ opPend' = [opPend EXCEPT ![h] = {p \in @ : p.id # Head(frames[g][h]).id}]
    /\ frames' = Taken(g, h)
    /\ UNCHANGED <<ring, chPend, granted, handled, failed, offered, keyed, opFaults>>

process_forward_op_failed(g, h) ==
    LET i == Head(frames[g][h]).id
        mine == {p \in opPend[h] : p.id = i}
    IN  /\ Incoming(g, h, "ofail")
        /\ failed' = failed \cup {p.id : p \in {q \in mine : q.from \in on}}
        /\ opPend' = [opPend EXCEPT ![h] = @ \ mine]
        /\ frames' = Taken(g, h)
        /\ UNCHANGED <<ring, chPend, granted, handled, offered, keyed, opFaults>>

-----------------------------------------------------------------------------

(* add_pending_chan_request: a free slot, or one whose answer never came.  *)
add_pending_chan_request(h, i, from) ==
    LET p == [id |-> i, from |-> from, old |-> FALSE]
    IN  IF Cardinality(chPend[h]) < ChanSlots THEN {chPend[h] \cup {p}}
        ELSE {(chPend[h] \ {q}) \cup {p} : q \in {q \in chPend[h] : q.old}}

(* chan_request_dispatch: a slot, then the bots here but the requester,    *)
(* then the peers but the one it came from; dropped without a slot.        *)
chan_request_dispatch(w, h, i, from) ==
    LET tables == add_pending_chan_request(h, i, from)
    IN  \/ \E t \in tables :
             /\ chPend' = [chPend EXCEPT ![h] = t]
             /\ Acts(h, i)
             /\ frames' = SendAll(w, h, Flooded(h, from, {}), [cmd |-> "creq", id |-> i])
        \/ tables = {} /\ frames' = w /\ UNCHANGED <<chPend, handled>>

(* A locked-out bot of an older hub.                                       *)
elder_chan_request(i) ==
    LET h == Req[i].at
    IN  /\ Req[i].kind = "key" /\ h \in Elder /\ Req[i].by \in on /\ Made(i)
        /\ ring' = [ring EXCEPT ![h] = ring_add(h, i)]
        /\ chan_request_dispatch(frames, h, i, Nobody)
        /\ UNCHANGED <<opPend, joined, on, stale, granted, failed, offered, keyed, opFaults>>

process_forward_chan_request(g, h) ==
    LET i == Head(frames[g][h]).id
    IN  /\ Incoming(g, h, "creq")
        /\ IF ring_has(h, i)
           THEN frames' = Taken(g, h) /\ UNCHANGED <<ring, chPend, handled>>
           ELSE /\ ring' = [ring EXCEPT ![h] = ring_add(h, i)]
                /\ chan_request_dispatch(Taken(g, h), h, i, g)
        /\ UNCHANGED <<opPend, granted, failed, offered, keyed, opFaults>>

(* An answer goes to the requester, or to the peer the request came from   *)
(* if it is still there; the slot is free either way.                      *)
RouteReply(w, h, i) ==
    LET mine == {p \in chPend[h] : p.id = i}
    IN  /\ frames' = LET p == CHOOSE q \in mine : TRUE
                     IN  IF mine # {} /\ p.from # Nobody
                         THEN SendOne(w, h, p.from, [cmd |-> "crep", id |-> i]) ELSE w
        /\ keyed' = IF \E p \in mine : p.from = Nobody /\ Req[i].by \in on
                    THEN [keyed EXCEPT ![i] = @ + 1] ELSE keyed
        /\ chPend' = [chPend EXCEPT ![h] = @ \ mine]

(* A bot that was handed the key request, other than the requester,        *)
(* answers it, perhaps again; good: for the channel asked about.           *)
process_chan_reply(i, b, h, good) ==
    /\ Req[i].kind = "key" /\ handled[i][h] > 0 /\ b \in BotsAt(h) \ {Req[i].by}
    /\ IF good THEN RouteReply(frames, h, i) ELSE UNCHANGED <<frames, keyed, chPend>>
    /\ offered' = IF good THEN offered \cup {i} ELSE offered
    /\ UNCHANGED <<asked, ring, opPend, joined, on, stale, handled, granted, failed, opFaults>>

process_forward_chan_reply(g, h) ==
    /\ Incoming(g, h, "crep")
    /\ RouteReply(Taken(g, h), h, Head(frames[g][h]).id)
    /\ UNCHANGED <<ring, opPend, handled, granted, failed, offered, opFaults>>

-----------------------------------------------------------------------------
(* Time and faults.                                                        *)
RequestAges(i) ==
    /\ i \in asked \ stale /\ stale' = stale \cup {i}
    /\ opFaults < MaxOpFaults /\ opFaults' = opFaults + 1
    /\ UNCHANGED <<asked, ring, opPend, chPend, joined, on, frames, handled, granted, failed, offered, keyed>>

ReplyTimesOut(h) ==
    /\ \E p \in chPend[h] : ~p.old /\ chPend' = [chPend EXCEPT ![h] = (@ \ {p}) \cup {[p EXCEPT !.old = TRUE]}]
    /\ opFaults < MaxOpFaults /\ opFaults' = opFaults + 1
    /\ UNCHANGED <<asked, ring, opPend, joined, on, frames, stale, handled, granted, failed, offered, keyed>>

PeerLost(g, h) ==
    /\ {g, h} \in joined /\ g # h /\ opFaults < MaxOpFaults
    /\ opFaults' = opFaults + 1 /\ joined' = joined \ {{g, h}}
    /\ frames' = [frames EXCEPT ![g][h] = <<>>, ![h][g] = <<>>]
    /\ UNCHANGED <<asked, ring, opPend, chPend, on, stale, handled, granted, failed, offered, keyed>>

BotLost(b) ==
    /\ b \in on /\ opFaults < MaxOpFaults
    /\ opFaults' = opFaults + 1 /\ on' = on \ {b}
    /\ UNCHANGED <<asked, ring, opPend, chPend, joined, frames, stale, handled, granted, failed, offered, keyed>>

OfHubStep(g, h) ==
    \/ process_forward_op_request(g, h) \/ process_forward_op_grant(g, h) \/ process_forward_op_failed(g, h)
    \/ process_forward_chan_request(g, h) \/ process_forward_chan_reply(g, h)

OfNext ==
    \/ \E i \in Ids : process_op_request(i) \/ admin_op_user(i) \/ elder_chan_request(i) \/ RequestAges(i)
    \/ \E g, h \in Nodes : OfHubStep(g, h) \/ PeerLost(g, h)
    \/ \E i \in Ids, b \in Bots, h \in Nodes, good \in BOOLEAN : process_chan_reply(i, b, h, good)
    \/ \E h \in Nodes : ReplyTimesOut(h)
    \/ \E b \in Bots : BotLost(b)

(* The main loop reads every connection.                                   *)
OfFairness == \A g, h \in Nodes : WF_opVars(OfHubStep(g, h))
OfSpec == OfInit /\ [][OfNext]_opVars /\ OfFairness

-----------------------------------------------------------------------------
(* A hub acts on a request once, however many peers pass it a copy.        *)
HandledOnce == \A i \in Ids, h \in Nodes : handled[i][h] <= 1

(* A bot that is told its request failed gets no op for it: a failure is   *)
(* only reported when no hub has sent, or will send, the grant.            *)
FailedTrue == \A i \in failed : \A b \in Bots : <<i, b>> \notin granted

(* The first key is the only one the requester is handed.                  *)
KeyOnce == \A i \in Ids : keyed[i] <= 1

(* A request that never came to the hub of the bot asked for because it    *)
(* was directed to the hub that bot left, which has no other peer: "If the *)
(* roster was stale, that hub routes it on the same way (it excludes us),  *)
(* so the request is still delivered" (forward_op_request_to_peers) holds  *)
(* only where that hub has a further peer.                                 *)
Misled(i) ==
    /\ Req[i].kind = "op"
    /\ LET l == Left[Req[i].to]
       IN  /\ l # Home[Req[i].to] /\ ring_has(l, i) /\ ~ring_has(Home[Req[i].to], i)
           /\ Cardinality({g \in Nodes : g # l /\ {g, l} \in Lines}) = 1

(* With every link and bot in place, and rosters however stale, a request  *)
(* of this release reaches the bot asked for, or every bot, or its         *)
(* requester is told, or it was directed to a hub with no way on; and it   *)
(* has then left the mesh.                                                 *)
Reached(i) ==
    CASE Req[i].kind = "op" ->
           <<i, Req[i].to>> \in granted \/ i \in failed \/ Req[i].at \in Elder \/ Misled(i)
      [] Req[i].kind = "admin" -> \A b \in Bots : <<i, b>> \in granted
      [] Req[i].kind = "key" -> i \in offered => keyed[i] = 1
Reaches == <>[](/\ \A g, h \in Nodes : frames[g][h] = <<>>
                /\ \A i \in asked : Reached(i) \/ opFaults > 0)

(* A request meets each hub once, its key goes out once, and a failure is  *)
(* told only of a request that fails (process_op_request).                 *)
FlowTrue == OfTypeOK /\ HandledOnce /\ FailedTrue /\ KeyOnce
=============================================================================
