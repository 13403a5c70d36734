------------------------------ MODULE HubSync ------------------------------
(***************************************************************************)
(* Replication of the configuration records between the hubs of a mesh:    *)
(* local writes, deltas flooded with a split horizon, the full sync of a   *)
(* new link, the version gate that holds it back, the requests that fetch  *)
(* it again, periodic anti-entropy, tombstone purges with their floor and  *)
(* their loop protection, lossy per-peer lanes, link loss and restarts.    *)
(*                                                                         *)
(* One record stands for one identity; RecKind says which acceptance rule  *)
(* its class uses.  The records are channels without settings or bans ("c")*)
(* and bans of "*" ("B"), in stores below the ceilings of their classes:   *)
(* no cascade, no orphan sweep and no eviction of an old tombstone touches *)
(* them (ChannelStore has those).  A frame carries a function over         *)
(* all the records, Absent for the ones that are not in it: a full sync is *)
(* then simply the sender's store.                                         *)
(***************************************************************************)
EXTENDS Lww, Sequences, FiniteSets

CONSTANTS
    Hubs,        \* the hubs
    Edges,       \* configured peerings: a set of two-element sets of hubs
    Recs,        \* record identities
    RecKind,     \* [Recs -> {"c", "B"}]: lww_accepts or rec_accepts
    Vals,        \* payloads of adds, positive integers
    Skew,        \* [Hubs -> Nat]: how far a hub's clock runs ahead
    MaxFuture,   \* LWW_MAX_FUTURE
    LaneCap,     \* MAX_QUEUE_PER_LANE
    Hold,        \* PURGE_FLOOR_HOLD
    DedupWindow, \* PURGE_DEDUP_WINDOW
    MaxRecent,   \* MAX_RECENT_PURGES
    MaxNow,      \* bound: the clock stops here once no purge floor holds
    MaxClock,    \* bound: the clock stops here in any case
    MaxStamp,    \* bound: no write stamps past this
    MaxWrites,   \* bound: versions written of a record
    MaxPurges,   \* bound: purges started
    MaxEdits,    \* bound: versions written of a record and purges together
    MaxDrops,    \* bound: link losses and restarts
    MaxTrouble,  \* bound: purges, link losses and restarts together
    Trusted,     \* the hubs whose link reports are fresh enough to be used
    Sweeps,      \* TRUE: the periodic anti-entropy runs too
    Linked       \* the peerings already up, rosters exchanged, at the start

ASSUME HubSyncAssumption ==
    /\ Edges \subseteq {e \in SUBSET Hubs : \E a, b \in Hubs : a # b /\ e = {a, b}}
    /\ RecKind \in [Recs -> {"c", "B"}]
    /\ Vals \subseteq Nat \ {0}
    /\ Skew \in [Hubs -> Nat]
    /\ MaxFuture \in Nat /\ LaneCap \in Nat \ {0} /\ Hold \in Nat
    /\ DedupWindow \in Nat \ {0} /\ MaxRecent \in Nat \ {0}
    /\ MaxNow \in Nat /\ MaxClock \in Nat /\ MaxStamp \in Nat /\ MaxWrites \in Nat
    /\ MaxPurges \in Nat /\ MaxEdits \in Nat /\ MaxDrops \in Nat /\ MaxTrouble \in Nat
    /\ Trusted \subseteq Hubs /\ Sweeps \in BOOLEAN
    /\ Linked \subseteq Edges

VARIABLES
    now,      \* the common time; hub h reads now + Skew[h]
    store,    \* store[h][r]: global_entries of h
    saved,    \* saved[h]: the same, as last written to the config file
    links,    \* the peerings whose link is up and authenticated
    delta,    \* delta[h][g]: h's DELTA lane to g, oldest frame first
    bulk,     \* bulk[h][g]: h's BULK lane to g (full syncs)
    req,      \* req[h][g]: CMD_SYNC_REQUESTs of h on their way to g
    known,    \* known[h][g]: g's roster told h a current version
    view,     \* view[h][g]: the links of g as its last roster reported them
    held,     \* held[h][g]: sync_held of h's connection to g
    resync,   \* resync[h]: a link was lost, a resync is due
    floor,    \* floor[h]: purge_floor and purge_floor_until
    recent,   \* recent[h]: recent_purges, its slots in their order
    purges,   \* purge ids drawn so far
    drops,    \* link losses and restarts so far
    written,  \* history: every record version an operator wrote
    lossy,    \* history: a frame was lost that no later full sync repeats
    ran       \* history: ran[h][id], runs of a purge since h last forgot it, and when

vars == <<now, store, saved, links, delta, bulk, req, known, view, held, resync, floor,
          recent, purges, drops, written, lossy, ran>>

Entry  == [ts : Nat, act : BOOLEAN, val : Nat]
Ids    == 1 .. MaxPurges
None   == [id |-> 0, cutoff |-> 0]
Purge  == [id : Ids, cutoff : Nat]
Slot   == [id : Ids, at : Nat]
Never  == [n |-> 0, at |-> 0]
Delta  == [recs : [Recs -> Entry], purge : Purge \cup {None}]
Full   == [recs : [Recs -> Entry], bcast : BOOLEAN]
Nothing == [r \in Recs |-> Absent]

Now(h)    == now + Skew[h]
Peers(h)  == {g \in Hubs : {h, g} \in links}

(* The links a roster of g reports, kept only where they will be trusted.  *)
Reported(g) == IF g \in Trusted THEN Peers(g) ELSE {}

TypeOK ==
    /\ now \in Nat
    /\ store \in [Hubs -> [Recs -> Entry]]
    /\ saved \in [Hubs -> [Recs -> Entry]]
    /\ links \subseteq Edges
    /\ delta \in [Hubs -> [Hubs -> Seq(Delta)]]
    /\ bulk \in [Hubs -> [Hubs -> Seq(Full)]]
    /\ req \in [Hubs -> [Hubs -> Nat]]
    /\ known \in [Hubs -> [Hubs -> BOOLEAN]]
    /\ view \in [Hubs -> [Hubs -> SUBSET Hubs]]
    /\ held \in [Hubs -> [Hubs -> BOOLEAN]]
    /\ resync \in [Hubs -> BOOLEAN]
    /\ floor \in [Hubs -> [ts : Nat, until : Nat]]
    /\ recent \in [Hubs -> Seq(Slot)]
    /\ purges \in 0 .. MaxPurges
    /\ drops \in 0 .. MaxDrops
    /\ written \in [Recs -> SUBSET Entry]
    /\ lossy \in BOOLEAN
    /\ ran \in [Hubs -> [Ids -> [n : Nat, at : Nat]]]

Init ==
    /\ now = 1
    /\ store = [h \in Hubs |-> Nothing]
    /\ saved = [h \in Hubs |-> Nothing]
    /\ links = Linked
    /\ delta = [h \in Hubs |-> [g \in Hubs |-> <<>>]]
    /\ bulk = [h \in Hubs |-> [g \in Hubs |-> <<>>]]
    /\ req = [h \in Hubs |-> [g \in Hubs |-> 0]]
    /\ known = [h \in Hubs |-> [g \in Hubs |-> {h, g} \in Linked]]
    /\ view = [h \in Hubs |-> [g \in Hubs |->
                  IF {h, g} \in Linked THEN Reported(g) ELSE {}]]
    /\ held = [h \in Hubs |-> [g \in Hubs |-> FALSE]]
    /\ resync = [h \in Hubs |-> FALSE]
    /\ floor = [h \in Hubs |-> [ts |-> 0, until |-> 0]]
    /\ recent = [h \in Hubs |-> <<>>]
    /\ purges = 0
    /\ drops = 0
    /\ written = [r \in Recs |-> {}]
    /\ lossy = FALSE
    /\ ran = [h \in Hubs |-> [i \in Ids |-> Never]]

-----------------------------------------------------------------------------
(* Queues                                                                  *)

(* A full DELTA or BULK lane drops its oldest frame to make room.          *)
Push(lane, f) ==
    Append(IF Len(lane) >= LaneCap THEN Tail(lane) ELSE lane, f)

(* peer_enqueue_sync to every hub of `to': frames leave only for a peer of *)
(* known version; for the others the connection is marked held.            *)
Queued(lanes, h, to, f) ==
    [lanes EXCEPT ![h] = [g \in Hubs |->
        IF g \in to /\ known[h][g] THEN Push(lanes[h][g], f) ELSE lanes[h][g]]]

(* Mutant: nothing remembers that a sync was held back.                    *)
HeldByForgets(hd, h, to) == hd

HeldBy(hd, h, to) ==
    [hd EXCEPT ![h] = [g \in Hubs |-> hd[h][g] \/ (g \in to /\ ~known[h][g])]]

Overflows(lanes, h, to) ==
    \E g \in to : known[h][g] /\ Len(lanes[h][g]) >= LaneCap

(* Mutant: the split horizon also skips peers whose link the hub has.      *)
ForwardToNobodyLinked(h, g, bcast) == Peers(h) \ ({g} \cup IF bcast THEN Peers(h) ELSE {})

(* Where a forward of a frame received from g goes: every other peer, but  *)
(* for a broadcast not the peers g reports a link to - it reached them.    *)
ForwardTo(h, g, bcast) ==
    Peers(h) \ ({g} \cup IF bcast THEN view[h][g] ELSE {})

-----------------------------------------------------------------------------
(* One hub's store                                                         *)

purge_floor_blocks(h, ts) == floor[h].until > Now(h) /\ ts < floor[h].ts

(* store_global_entry_raw / put_record: is e stored as record r of hub h?  *)
Accepts(h, r, e) ==
    /\ e.ts > 0
    /\ ~ts_ahead(e.ts, Now(h), MaxFuture)
    /\ IF store[h][r] = Absent
       THEN e.act \/ ~purge_floor_blocks(h, e.ts)
       ELSE IF RecKind[r] = "c"
            THEN lww_accepts(e, store[h][r])
            ELSE rec_accepts(e, store[h][r])

(* Mutant: a delete is stored as an add.                                   *)
MergedAsAdd(h, recs) ==
    [r \in Recs |-> IF Accepts(h, r, recs[r]) THEN [recs[r] EXCEPT !.act = TRUE]
                    ELSE store[h][r]]

Changed(h, recs) == [r \in Recs |-> IF Accepts(h, r, recs[r]) THEN recs[r] ELSE Absent]
Merged(h, recs)  == [r \in Recs |-> IF Accepts(h, r, recs[r]) THEN recs[r] ELSE store[h][r]]

purge_floor_set(h, cutoff) ==
    LET f == IF cutoff > 0 THEN cutoff ELSE Now(h)
    IN  [ts    |-> IF floor[h].until <= Now(h) \/ f > floor[h].ts THEN f ELSE floor[h].ts,
         until |-> Now(h) + Hold]

(* execute_purge: what is left of h's store, which has no orphans (above). *)
execute_purge(h, cutoff) ==
    [r \in Recs |-> LET e == store[h][r]
                    IN  IF ~e.act /\ (cutoff = 0 \/ e.ts < cutoff) THEN Absent ELSE e]

(* Mutant: the window is one second short.                                 *)
is_purge_recentShort(h, id) ==
    \E i \in 1 .. Len(recent[h]) :
        recent[h][i].id = id /\ Now(h) - recent[h][i].at < DedupWindow - 1

is_purge_recent(h, id) ==
    \E i \in 1 .. Len(recent[h]) :
        recent[h][i].id = id /\ Now(h) - recent[h][i].at < DedupWindow

(* The first of the oldest slots.                                          *)
Oldest(slots) ==
    CHOOSE i \in 1 .. Len(slots) : \A j \in 1 .. Len(slots) :
        slots[i].at < slots[j].at \/ (slots[i].at = slots[j].at /\ i <= j)

(* record_recent_purge: the slot of this id again, else a new slot, else   *)
(* the first of the oldest.                                                *)
record_recent_purge(h, id) ==
    LET slots == recent[h]
        new   == [id |-> id, at |-> Now(h)]
    IN  IF \E i \in 1 .. Len(slots) : slots[i].id = id
        THEN [i \in 1 .. Len(slots) |-> IF slots[i].id = id THEN new ELSE slots[i]]
        ELSE IF Len(slots) < MaxRecent THEN Append(slots, new)
        ELSE [slots EXCEPT ![Oldest(slots)] = new]

(* History: may hub h have forgotten purge i by now?  Only when the window *)
(* is over, or as many other purges as it keeps ran there since (or in the *)
(* second it ran).                                                         *)
Later(h, i) == {k \in Ids \ {i} : ran[h][k].n > 0 /\ ran[h][k].at >= ran[h][i].at}
Forgotten(h, i) ==
    \/ Now(h) - ran[h][i].at >= DedupWindow
    \/ Cardinality(Later(h, i)) >= MaxRecent

Ran(h, i) == [n |-> IF Forgotten(h, i) THEN 1 ELSE ran[h][i].n + 1, at |-> Now(h)]

-----------------------------------------------------------------------------
(* Local changes (console handlers)                                        *)

(* chan_store, del_channel, ban_add, ban_del: stamp past the stored one,   *)
(* store, broadcast.  A ban's delete needs a live ban and a failed store   *)
(* is not announced; a channel's is written and announced regardless.      *)
Write(h, r, act, v) ==
    LET e == [ts |-> lww_next_ts(store[h][r].ts, Now(h)), act |-> act, val |-> v]
    IN  /\ e.ts <= MaxStamp
        /\ Cardinality(written[r] \cup {e}) <= MaxWrites
        /\ Cardinality(written[r] \cup {e}) + purges <= MaxEdits
        /\ RecKind[r] = "c" \/ ((act \/ store[h][r].act) /\ Accepts(h, r, e))
        /\ store' = [store EXCEPT ![h] = Merged(h, [Nothing EXCEPT ![r] = e])]
        /\ delta' = Queued(delta, h, Peers(h), [recs |-> [Nothing EXCEPT ![r] = e], purge |-> None])
        /\ held' = HeldBy(held, h, Peers(h))
        /\ written' = [written EXCEPT ![r] = @ \cup {e}]
        /\ lossy' = (lossy \/ Overflows(delta, h, Peers(h)))
        /\ UNCHANGED <<now, saved, links, bulk, req, known, view, resync, floor, recent,
                       purges, drops, ran>>

AddRec(h, r, v) == Write(h, r, TRUE, v)
DelRec(h, r)    == Write(h, r, FALSE, 0)

(* hub purge / the scheduled purge: purge here, then broadcast_purge under *)
(* a fresh id this hub records.                                            *)
StartPurge(h, cutoff) ==
    LET p == [id |-> purges + 1, cutoff |-> cutoff]
    IN  /\ purges < MaxPurges /\ purges + drops < MaxTrouble
        /\ \A r \in Recs : Cardinality(written[r]) + purges < MaxEdits
        /\ cutoff <= Now(h)
        /\ store' = [store EXCEPT ![h] = execute_purge(h, cutoff)]
        /\ floor' = [floor EXCEPT ![h] = purge_floor_set(h, cutoff)]
        /\ recent' = [recent EXCEPT ![h] = record_recent_purge(h, p.id)]
        /\ ran' = [ran EXCEPT ![h][p.id] = Ran(h, p.id)]
        /\ purges' = p.id
        /\ delta' = Queued(delta, h, Peers(h), [recs |-> Nothing, purge |-> p])
        /\ held' = HeldBy(held, h, Peers(h))
        /\ lossy' = (lossy \/ Overflows(delta, h, Peers(h)))
        /\ UNCHANGED <<now, saved, links, bulk, req, known, view, resync, drops, written>>

-----------------------------------------------------------------------------
(* Frames from peers                                                       *)

(* process_peer_sync of the records in a frame: merge, forward what        *)
(* changed.  d is the DELTA lanes once the frame has left its own.         *)
ApplyRecs(d, h, g, recs, bcast) ==
    LET new == Changed(h, recs)
        to  == IF new = Nothing THEN {} ELSE ForwardTo(h, g, bcast)
    IN  /\ store' = [store EXCEPT ![h] = Merged(h, recs)]
        /\ delta' = Queued(d, h, to, [recs |-> new, purge |-> None])
        /\ held' = HeldBy(held, h, to)
        /\ lossy' = (lossy \/ Overflows(d, h, to))
        /\ UNCHANGED <<floor, recent, ran>>

(* process_peer_sync of a PURGE line: skipped while this hub remembers the *)
(* id, else recorded, run and forwarded.                                   *)
ApplyPurge(d, h, g, p, bcast) ==
    LET to == ForwardTo(h, g, bcast)
    IN  IF is_purge_recent(h, p.id)
        THEN delta' = d /\ UNCHANGED <<store, held, lossy, floor, recent, ran>>
        ELSE /\ recent' = [recent EXCEPT ![h] = record_recent_purge(h, p.id)]
             /\ ran' = [ran EXCEPT ![h][p.id] = Ran(h, p.id)]
             /\ store' = [store EXCEPT ![h] = execute_purge(h, p.cutoff)]
             /\ floor' = [floor EXCEPT ![h] = purge_floor_set(h, p.cutoff)]
             /\ delta' = Queued(d, h, to, [recs |-> Nothing, purge |-> p])
             /\ held' = HeldBy(held, h, to)
             /\ lossy' = (lossy \/ Overflows(d, h, to))

(* A sync frame from a peer whose version is not known yet is not read.    *)
Unread(d, h, g) ==
    /\ delta' = d
    /\ held' = [held EXCEPT ![h][g] = TRUE]
    /\ UNCHANGED <<store, lossy, floor, recent, ran>>

DeliverDelta(g, h) ==
    /\ delta[g][h] # <<>>
    /\ LET f == Head(delta[g][h])
           d == [delta EXCEPT ![g][h] = Tail(@)]
       IN  IF ~known[h][g] THEN Unread(d, h, g)
           ELSE IF f.purge # None THEN ApplyPurge(d, h, g, f.purge, TRUE)
           ELSE ApplyRecs(d, h, g, f.recs, TRUE)
    /\ UNCHANGED <<now, saved, links, bulk, req, known, view, resync, purges, drops, written>>

DeliverFull(g, h) ==
    /\ bulk[g][h] # <<>>
    /\ bulk' = [bulk EXCEPT ![g][h] = Tail(@)]
    /\ LET f == Head(bulk[g][h])
       IN  IF ~known[h][g] THEN Unread(delta, h, g)
           ELSE ApplyRecs(delta, h, g, f.recs, f.bcast)
    /\ UNCHANGED <<now, saved, links, req, known, view, resync, purges, drops, written>>

(* CMD_SYNC_REQUEST: answer with the full state.                           *)
ServeRequest(g, h) ==
    /\ req[g][h] > 0
    /\ req' = [req EXCEPT ![g][h] = @ - 1]
    /\ bulk' = Queued(bulk, h, {g}, [recs |-> store[h], bcast |-> FALSE])
    /\ held' = HeldBy(held, h, {g})
    /\ UNCHANGED <<now, store, saved, links, delta, known, view, resync, floor, recent,
                   purges, drops, written, lossy, ran>>

(* CMD_BOT_ROSTER of g on its link to h: version and links of g, then      *)
(* peer_sync_release: what was held goes as one full sync, and a request   *)
(* fetches what g sent meanwhile.                                          *)
Roster(g, h) ==
    /\ {g, h} \in links
    /\ ~known[h][g] \/ held[h][g] \/ view[h][g] # Reported(g)
    /\ known' = [known EXCEPT ![h][g] = TRUE]
    /\ view' = [view EXCEPT ![h][g] = Reported(g)]
    /\ held' = [held EXCEPT ![h][g] = FALSE]
    /\ IF held[h][g]
       THEN /\ bulk' = [bulk EXCEPT ![h][g] = Push(@, [recs |-> store[h], bcast |-> FALSE])]
            /\ req' = [req EXCEPT ![h][g] = IF @ < LaneCap THEN @ + 1 ELSE @]
       ELSE UNCHANGED <<bulk, req>>
    /\ UNCHANGED <<now, store, saved, links, delta, resync, floor, recent, purges, drops,
                   written, lossy, ran>>

-----------------------------------------------------------------------------
(* Links, timers, restarts                                                 *)

(* peer_handshake and handle_hubv3: both ends send their full state.       *)
LinkUp(a, b) ==
    /\ {a, b} \in Edges \ links
    /\ links' = links \cup {{a, b}}
    /\ bulk' = Queued(Queued(bulk, a, {b}, [recs |-> store[a], bcast |-> FALSE]),
                      b, {a}, [recs |-> store[b], bcast |-> FALSE])
    /\ held' = HeldBy(HeldBy(held, a, {b}), b, {a})
    /\ UNCHANGED <<now, store, saved, delta, req, known, view, resync, floor, recent,
                   purges, drops, written, lossy, ran>>

Without(lanes, E, empty) ==
    [h \in Hubs |-> [g \in Hubs |-> IF {h, g} \in E THEN empty ELSE lanes[h][g]]]

(* disconnect_client at both ends of every link in E: queues go with the   *)
(* connection.  What the links carried is repeated by the full sync of the *)
(* next link, unless a third hub relied on one for its split horizon.      *)
Cut(E) ==
    /\ links' = links \ E
    /\ delta' = Without(delta, E, <<>>)
    /\ bulk' = Without(bulk, E, <<>>)
    /\ held' = Without(held, E, FALSE)
    /\ lossy' = (lossy \/ \E a, b, k \in Hubs :
                      {a, b} \in E /\ k \notin {a, b} /\ b \in view[k][a])

Ends(E) == {h \in Hubs : \E e \in E : h \in e}

(* presence_tick at both ends sees a link less and owes a resync.          *)
LinkDown(e) ==
    /\ e \in links
    /\ drops < MaxDrops /\ purges + drops < MaxTrouble
    /\ drops' = drops + 1
    /\ Cut({e})
    /\ req' = Without(req, {e}, 0)
    /\ resync' = [h \in Hubs |-> resync[h] \/ h \in e]
    /\ UNCHANGED <<now, store, saved, known, view, floor, recent, purges, written, ran>>

(* SYNC_RESYNC_AFTER_LINK_LOSS later: ask every peer; one whose URGENT     *)
(* lane is full is disconnected.                                           *)
Resync(h) ==
    LET E == {e \in links : \E g \in Hubs : e = {h, g} /\ req[h][g] >= LaneCap}
    IN  /\ resync[h]
        /\ Cut(E)
        /\ req' = [Without(req, E, 0) EXCEPT ![h] = [g \in Hubs |->
                       IF {h, g} \in links \ E THEN req[h][g] + 1 ELSE 0]]
        /\ resync' = [g \in Hubs |-> (g # h /\ resync[g]) \/ g \in Ends(E)]
        /\ UNCHANGED <<now, store, saved, known, view, floor, recent, purges, drops,
                       written, ran>>

(* The hub process dies and starts again from its config file.             *)
Restart(h) ==
    LET E == {e \in links : h \in e}
    IN  /\ drops < MaxDrops /\ purges + drops < MaxTrouble
        /\ drops' = drops + 1
        /\ Cut(E)
        /\ req' = Without(req, E, 0)
        /\ resync' = [g \in Hubs |-> g # h /\ (resync[g] \/ g \in Ends(E))]
        /\ store' = [store EXCEPT ![h] = saved[h]]
        /\ known' = [known EXCEPT ![h] = [g \in Hubs |-> FALSE]]
        /\ view' = [view EXCEPT ![h] = [g \in Hubs |-> {}]]
        /\ floor' = [floor EXCEPT ![h] = [ts |-> 0, until |-> 0]]
        /\ recent' = [recent EXCEPT ![h] = <<>>]
        /\ ran' = [ran EXCEPT ![h] = [i \in Ids |-> Never]]
        /\ UNCHANGED <<now, saved, purges, written>>

(* The debounced config write (only a restart reads it).                   *)
SaveConfig(h) ==
    /\ drops < MaxDrops /\ purges + drops < MaxTrouble
    /\ saved[h] # store[h]
    /\ saved' = [saved EXCEPT ![h] = store[h]]
    /\ UNCHANGED <<now, store, links, delta, bulk, req, known, view, held, resync, floor,
                   recent, purges, drops, written, lossy, ran>>

(* Mutant: the sweep runs only where a link was lost.                      *)
AntiEntropyAfterLoss(h) ==
    /\ Sweeps /\ resync[h]
    /\ Peers(h) # {}
    /\ \A g \in Hubs : bulk[h][g] = <<>> /\ delta[h][g] = <<>>
    /\ bulk' = Queued(bulk, h, Peers(h), [recs |-> store[h], bcast |-> TRUE])
    /\ held' = HeldBy(held, h, Peers(h))
    /\ UNCHANGED <<now, store, saved, links, delta, req, known, view, resync, floor, recent,
                   purges, drops, written, lossy, ran>>

(* Periodic anti-entropy: the full state to every peer, as a broadcast.    *)
(* Bound: the interval (300 s) outlasts the delivery of the last one.      *)
AntiEntropy(h) ==
    /\ Sweeps
    /\ Peers(h) # {}
    /\ \A g \in Hubs : bulk[h][g] = <<>> /\ delta[h][g] = <<>>
    /\ bulk' = Queued(bulk, h, Peers(h), [recs |-> store[h], bcast |-> TRUE])
    /\ held' = HeldBy(held, h, Peers(h))
    /\ UNCHANGED <<now, store, saved, links, delta, req, known, view, resync, floor, recent,
                   purges, drops, written, lossy, ran>>

Tick ==
    /\ now < MaxNow \/ \E h \in Hubs : floor[h].until > Now(h)
    /\ now < MaxClock
    /\ now' = now + 1
    /\ UNCHANGED <<store, saved, links, delta, bulk, req, known, view, held, resync, floor,
                   recent, purges, drops, written, lossy, ran>>

Next ==
    \/ Tick
    \/ \E h \in Hubs :
         \/ \E r \in Recs : DelRec(h, r) \/ \E v \in Vals : AddRec(h, r, v)
         \/ \E cutoff \in 0 .. MaxNow : StartPurge(h, cutoff)
         \/ Resync(h) \/ Restart(h) \/ SaveConfig(h) \/ AntiEntropy(h)
    \/ \E g, h \in Hubs :
         \/ DeliverDelta(g, h) \/ DeliverFull(g, h) \/ ServeRequest(g, h)
         \/ Roster(g, h) \/ LinkUp(g, h)
    \/ \E e \in Edges : LinkDown(e)

(* The poll loop serves every socket and the maintenance tick runs every   *)
(* timer, so what is queued is delivered, dials are retried, gossip and    *)
(* anti-entropy recur.  Operators, crashes and losses owe nothing.         *)
Fairness ==
    /\ WF_vars(Tick)
    /\ \A h \in Hubs : WF_vars(AntiEntropy(h)) /\ WF_vars(Resync(h))
    /\ \A g, h \in Hubs :
         /\ WF_vars(DeliverDelta(g, h))
         /\ WF_vars(DeliverFull(g, h))
         /\ WF_vars(ServeRequest(g, h))
         /\ WF_vars(Roster(g, h))
         /\ WF_vars(LinkUp(g, h))

Spec == Init /\ [][Next]_vars /\ Fairness

-----------------------------------------------------------------------------
(* Properties                                                              *)

Covers(r, a, b) ==
    a = b \/ IF RecKind[r] = "c" THEN lww_accepts(a, b) ELSE rec_accepts(a, b)

(* Frames on the way to g, and full syncs still owed to it.                *)
OnItsWay(r, e, g) ==
    \E k \in Peers(g) :
        \/ \E i \in 1 .. Len(delta[k][g]) : Covers(r, delta[k][g][i].recs[r], e)
        \/ \E i \in 1 .. Len(bulk[k][g]) : Covers(r, bulk[k][g][i].recs[r], e)
        \/ (held[k][g] \/ held[g][k] \/ req[g][k] > 0) /\ Covers(r, store[k][r], e)

(* Every record version in a store, a config file or a frame was written,  *)
(* stamp and payload, by an operator: forwarding never alters one.         *)
Provenance ==
    \A h \in Hubs, r \in Recs :
        LET Real == written[r] \cup {Absent}
        IN  /\ store[h][r] \in Real /\ saved[h][r] \in Real
            /\ \A g \in Hubs :
                 /\ \A i \in 1 .. Len(delta[h][g]) : delta[h][g][i].recs[r] \in Real
                 /\ \A i \in 1 .. Len(bulk[h][g]) : bulk[h][g][i].recs[r] \in Real

(* Without lane overflow or purge and without waiting for anti-entropy:    *)
(* what a hub holds, each linked peer holds, or beats, or is about to be   *)
(* sent.                                                                   *)
NothingLost ==
    lossy \/ purges > 0 \/ \A h, g \in Hubs, r \in Recs :
        {h, g} \in links =>
            LET e == store[h][r]
            IN  \/ Covers(r, store[g][r], e)
                \/ ts_ahead(e.ts, Now(g), MaxFuture)
                \/ OnItsWay(r, e, g)

(* A purge that echoes around the mesh runs once on each hub: the same id  *)
(* runs there again only once the window is over or as many other purges   *)
(* as the table holds were recorded at least as late.                      *)
PurgeOnce == \A h \in Hubs, i \in Ids : ran[h][i].n <= 1

(* Once operators, crashes and losses are over, linked hubs agree on every *)
(* record for good.                                                        *)
Agreed    == \A h, g \in Hubs : {h, g} \in links => store[h] = store[g]
Converges == <>[]Agreed
=============================================================================
