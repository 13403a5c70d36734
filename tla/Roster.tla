------------------------------- MODULE Roster -------------------------------
(***************************************************************************)
(* How the mesh learns which bots are on a hub, and what its bots are      *)
(* shown.  A hub gossips its bots and links in rounds of numbered frames;  *)
(* a hub that has not seen a frame applies it and passes it on to peers    *)
(* the origin is not linked to.  A row nobody repeats ages out.            *)
(*                                                                         *)
(* One origin: what hubs keep of different origins is independent but for  *)
(* the room in the roster.  Time is counted in rounds of the origin, which *)
(* are BOT_PRESENCE_INTERVAL apart or less.  Of the tree, which hubs and   *)
(* bots are drawn and where; names, versions and start times are not.      *)
(***************************************************************************)
EXTENDS Integers, Sequences, FiniteSets

CONSTANTS
    RHubs, Source,  \* hubs; the one whose gossip is followed
    Wires,          \* pairs of hubs configured as peers
    RBots,          \* bots that connect to Source, in the order of its client list
    Enrolled,       \* hub and bot: the bots a hub has on file at the start
    Hops,           \* ROSTER_RELAY_HOPS
    Ttl,            \* BOT_ROSTER_TTL, in rounds
    MapFull,        \* hubs whose mesh map is full
    Room,           \* rows a hub's roster has left for bots of Source (MAX_BOT_ROSTER)
    Viewers,        \* hubs with a bot that is shown the tree
    MaxRounds, MaxChanges, MaxEdits     \* bounds: rounds gossiped; bots, links and restarts; records

ASSUME RosterAssumption ==
    /\ Source \in RHubs /\ \A l \in Wires : \E g, h \in RHubs : g # h /\ l = {g, h}
    /\ RBots \in Seq(STRING) /\ Room \in [RHubs -> Nat] /\ {Hops, Ttl, MaxRounds} \subseteq Nat \ {0}
    /\ MapFull \subseteq RHubs \ {Source} /\ Viewers \subseteq RHubs /\ {MaxChanges, MaxEdits} \subseteq Nat

VARIABLES
    present,    \* bots connected to Source
    live,       \* links that are up
    started,    \* start time of Source
    gen,        \* its roster_gen
    mask,       \* its gossip_link_mask
    due,        \* its last_presence_gossip is 0
    record,     \* record[h][b]: the bot's record at h: none, active, or deleted and revoked
    map,        \* map[h]: what h's mesh_hubs holds of Source, with its age in rounds
    rows,       \* rows[h]: roster rows of Source's bots, each with its age in rounds
    dirty,      \* viewers whose tree_dirty is set
    shown,      \* shown[h]: the tree last pushed to the bots of viewer h
    post,       \* post[g][h]: frames queued from g to h
    changes, edits,
    settled,    \* history: a round has begun since the last change
    refused,    \* history: hub and bot last reported to it when its roster was full
    edited      \* history: edited[h], the bots whose record changed at h since its last push

rosVars == <<present, live, started, gen, mask, due, record, map, rows, dirty, shown, post, changes, edits, settled,
             refused, edited>>

Names == {RBots[i] : i \in 1 .. Len(RBots)}
PeersOf(h) == {g \in RHubs : {g, h} \in Wires /\ g # h}
Linked(h) == {g \in PeersOf(h) : {g, h} \in live}
NoMap == [round |-> 0, chunks |-> {}, started |-> 0, have |-> FALSE, links |-> {}, age |-> 0]
Departed == -1

RosTypeOK ==
    /\ dirty \subseteq Viewers /\ present \subseteq Names /\ live \subseteq Wires /\ mask \subseteq RHubs
    /\ gen \in 0 .. MaxRounds /\ changes \in 0 .. MaxChanges /\ edits \in 0 .. MaxEdits
    /\ \A h \in RHubs : /\ map[h].links \subseteq RHubs /\ map[h].round <= gen /\ map[h].age \in 0 .. Ttl
                        /\ rows[h] \in [Names -> {Departed} \cup 0 .. Ttl]
                        /\ record[h] \in [Names -> {"none", "active", "revoked"}]
    \* a frame has been passed on fewer times than there are hops
    /\ \A g, h \in RHubs : \A i \in 1 .. Len(post[g][h]) : post[g][h][i].ttl \in 1 .. Hops

(* build_tree at h: its peers, linked or not, then when Source is linked   *)
(* the hubs it is linked to, and those it is not.  What the gossip of the  *)
(* other hubs adds is left out.                                            *)
TreeHubs(h) ==
    LET m == map[h]
        told == IF Source \in Linked(h) /\ m.have THEN PeersOf(Source) \ (PeersOf(h) \cup {h}) ELSE {}
    IN  {<<g, 1, g \in Linked(h)>> : g \in PeersOf(h)} \cup {<<g, 2, g \in m.links>> : g \in told}

(* The bots of Source: its own clients, or the roster rows.                *)
Reported(h) == IF h = Source THEN present ELSE {b \in Names : rows[h][b] # Departed}
TreeBots(h) == IF Source \in PeersOf(h) \cup {h} THEN Reported(h) ELSE {}

(* The tail: bots on file that nobody reports.                             *)
TreeOffline(h) == {b \in Names : record[h][b] = "active"} \ Reported(h)

build_tree(h) == [hubs |-> TreeHubs(h), bots |-> TreeBots(h), offline |-> TreeOffline(h)]

RosInit ==
    /\ present = {} /\ live = Wires /\ started = 1 /\ gen = 0 /\ mask = Linked(Source) /\ due = TRUE
    /\ record = [h \in RHubs |-> [b \in Names |-> IF <<h, b>> \in Enrolled THEN "active" ELSE "none"]]
    /\ map = [h \in RHubs |-> NoMap] /\ rows = [h \in RHubs |-> [b \in Names |-> Departed]]
    /\ dirty = {} /\ shown = [h \in Viewers |-> build_tree(h)]
    /\ post = [g \in RHubs |-> [h \in RHubs |-> <<>>]]
    /\ changes = 0 /\ edits = 0 /\ settled = FALSE /\ refused = {} /\ edited = [h \in Viewers |-> {}]

-----------------------------------------------------------------------------
(* roster_mark_dirty, where there is a bot to show it to.                  *)
Marked(hs) == dirty \cup (hs \cap Viewers)


(* roster_send_to_peers, the split horizon: g is the origin, or the origin *)
(* says it is linked to g.                                                 *)
KnowsAlready(g, reported) == g = Source \/ g \in reported

Post(w, h, to, fs) == [w EXCEPT ![h] = [g \in RHubs |-> IF g \in to THEN w[h][g] \o fs ELSE w[h][g]]]

(* The frames of a round, one bot each: the first carries the links.  A    *)
(* bot that was told to wipe itself is not reported.                       *)
OfRound(round) ==
    LET sending == SelectSeq(RBots, LAMBDA b : b \in present /\ record[Source][b] # "revoked")
        n == IF sending = <<>> THEN 1 ELSE Len(sending)
    IN  [i \in 1 .. n |-> [round |-> round, chunk |-> i - 1, ttl |-> Hops, started |-> started,
                           links |-> IF i = 1 THEN Linked(Source) ELSE {},
                           bots |-> IF sending = <<>> THEN {} ELSE {sending[i]}]]

(* presence_tick at Source: the links as they are, then gossip when it is  *)
(* due: at once after a change, and every interval.                        *)
gossip_bot_roster ==
    /\ gen < MaxRounds
    /\ gen' = gen + 1 /\ mask' = Linked(Source) /\ due' = FALSE
    /\ dirty' = IF mask # mask' THEN Marked({Source}) ELSE dirty
    /\ post' = Post(post, Source, Linked(Source), OfRound(gen'))
    /\ rows' = [h \in RHubs |-> [b \in Names |->
                   IF rows[h][b] \in {Departed, Ttl} THEN rows[h][b] ELSE rows[h][b] + 1]]
    /\ map' = [h \in RHubs |-> IF map[h] = NoMap \/ map[h].age = Ttl THEN map[h] ELSE [map[h] EXCEPT !.age = @ + 1]]
    /\ settled' = TRUE
    /\ UNCHANGED <<present, live, started, record, shown, changes, edits, refused, edited>>

(* process_bot_roster: a late copy of an older round, or a frame of this   *)
(* one seen before.                                                        *)
Seen(m, f) == f.round < m.round \/ (f.round = m.round /\ f.chunk \in m.chunks)

(* roster_upsert: no bot that is revoked here, nor a new one without room. *)
HasRoom(h, b) == rows[h][b] # Departed \/ Cardinality({c \in Names : rows[h][c] # Departed}) < Room[h]
Admits(h, b) == record[h][b] # "revoked" /\ HasRoom(h, b)
roster_upsert(h, f) ==
    [rows EXCEPT ![h] = [b \in Names |-> IF b \in f.bots /\ Admits(h, b) THEN 0 ELSE @[b]]]
Refusals(h, f) ==
    (refused \ ({h} \X f.bots)) \cup {<<h, b>> : b \in {c \in f.bots : ~HasRoom(h, c)}}

(* What makes the tree be drawn again: a new start time, link list or bot. *)
News(h, m, f) ==
    \/ m.started # f.started
    \/ f.chunk = 0 /\ (~m.have \/ m.links # f.links)
    \/ \E b \in f.bots : rows[h][b] = Departed /\ Admits(h, b)

(* The record of the origin once a frame is applied.                       *)
Applied(m, f) ==
    [age |-> 0, have |-> m.have \/ f.chunk = 0, round |-> f.round, started |-> f.started,
     chunks |-> (IF f.round = m.round THEN m.chunks ELSE {}) \cup {f.chunk},
     links |-> IF f.chunk = 0 THEN f.links ELSE m.links]

(* A frame at h from peer g.  A new start time forgets the rounds seen.    *)
process_bot_roster(g, h) ==
    LET f == Head(post[g][h])
        rest == [post EXCEPT ![g][h] = Tail(@)]
        m == IF map[h] # NoMap /\ map[h].started # f.started
             THEN [map[h] EXCEPT !.round = 0, !.chunks = {}] ELSE map[h]
        news == IF News(h, map[h], f) THEN Marked({h}) ELSE dirty
    IN  /\ post[g][h] # <<>>
        /\ \/ /\ h = Source \/ (h \notin MapFull /\ Seen(m, f))
              /\ post' = rest
              /\ map' = IF h = Source THEN map ELSE [map EXCEPT ![h] = m]
              /\ UNCHANGED <<rows, dirty, refused>>
           \/ /\ h \in MapFull
              /\ post' = rest /\ rows' = roster_upsert(h, f) /\ refused' = Refusals(h, f)
              /\ dirty' = news /\ UNCHANGED map
           \/ /\ h # Source /\ h \notin MapFull /\ ~Seen(m, f)
              /\ map' = [map EXCEPT ![h] = Applied(m, f)]
              /\ rows' = roster_upsert(h, f) /\ refused' = Refusals(h, f) /\ dirty' = news
              /\ post' = IF f.ttl > 1
                         THEN Post(rest, h, {p \in Linked(h) \ {g} : ~KnowsAlready(p, map'[h].links)},
                                   <<[f EXCEPT !.ttl = @ - 1]>>)
                         ELSE rest
        /\ UNCHANGED <<present, live, started, gen, mask, due, record, shown, changes, edits, settled, refused, edited>>

(* presence_tick at h: rows past their time go, and the record of Source.  *)
roster_expire(h) ==
    LET old == {b \in Names : rows[h][b] = Ttl}
        forgets == map[h].age = Ttl
    IN  /\ old # {} \/ forgets
        /\ rows' = [rows EXCEPT ![h] = [b \in Names |-> IF b \in old THEN Departed ELSE @[b]]]
        /\ map' = IF forgets THEN [map EXCEPT ![h] = NoMap] ELSE map
        /\ dirty' = Marked({h})
        /\ UNCHANGED <<present, live, started, gen, mask, due, record, shown, post, changes, edits, settled, refused, edited>>

(* And the tree is pushed: when it is dirty, and every BOT_TREE_REFRESH.   *)
push_tree(h) ==
    /\ dirty' = dirty \ {h} /\ shown' = [shown EXCEPT ![h] = build_tree(h)]
    /\ edited' = [edited EXCEPT ![h] = {}]
    /\ UNCHANGED <<present, live, started, gen, mask, due, record, map, rows, post, changes, edits, settled, refused>>

-----------------------------------------------------------------------------
Change == changes < MaxChanges /\ changes' = changes + 1 /\ settled' = FALSE /\ UNCHANGED edits

(* What a change of bot b's record at h leaves to the next refresh.        *)
Edits(h, b) ==
    /\ edits < MaxEdits /\ edits' = edits + 1 /\ UNCHANGED <<changes, settled>>
    /\ edited' = IF h \in Viewers THEN [edited EXCEPT ![h] = @ \cup {b}] ELSE edited

(* A bot is created, here or by a sync: nothing marks the tree.            *)
bot_added(h, b) ==
    /\ record[h][b] = "none"
    /\ record' = [record EXCEPT ![h][b] = "active"] /\ Edits(h, b)
    /\ UNCHANGED <<present, live, started, gen, mask, due, map, rows, dirty, shown, post, refused>>

(* A bot is deleted, here or by a sync: its row, if any, goes at once.     *)
retire_revoked_row(h, b) ==
    /\ record[h][b] = "active"
    /\ record' = [record EXCEPT ![h][b] = "revoked"] /\ Edits(h, b)
    /\ rows' = [rows EXCEPT ![h][b] = Departed]
    /\ dirty' = IF rows[h][b] # Departed THEN Marked({h}) ELSE dirty
    /\ UNCHANGED <<present, live, started, gen, mask, due, map, shown, post, refused>>

(* A bot is authenticated, or its connection closes.                       *)
BotComesOrGoes(b) ==
    /\ Change
    /\ b \in present \/ record[Source][b] = "active"
    /\ present' = IF b \in present THEN present \ {b} ELSE present \cup {b}
    /\ due' = TRUE /\ dirty' = Marked({Source})
    /\ UNCHANGED <<live, started, gen, mask, record, map, rows, shown, post, refused, edited>>

(* A link comes up or goes down; each end's next tick sees its links have  *)
(* changed.                                                                *)
LinkFlips(g, h) ==
    /\ Change /\ {g, h} \in Wires
    /\ live' = IF {g, h} \in live THEN live \ {{g, h}} ELSE live \cup {{g, h}}
    /\ post' = [post EXCEPT ![g][h] = <<>>, ![h][g] = <<>>]
    /\ dirty' = Marked({g, h})
    /\ UNCHANGED <<present, started, gen, mask, due, record, map, rows, shown, refused, edited>>

(* Source restarts: its bots and links are gone, and come back.            *)
Restart ==
    /\ Change /\ started' = started + 1
    /\ present' = {} /\ due' = TRUE /\ mask' = {}
    /\ map' = [map EXCEPT ![Source] = NoMap] /\ rows' = [rows EXCEPT ![Source] = [b \in Names |-> Departed]]
    /\ live' = {l \in live : Source \notin l}
    /\ post' = [g \in RHubs |-> [h \in RHubs |-> IF Source \in {g, h} THEN <<>> ELSE post[g][h]]]
    /\ dirty' = Marked({Source} \cup Linked(Source))
    /\ UNCHANGED <<gen, record, shown, refused, edited>>

RosNext ==
    \/ gossip_bot_roster \/ Restart
    \/ \E g, h \in RHubs : process_bot_roster(g, h) \/ LinkFlips(g, h)
    \/ \E h \in RHubs : roster_expire(h) \/ \E b \in Names : bot_added(h, b) \/ retire_revoked_row(h, b)
    \/ \E h \in Viewers : push_tree(h)
    \/ \E b \in Names : BotComesOrGoes(b)

RosSpec == RosInit /\ [][RosNext]_rosVars

-----------------------------------------------------------------------------
Settled == \A g, h \in RHubs : post[g][h] = <<>>

(* Hubs with a live path to Source of at most n links, through hubs that   *)
(* pass frames on.                                                         *)
Within[n \in 0 .. Hops] ==
    IF n = 0 THEN {Source}
    ELSE LET near == Within[n - 1]
         IN  near \cup {h \in RHubs : Linked(h) \cap (near \ MapFull) # {}}

(* Once a round that began after the last change has gone round, every hub *)
(* with a path knows every bot of the origin that it had room for and did  *)
(* not revoke, and unless it restarted its links, whatever was on the way  *)
(* before: the split horizon and the window of frames seen leave nobody    *)
(* out.                                                                    *)
Known == (settled /\ Settled) =>
    \A h \in Within[Hops] \ {Source} :
       /\ \A b \in present : "revoked" \notin {record[Source][b], record[h][b]} /\ <<h, b>> \notin refused =>
             rows[h][b] # Departed
       /\ h \in MapFull \/ started > 1 \/ map[h].links = Linked(Source)

(* A hub with nothing to push has shown its bots the tree as it would      *)
(* build it now: every change of the hubs and of the bots that are up is   *)
(* noticed, through expiry, revocation and a full roster.  Of the bots     *)
(* that are not, the tail may differ, until the refresh, for those whose   *)
(* record changed: nothing marks the tree then (build_tree).               *)
TreeShown ==
    \A h \in Viewers \ dirty :
        LET now == build_tree(h)
            was == shown[h]
        IN  /\ was.hubs = now.hubs /\ was.bots = now.bots
            /\ \A b \in Names \ edited[h] : b \in was.offline <=> b \in now.offline

=============================================================================
