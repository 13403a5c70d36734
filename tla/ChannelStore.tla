---------------------------- MODULE ChannelStore ----------------------------
(***************************************************************************)
(* One hub's store of channels: c| (the channel), C| (its settings), B|    *)
(* (bans of a channel, or of "*") and K| (what bots learned of it), as the *)
(* vector global_entries with an index, class counts and live-ban counts   *)
(* kept beside it step by step.  Writes come from the console, from bots   *)
(* and, with any stamp, from peers; a purge compacts the vector.           *)
(*                                                                         *)
(* A value is its identity, add or del, its stamp and (B|) its expiry.     *)
(***************************************************************************)
EXTENDS Integers, Sequences, FiniteSets, SequencesExt

CONSTANTS
    Chans,      \* channel names; "*" stands for the global bans
    Bans,       \* bans there may be, as <<channel or "*", mask>>
    CapOld, CapC, CapB,      \* MAX_BOT_ENTRIES, MAX_CHANNELS, MAX_BANS_TOTAL
    CapPerChan, CapGlobal,   \* MAX_BANS_PER_CHAN, MAX_GLOBAL_BANS
    MaxFuture,  \* LWW_MAX_FUTURE
    Keep,       \* age a tombstone must reach before it can be evicted
    Hold,       \* PURGE_FLOOR_HOLD
    MaxClock,   \* bound: clock
    Reboots     \* bound: restarts

Global == "*"

ASSUME ChannelStoreAssumption ==
    /\ Global \notin Chans
    /\ \A b \in Bans : b[1] \in Chans \cup {Global}
    /\ {CapOld, CapC, CapB, CapPerChan, CapGlobal, MaxFuture, Keep, Hold, MaxClock, Reboots} \subseteq Nat
    /\ MaxClock >= 1    \* the clock starts at 1

(* An identity: <<"c", chan, "">>, <<"C", chan, "">> or <<"B", chan, mask>>. *)
ChanId == {<<"c", c, "">> : c \in Chans} \cup {<<"C", c, "">> : c \in Chans}
BanId  == {<<"B", b[1], b[2]>> : b \in Bans}
Ids    == ChanId \cup BanId
Stamps == 1 .. MaxClock + MaxFuture + 1
Expiry == 0 .. MaxClock
Entry  == [id : Ids, live : BOOLEAN, ts : Stamps, exp : Expiry]

VARIABLES
    store,  \* ent: global_entries; map, n, bans: global_idx; learned: chan_learned
    clock, floor, until,   \* the clock, purge_floor, purge_floor_until
    boots

csVars == <<store, clock, floor, until, boots>>

Class(id) == IF id[1] = "c" THEN "old" ELSE id[1]
Cap == [old |-> CapOld, C |-> CapC, B |-> CapB]
ban_ceiling(c) == IF c = Global THEN CapGlobal ELSE CapPerChan

-----------------------------------------------------------------------------
(* The derived index                                                       *)

(* The index of a vector, counted afresh.                                  *)
Positions(ent, id) == {i \in 1 .. Len(ent) : ent[i].id = id}
Index(ent) ==
    [id \in {ent[i].id : i \in 1 .. Len(ent)} |->
        CHOOSE i \in Positions(ent, id) : \A j \in Positions(ent, id) : i <= j]
OfClass(k) == {e \in Entry : Class(e.id) = k}
LiveBans(c) == {e \in Entry : e.id[1] = "B" /\ e.id[2] = c /\ e.live}
Count(ent, S) == Cardinality({i \in 1 .. Len(ent) : ent[i] \in S})
ClassCounts(ent) == [k \in DOMAIN Cap |-> Count(ent, OfClass(k))]
BanCounts(ent) == [c \in Chans \cup {Global} |-> Count(ent, LiveBans(c))]

(* global_reindex                                                          *)
global_reindex(s, ent) ==
    [ent |-> ent, map |-> Index(ent), n |-> ClassCounts(ent), bans |-> BanCounts(ent), learned |-> s.learned]

(* gban_adjust, in unsigned arithmetic that stops at zero.                 *)
gban_adjust(bans, c, up) == [bans EXCEPT ![c] = IF up THEN @ + 1 ELSE IF @ = 0 THEN 0 ELSE @ - 1]

(* push and global_note_new                                                *)
global_note_new(s, e) ==
    [ent |-> Append(s.ent, e), learned |-> s.learned, n |-> [s.n EXCEPT ![Class(e.id)] = @ + 1],
     map |-> [id \in DOMAIN s.map \cup {e.id} |-> IF id \in DOMAIN s.map THEN s.map[id] ELSE Len(s.ent) + 1],
     bans |-> IF e.id[1] = "B" /\ e.live THEN gban_adjust(s.bans, e.id[2], TRUE) ELSE s.bans]

(* global_find: position through the index, 0 if none.                     *)
global_find(s, id) == IF id \in DOMAIN s.map THEN s.map[id] ELSE 0
global_ts(s, id) == IF global_find(s, id) = 0 THEN 0 ELSE s.ent[global_find(s, id)].ts
global_room(s, id) == s.n[Class(id)] < Cap[Class(id)]

chan_live(s, c) ==
    LET i == global_find(s, <<"c", c, "">>) IN i # 0 /\ s.ent[i].live

-----------------------------------------------------------------------------
(* Writes                                                                  *)

ts_ahead(ts) == ts > clock + MaxFuture
next_ts(prev) == IF clock > prev THEN clock ELSE prev + 1

(* lww_accepts and rec_accepts on this abstraction: newer wins, on a tie a *)
(* delete beats an add.                                                    *)
accepts(e, cur) ==
    ~ts_ahead(e.ts) /\ (e.ts > cur.ts \/ (e.ts = cur.ts /\ cur.live /\ ~e.live))

purge_floor_blocks(ts) == until > clock /\ ts < floor

(* Mutant: the youngest tombstones go as well.                             *)
EvictableAny(s, class) ==
    {i \in 1 .. Len(s.ent) : Class(s.ent[i].id) = class /\ ~s.ent[i].live}

(* evict_oldest_tombstone: the first of the oldest, and only an old one.   *)
Evictable(s, class) ==
    {i \in 1 .. Len(s.ent) : /\ Class(s.ent[i].id) = class /\ ~s.ent[i].live
                             /\ s.ent[i].ts <= clock - Keep}

swap_remove(ent, i) ==
    [j \in 1 .. Len(ent) - 1 |-> IF j = i THEN ent[Len(ent)] ELSE ent[j]]

evict_oldest_tombstone(s, class) ==
    LET old == Evictable(s, class)
        i   == CHOOSE i \in old : \A j \in old :
                 s.ent[i].ts < s.ent[j].ts \/ (s.ent[i].ts = s.ent[j].ts /\ i <= j)
    IN  IF old = {} THEN s ELSE global_reindex(s, swap_remove(s.ent, i))

(* put_record of a record already stored at i.                             *)
put_existing(s, i, e) ==
    LET cur == s.ent[i]
    IN  IF \/ ~accepts(e, cur)
           \/ e.id[1] = "B" /\ e.live /\ ~cur.live /\ s.bans[e.id[2]] >= ban_ceiling(e.id[2])
        THEN s
        ELSE [s EXCEPT !.ent = [@ EXCEPT ![i] = e],
                       !.bans = IF e.id[1] = "B" /\ e.live # cur.live THEN gban_adjust(@, e.id[2], e.live) ELSE @]

(* put_record: C| and B|.                                                  *)
put_record(s, e) ==
    LET i  == global_find(s, e.id)
        s1 == IF global_room(s, e.id) THEN s ELSE evict_oldest_tombstone(s, Class(e.id))
    IN  IF ts_ahead(e.ts) THEN s
        ELSE IF i # 0 THEN put_existing(s, i, e)
        ELSE IF \/ ~e.live /\ purge_floor_blocks(e.ts)
                \/ e.id[1] = "B" /\ e.live /\ s.bans[e.id[2]] >= ban_ceiling(e.id[2])
        THEN s
        ELSE IF global_room(s1, e.id) THEN global_note_new(s1, e) ELSE s1

(* The entries of ent that are in S, in their order, and puts in a row.    *)
Retain(ent, S) ==
    LET upTo[n \in 0 .. Len(ent)] ==
          IF n = 0 THEN <<>> ELSE IF ent[n] \in S THEN Append(upTo[n - 1], ent[n]) ELSE upTo[n - 1]
    IN  upTo[Len(ent)]
PutAll(s, es) ==
    LET after[n \in 0 .. Len(es)] == IF n = 0 THEN s ELSE put_record(after[n - 1], es[n])
    IN  after[Len(es)]
Deletes(es, ts(_)) == [i \in DOMAIN es |-> [id |-> es[i].id, live |-> FALSE, ts |-> ts(es[i]), exp |-> 0]]

(* chan_cascade_del: K|, then a del on every live C| and B| of c.          *)
PartsOf(c) == {e \in Entry : e.live /\ e.id[1] \in {"C", "B"} /\ e.id[2] = c}
chan_cascade_del(s, c, ts) ==
    PutAll([s EXCEPT !.learned = @ \ {c}], Deletes(Retain(s.ent, PartsOf(c)), LAMBDA e : ts))

(* update_global_entry and store_global_entry_raw: c|.                     *)
update_global_entry(s, e) ==
    LET i == global_find(s, e.id)
    IN  IF i # 0
        THEN IF ~accepts(e, s.ent[i]) THEN s
             ELSE LET s1 == [s EXCEPT !.ent = [@ EXCEPT ![i] = e]]
                  IN  IF e.live THEN s1 ELSE chan_cascade_del(s1, e.id[2], e.ts)
        ELSE IF ts_ahead(e.ts) \/ (~e.live /\ purge_floor_blocks(e.ts)) \/ ~global_room(s, e.id)
        THEN s ELSE global_note_new(s, e)

put(s, e) == IF e.id[1] = "c" THEN update_global_entry(s, e) ELSE put_record(s, e)

-----------------------------------------------------------------------------
(* The operations                                                          *)

Aside == UNCHANGED <<clock, floor, until, boots>>

(* A line of a peer's delta or sync: any record, any stamp.                *)
sync_put(e) == store' = put(store, e) /\ store' # store /\ Aside

(* channel add, channel del, channel set, ban, unban at the console.       *)
add_channel(c) ==
    LET id == <<"c", c, "">>
    IN  /\ store' = put(store, [id |-> id, live |-> TRUE, exp |-> 0,
                                ts |-> next_ts(global_ts(store, id))])
        /\ Aside

chan_del_stamp(c) ==
    LET of == {i \in 1 .. Len(store.ent) : store.ent[i].id[2] = c}
    IN  IF of = {} THEN next_ts(0)
        ELSE next_ts(CHOOSE t \in {store.ent[i].ts : i \in of} :
                           \A i \in of : store.ent[i].ts <= t)

del_channel(c) ==
    LET t == chan_del_stamp(c)
    IN  /\ store' = put(chan_cascade_del(store, c, t),
                        [id |-> <<"c", c, "">>, live |-> FALSE, ts |-> t, exp |-> 0])
        /\ Aside

chanset_put(c, live) ==
    LET id == <<"C", c, "">>
        i  == global_find(store, id)
    IN  /\ chan_live(store, c)
        /\ live \/ (i # 0 /\ store.ent[i].live)
        /\ store' = put(store, [id |-> id, live |-> live, exp |-> 0,
                                ts |-> next_ts(global_ts(store, id))])
        /\ Aside

ban_add(c, m, exp) ==
    LET id == <<"B", c, m>>
        i  == global_find(store, id)
    IN  /\ c = Global \/ chan_live(store, c)
        /\ exp = 0 \/ exp > clock
        /\ \/ i # 0 /\ store.ent[i].live
           \/ store.bans[c] < ban_ceiling(c)
        /\ store' = put(store, [id |-> id, live |-> TRUE, exp |-> exp,
                                ts |-> next_ts(global_ts(store, id))])
        /\ Aside

ban_del(c, m) ==
    LET id == <<"B", c, m>>
        i  == global_find(store, id)
    IN  /\ i # 0 /\ store.ent[i].live
        /\ store' = put(store, [id |-> id, live |-> FALSE, exp |-> 0,
                                ts |-> next_ts(store.ent[i].ts)])
        /\ Aside

(* bans_sweep: a del one past the stamp of every expired ban.              *)
bans_sweep ==
    LET dels == Retain(store.ent, {e \in Entry : e.id[1] = "B" /\ e.live /\ e.exp > 0 /\ e.exp <= clock})
    IN  /\ dels # <<>>
        /\ store' = PutAll(store, Deletes(dels, LAMBDA e : e.ts + 1))
        /\ Aside

(* A K| line of a bot or a peer: only while the channel is live.           *)
learned_put(c) ==
    /\ chan_live(store, c)
    /\ Cardinality(store.learned) < CapC \/ c \in store.learned
    /\ store' = [store EXCEPT !.learned = @ \cup {c}]
    /\ Aside

(* A live C| or B| of a channel that is not live.                          *)
Orphans(s) ==
    {e \in Entry : e.live /\ e.id[1] \in {"C", "B"} /\ e.id[2] # Global /\ ~chan_live(s, e.id[2])}

(* Mutant: the compaction leaves the index as it was.                      *)
purge_chan_orphansStale(s) ==
    [s EXCEPT !.ent = Retain(@, Entry \ Orphans(s)), !.learned = {c \in @ : chan_live(s, c)}]

(* purge_chan_orphans: live C|, B| and K| of a channel that is not live.   *)
purge_chan_orphans(s) ==
    LET kept == Retain(s.ent, Entry \ Orphans(s))
        s1   == IF kept = s.ent THEN s ELSE global_reindex(s, kept)
    IN  [s1 EXCEPT !.learned = {c \in @ : chan_live(s1, c)}]

(* execute_purge: the floor, the tombstones before the cutoff (all of them *)
(* for 0), then the orphans.                                               *)
execute_purge(cutoff) ==
    LET f    == IF cutoff > 0 THEN cutoff ELSE clock
        kept == Retain(store.ent, {e \in Entry : e.live \/ (cutoff # 0 /\ e.ts >= cutoff)})
    IN  /\ store' = purge_chan_orphans(global_reindex(store, kept))
        /\ floor' = IF until <= clock \/ f > floor THEN f ELSE floor
        /\ until' = clock + Hold
        /\ UNCHANGED <<clock, boots>>

ClockTick ==
    /\ clock < MaxClock
    /\ clock' = clock + 1
    /\ UNCHANGED <<store, floor, until, boots>>

(* A restart reloads the records as they are, whatever their stamps; the   *)
(* floor is not kept, and the clock may have been set back.                *)
Reboot ==
    /\ boots < Reboots
    /\ boots' = boots + 1
    /\ \E t \in 1 .. clock : clock' = t
    /\ floor' = 0 /\ until' = 0
    /\ UNCHANGED store

CsInit ==
    /\ store = global_reindex([learned |-> {}], <<>>)
    /\ clock = 1 /\ floor = 0 /\ until = 0 /\ boots = 0

CsNext ==
    \/ \E e \in Entry : e.exp = 0 /\ sync_put(e)
    \/ \E c \in Chans : \/ add_channel(c) \/ del_channel(c) \/ learned_put(c)
                        \/ \E live \in BOOLEAN : chanset_put(c, live)
    \/ \E b \in Bans : ban_del(b[1], b[2]) \/ \E exp \in Expiry : ban_add(b[1], b[2], exp)
    \/ bans_sweep
    \/ \E cutoff \in 0 .. MaxClock : execute_purge(cutoff)
    \/ ClockTick \/ Reboot

CsSpec == CsInit /\ [][CsNext]_csVars

-----------------------------------------------------------------------------
(* Properties                                                              *)

Live(s, id) == \E e \in ToSet(s.ent) : e.id = id /\ e.live

(* The index, the class counts and the live-ban counts, kept step by step  *)
(* through in-place changes, appends, evictions and compactions, are what  *)
(* a fresh count gives; no record is stored twice.                         *)
IndexExact ==
    /\ store = global_reindex(store, store.ent)
    /\ Cardinality(DOMAIN store.map) = Len(store.ent)

(* No sequence of adds, deletes, returns and evictions takes a channel     *)
(* past its ban ceiling or a class past its room.                          *)
Bounded ==
    /\ \A c \in Chans \cup {Global} :
         Cardinality({id \in BanId : id[2] = c /\ Live(store, id)}) <= ban_ceiling(c)
    /\ \A k \in DOMAIN Cap : Count(store.ent, OfClass(k)) <= Cap[k]

(* What bots learned of a channel is never kept without the channel.       *)
LearnedLive == \A c \in store.learned : Live(store, <<"c", c, "">>)

Empty(s, c) == c \notin s.learned /\ \A e \in ToSet(s.ent) : e.id[2] = c => ~e.live

(* channel del takes the channel, its settings, bans and learned state     *)
(* with it, as long as the stamp it takes is within reach of the clock.    *)
DelTakesAll == \A c \in Chans :
    Empty(store', c) \/ ts_ahead(chan_del_stamp(c)) \/ ~del_channel(c)

(* A purge leaves no live settings, ban or learned state of a channel that *)
(* is not live.                                                            *)
NoOrphan(s) ==
    \A e \in ToSet(s.ent) : e.live /\ e.id[2] # Global => Live(s, <<"c", e.id[2], "">>)
PurgeLeavesNoOrphan == NoOrphan(store') \/ \A cutoff \in 0 .. MaxClock : ~execute_purge(cutoff)

(* Only a purge removes a tombstone that has not reached its age: nothing  *)
(* else opens the way for an old add.                                      *)
YoungTombstonesStay ==
    \/ \A e \in ToSet(store.ent) : ~e.live /\ e.ts > clock - Keep => e.id \in DOMAIN store'.map
    \/ \E cutoff \in 0 .. MaxClock : execute_purge(cutoff)

(* The index is exact, the ceilings hold and nothing learned is left over. *)
StoreTrue == IndexExact /\ Bounded /\ LearnedLive

(* What a step may remove: all of a channel with the channel, no orphan    *)
(* left by a purge, and no tombstone before its age.                       *)
StoreSteps == [][DelTakesAll /\ PurgeLeavesNoOrphan /\ YoungTombstonesStay]_csVars
=============================================================================
