----------------------------- MODULE AdminFloor -----------------------------
(***************************************************************************)
(* The admins of the mesh and the floor under them: some live admin must   *)
(* hold the full right +a.  Each hub refuses to remove its last one, but   *)
(* two hubs may each remove a different one before they sync, and a bot    *)
(* may push a removal; the hub that then finds none undoes the removals of *)
(* that race.                                                              *)
(*                                                                         *)
(* A hub's table maps a line key to the record it holds:                   *)
(*    <<"a", x>>   user x        v = 1 live, 0 deleted                     *)
(*    <<"m", x>>   its mask      v = 1 live, 0 deleted                     *)
(*    <<"uf", x>>  its flags     v > Lesser holds +a; smaller is less      *)
(* One mask stands for all of a user's.  Hubs handle one frame at a time.  *)
(*                                                                         *)
(* Users keep the type they were made with.  A hub writes no other; should *)
(* a bot push an o| line with an admin's uuid, the code would take the     *)
(* type with the line, and the restore, which looks at a| records only,    *)
(* would not count that as a removal.                                      *)
(***************************************************************************)
EXTENDS Integers, Sequences, FiniteSets

CONSTANTS
    Hubs, Admins,
    Links,      \* configured pairs of hubs
    Skew,       \* Skew[h]: how far the clock of h runs ahead
    Lesser,     \* flag sets without +a are ranked 1 .. Lesser
    Window,     \* ADMIN_FLOOR_WINDOW
    Ahead,      \* LWW_MAX_FUTURE
    DropLog,    \* ADMIN_DROP_LOG
    MaskTs,     \* stamp of the masks at the start
    PushTs,     \* stamps of what bots push
    MaxNow, MaxOps, MaxDrops  \* bounds: time, all operations, links lost and restarts

ASSUME FloorAssumption ==
    /\ IsFiniteSet(Admins) /\ Admins # {}
    /\ Skew \in [Hubs -> Nat] /\ MaskTs \in Nat /\ PushTs \subseteq Nat
    /\ Lesser \in Nat \ {0} /\ DropLog \in Nat \ {0}
    /\ Window \in Nat /\ Ahead \in Nat
    /\ MaxNow \in Nat /\ MaxOps \in Nat /\ MaxDrops \in Nat
    /\ \A l \in Links : \E g, h \in Hubs : g # h /\ l = {g, h}

VARIABLES
    rec,      \* rec[h]: the table of h
    adrop,    \* adrop[h]: remembered drops of +a, <<user, stamp>>
    wire,     \* wire[g][h]: sync frames on the way
    links,    \* links that are up
    now, ops, drops,
    refused   \* history: a restore was refused, its stamp too far ahead

vars == <<rec, adrop, wire, links, now, ops, drops, refused>>

Keys   == {"a", "m", "uf"} \X Admins
Record == [ts : Nat, v : Nat]
Table  == [Keys -> Record]
Frame  == UNION {[K -> Record] : K \in SUBSET Keys}
A      == Lesser + 1            \* the flag set "a"

TypeOK ==
    /\ rec \in [Hubs -> Table]
    /\ adrop \in [Hubs -> SUBSET (Admins \X Nat)]
    /\ wire \in [Hubs -> [Hubs -> Seq(Frame)]]
    /\ links \subseteq Links
    /\ now \in Nat /\ ops \in Nat /\ drops \in Nat /\ refused \in BOOLEAN

Init ==
    /\ rec = [h \in Hubs |-> [k \in Keys |->
                IF k[1] = "uf" THEN [ts |-> 1, v |-> A]
                ELSE IF k[1] = "m" THEN [ts |-> MaskTs, v |-> 1] ELSE [ts |-> 1, v |-> 1]]]
    /\ adrop = [h \in Hubs |-> {}]
    /\ wire = [g \in Hubs |-> [h \in Hubs |-> <<>>]]
    /\ links = Links
    /\ now = 1 /\ ops = 0 /\ drops = 0 /\ refused = FALSE

-----------------------------------------------------------------------------
(* A table r.                                                              *)

Clock(h) == now + Skew[h]
Peers(h) == {g \in Hubs : g # h /\ {g, h} \in links}

Active(r, x) == r[<<"a", x>>].v = 1
Holds(r, x)  == r[<<"uf", x>>].v > Lesser
FullAdmins(r) == {x \in Admins : Active(r, x) /\ Holds(r, x)}

(* Mutant: the number of admins is counted, not the full ones.             *)
last_full_adminAny(r, x) == ~\E y \in Admins \ {x} : Active(r, y)

last_full_admin(r, x) == Holds(r, x) /\ FullAdmins(r) \subseteq {x}

lww_next_ts(prev, t) == IF t > prev THEN t ELSE prev + 1

(* Mutant: on a tie each side keeps its own.                               *)
AcceptsNewer(in, cur) == in.ts > cur.ts

(* lww_accepts and uflags_accepts: the newer stamp; on a tie a delete, and *)
(* the fewer rights.                                                       *)
Accepts(in, cur) == in.ts > cur.ts \/ (in.ts = cur.ts /\ in.v < cur.v)

(* The lines of frame f that win over r at clock t, and r after them.      *)
Wins(r, f, t)  == {k \in DOMAIN f : Accepts(f[k], r[k]) /\ f[k].ts <= t + Ahead}
Merge(r, f, t) == [k \in Keys |-> IF k \in Wins(r, f, t) THEN f[k] ELSE r[k]]
Part(f, K)     == [k \in K |-> f[k]]

(* uflag_put: the drops of +a from table r to table q; the ring keeps the  *)
(* latest.                                                                 *)
Drops(r, q) == {<<x, q[<<"uf", x>>].ts>> : x \in {y \in Admins : Holds(r, y) /\ ~Holds(q, y)}}
Logged(log, new) ==
    {l \in SUBSET (log \cup new) :
        /\ Cardinality(log \cup new) <= DropLog => l = log \cup new
        /\ Cardinality(log \cup new) > DropLog => Cardinality(l) = DropLog
        /\ new \subseteq l \/ (l \subseteq new /\ Cardinality(l) = DropLog)}

-----------------------------------------------------------------------------
(* admin_floor_restore                                                     *)

(* Mutant: a drop of the flag is not a removal.                            *)
DroppedNever(r, log, x) == FALSE

Dropped(r, log, x) == ~Holds(r, x) /\ <<x, r[<<"uf", x>>].ts>> \in log

Removed(r, log) == {x \in Admins : Dropped(r, log, x) \/ (Holds(r, x) /\ ~Active(r, x))}

RemovedAt(r, log, x) ==
    LET del  == IF Active(r, x) THEN 0 ELSE r[<<"a", x>>].ts
        drop == IF Dropped(r, log, x) THEN r[<<"uf", x>>].ts ELSE 0
    IN  IF drop > del THEN drop ELSE del

(* The removals of one race: those within the window of the newest.        *)
Race(r, log) ==
    {x \in Removed(r, log) : \A y \in Removed(r, log) :
        RemovedAt(r, log, y) <= RemovedAt(r, log, x) + Window}

(* The mask the delete dropped: stamped with it, give or take two.         *)
MaskOf(r, x) ==
    /\ r[<<"m", x>>].v = 0
    /\ r[<<"m", x>>].ts >= r[<<"a", x>>].ts - 2 /\ r[<<"m", x>>].ts <= r[<<"a", x>>].ts + 2

(* The lines a restore of x writes.  uflag_put refuses a stamp too far     *)
(* ahead of clock t.                                                       *)
Undoes(r, x, k, t) ==
    /\ k[2] = x
    /\ \/ k[1] = "a" /\ ~Active(r, x)
       \/ k[1] = "m" /\ ~Active(r, x) /\ MaskOf(r, x)
       \/ k[1] = "uf" /\ ~Holds(r, x) /\ r[k].ts + 1 <= t + Ahead
Undone(r, log, t) ==
    IF FullAdmins(r) # {} THEN {}
    ELSE {k \in Keys : k[2] \in Race(r, log) /\ Undoes(r, k[2], k, t)}

admin_floor_restore(r, log, t) ==
    [k \in Keys |-> IF k \in Undone(r, log, t)
                    THEN [ts |-> r[k].ts + 1, v |-> IF k[1] = "uf" THEN A ELSE 1] ELSE r[k]]

Refuses(r, log, t) ==
    /\ FullAdmins(r) = {}
    /\ \E x \in Race(r, log) : ~Holds(r, x) /\ r[<<"uf", x>>].ts + 1 > t + Ahead

-----------------------------------------------------------------------------
(* Frames                                                                  *)

Sent(w, h, to, f) ==
    IF DOMAIN f = {} THEN w
    ELSE [w EXCEPT ![h] = [g \in Hubs |-> IF g \in to THEN Append(w[h][g], f) ELSE w[h][g]]]

(* Mutant: a frame that changed nothing is sent back as well.              *)
syncEchoes(h, f, to, w) ==
    LET q == Merge(rec[h], f, Clock(h))
    IN  IF Wins(rec[h], f, Clock(h)) = {}
        THEN wire' = Sent(w, h, Peers(h), f) /\ UNCHANGED <<rec, adrop, refused>>
        ELSE \E log \in Logged(adrop[h], Drops(rec[h], q)) :
               LET s == admin_floor_restore(q, log, Clock(h))
               IN  /\ rec' = [rec EXCEPT ![h] = s]
                   /\ adrop' = [adrop EXCEPT ![h] = log]
                   /\ refused' = (refused \/ Refuses(q, log, Clock(h)))
                   /\ wire' = Sent(Sent(w, h, Peers(h), Part(s, Undone(q, log, Clock(h)))),
                                   h, to, Part(f, Wins(rec[h], f, Clock(h))))

(* process_peer_sync and the bot's config push: take what wins, restore    *)
(* when no full admin is left, tell everybody of that and pass the rest on *)
(* to the hubs in to.  w: the wires with the frame taken off.              *)
sync(h, f, to, w) ==
    LET q == Merge(rec[h], f, Clock(h))
    IN  IF Wins(rec[h], f, Clock(h)) = {}
        THEN wire' = w /\ UNCHANGED <<rec, adrop, refused>>
        ELSE \E log \in Logged(adrop[h], Drops(rec[h], q)) :
               LET s == admin_floor_restore(q, log, Clock(h))
               IN  /\ rec' = [rec EXCEPT ![h] = s]
                   /\ adrop' = [adrop EXCEPT ![h] = log]
                   /\ refused' = (refused \/ Refuses(q, log, Clock(h)))
                   /\ wire' = Sent(Sent(w, h, Peers(h), Part(s, Undone(q, log, Clock(h)))),
                                   h, to, Part(f, Wins(rec[h], f, Clock(h))))

(* A console of h deletes user x, with its mask.                           *)
del_user_record(h, x) ==
    LET r == rec[h]
        K == {k \in Keys : k[2] = x /\ k[1] # "uf" /\ r[k].v = 1}
        q == [k \in Keys |-> IF k \in K THEN [ts |-> lww_next_ts(r[k].ts, Clock(h)), v |-> 0] ELSE r[k]]
    IN  /\ ops + drops < MaxOps /\ Active(r, x) /\ ~last_full_admin(r, x)
        /\ ops' = ops + 1
        /\ rec' = [rec EXCEPT ![h] = q]
        /\ wire' = Sent(wire, h, Peers(h), Part(q, K))
        /\ UNCHANGED <<adrop, links, now, drops, refused>>

(* A console of h sets the flags of x.                                     *)
user_access(h, x, fl) ==
    LET r == rec[h]
        k == <<"uf", x>>
        q == [r EXCEPT ![k] = [ts |-> lww_next_ts(r[k].ts, Clock(h)), v |-> fl]]
    IN  /\ ops + drops < MaxOps /\ Active(r, x) /\ fl # r[k].v
        /\ fl <= Lesser => ~last_full_admin(r, x)
        /\ q[k].ts <= Clock(h) + Ahead
        /\ ops' = ops + 1
        /\ rec' = [rec EXCEPT ![h] = q]
        /\ \E log \in Logged(adrop[h], Drops(r, q)) : adrop' = [adrop EXCEPT ![h] = log]
        /\ wire' = Sent(wire, h, Peers(h), Part(q, {k}))
        /\ UNCHANGED <<links, now, drops, refused>>

(* A bot that was without a hub pushes a removal of x it made.             *)
BotPush(h, k, in) ==
    /\ ops + drops < MaxOps /\ k[1] # "m" /\ in.ts <= Clock(h) + Ahead
    /\ IF k[1] = "a" THEN in.v = 0 ELSE in.v \in 1 .. Lesser
    /\ ops' = ops + 1
    /\ sync(h, [j \in {k} |-> in], Peers(h), wire)
    /\ UNCHANGED <<links, now, drops>>

process_peer_sync(g, h) ==
    /\ wire[g][h] # <<>>
    /\ sync(h, Head(wire[g][h]), Peers(h) \ {g}, [wire EXCEPT ![g][h] = Tail(@)])
    /\ UNCHANGED <<links, now, ops, drops>>

(* A link is lost with what is on it; a new one starts with full syncs.    *)
LinkDown(g, h) ==
    /\ g # h /\ {g, h} \in links /\ drops < MaxDrops /\ ops + drops < MaxOps
    /\ drops' = drops + 1 /\ links' = links \ {{g, h}}
    /\ wire' = [wire EXCEPT ![g][h] = <<>>, ![h][g] = <<>>]
    /\ UNCHANGED <<rec, adrop, now, ops, refused>>

LinkUp(g, h) ==
    /\ g # h /\ {g, h} \in Links \ links
    /\ links' = links \cup {{g, h}}
    /\ wire' = [wire EXCEPT ![g][h] = <<rec[g]>>, ![h][g] = <<rec[h]>>]
    /\ UNCHANGED <<rec, adrop, now, ops, drops, refused>>

(* A restart keeps the config file and forgets adrop.                      *)
Restart(h) ==
    /\ drops < MaxDrops /\ ops + drops < MaxOps
    /\ drops' = drops + 1 /\ links' = {l \in links : h \notin l}
    /\ adrop' = [adrop EXCEPT ![h] = {}]
    /\ wire' = [g \in Hubs |-> [k \in Hubs |-> IF h \in {g, k} THEN <<>> ELSE wire[g][k]]]
    /\ UNCHANGED <<rec, now, ops, refused>>

Tick == now < MaxNow /\ now' = now + 1 /\ UNCHANGED <<rec, adrop, wire, links, ops, drops, refused>>

Next ==
    \/ \E h \in Hubs, x \in Admins : del_user_record(h, x)
    \/ \E h \in Hubs, x \in Admins, fl \in 1 .. A : user_access(h, x, fl)
    \/ \E h \in Hubs, k \in Keys, ts \in PushTs, v \in 0 .. Lesser :
         BotPush(h, k, [ts |-> ts, v |-> v])
    \/ \E g, h \in Hubs : process_peer_sync(g, h) \/ LinkDown(g, h) \/ LinkUp(g, h)
    \/ \E h \in Hubs : Restart(h)
    \/ Tick

(* A frame that arrived is read, and a peer that is down is dialled again. *)
Fairness == \A g, h \in Hubs : WF_vars(process_peer_sync(g, h)) /\ WF_vars(LinkUp(g, h))

Spec == Init /\ [][Next]_vars /\ Fairness

-----------------------------------------------------------------------------
(* Properties                                                              *)

(* Every hub has a live full admin after every step, whatever removals     *)
(* were made apart and however they meet; the one way out is a restore     *)
(* whose stamp would be too far ahead of the clock.                        *)
FloorHolds == refused \/ \A h \in Hubs : FullAdmins(rec[h]) # {}

(* "each writes the same records and the mesh agrees": once the links are  *)
(* up and nothing is on the way, all hubs hold the same tables.            *)
Quiet == links = Links /\ \A g, h \in Hubs : wire[g][h] = <<>>
Agree == Quiet /\ ~refused => \A g, h \in Hubs : rec[g] = rec[h]

(* Removals, restores and their echoes come to an end.                     *)
Settles == <>[](refused \/ (Quiet /\ \A g, h \in Hubs : rec[g] = rec[h]))
=============================================================================
