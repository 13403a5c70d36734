-------------------------- MODULE AdminFloorProofs --------------------------
(***************************************************************************)
(* The floor under the admins holds for any number of hubs and admins, any *)
(* mesh, any clocks and any order of frames, lost links and restarts.      *)
(*                                                                         *)
(* The heart is one frame at one hub: whatever takes the last full admin   *)
(* leaves a removal the hub can undo, because it is either a deleted user  *)
(* that still has its flag or a drop just written to the ring; the newest  *)
(* of the removals is in the race, and what is undone is full again.       *)
(***************************************************************************)
EXTENDS AdminFloor, FiniteSetTheorems, WellFoundedInduction, TLAPS

(* A finite set with a natural number for every element has an element     *)
(* with the largest one: removals have a newest (newest.max in the code).  *)
LEMMA Newest ==
    ASSUME NEW S, IsFiniteSet(S), S # {}, NEW T \in [S -> Nat]
    PROVE  \E m \in S : \A y \in S : T[y] <= T[m]
<1> DEFINE Over(n) == {y \in S : T[y] >= T[n]}
           D == {Over(n) : n \in S}
<1>1. D \subseteq FiniteSubsetsOf(S) /\ D # {}
  <2>1. \A n \in S : Over(n) \in SUBSET S  OBVIOUS
  <2>2. \A n \in S : IsFiniteSet(Over(n))  BY <2>1, FS_Subset
  <2> HIDE DEF Over
  <2>3. \A e \in D : e \in SUBSET S /\ IsFiniteSet(e)  BY <2>1, <2>2
  <2>4. D # {}  OBVIOUS
  <2> HIDE DEF D
  <2> QED BY <2>3, <2>4 DEF FiniteSubsetsOf
<1> HIDE DEF D
<1>2. PICK d \in D : \A e \in D : ~(<<e, d>> \in StrictSubsetOrdering(S))
  BY <1>1, FS_StrictSubsetOrderingWellFounded, WFMin
<1>3. PICK m \in S : d = Over(m)  BY <1>2 DEF D
<1>4. ASSUME NEW y \in S, ~(T[y] <= T[m]) PROVE FALSE
  <2>1. Over(y) \in D  BY DEF D
  <2>2. T[y] \in Nat /\ T[m] \in Nat  OBVIOUS
  <2>3. Over(y) \subseteq d /\ Over(y) # d
    <3>1. m \in d /\ m \notin Over(y)  BY <1>3, <1>4, <2>2
    <3>2. \A u \in Over(y) : u \in Over(m)  BY <1>4, <2>2
    <3> QED BY <3>1, <3>2, <1>3
  <2> QED BY <1>1, <1>2, <2>1, <2>3 DEF StrictSubsetOrdering, FiniteSubsetsOf
<1> QED BY <1>4

-----------------------------------------------------------------------------
(* Types of what one frame writes.                                         *)

LEMMA KeyFacts ==
    \A x \in Admins : <<"a", x>> \in Keys /\ <<"m", x>> \in Keys /\ <<"uf", x>> \in Keys
BY DEF Keys

LEMMA FrameFacts ==
    ASSUME NEW f \in Frame
    PROVE  DOMAIN f \subseteq Keys /\ \A k \in DOMAIN f : f[k] \in Record
BY DEF Frame

LEMMA PartFrame ==
    ASSUME NEW f, NEW K \in SUBSET Keys, \A k \in K : f[k] \in Record
    PROVE  Part(f, K) \in Frame
<1>1. Part(f, K) \in [K -> Record]  BY DEF Part
<1> QED BY <1>1 DEF Frame

LEMMA MergeTable ==
    ASSUME NEW r \in Table, NEW f \in Frame, NEW t \in Nat
    PROVE  Merge(r, f, t) \in Table /\ Wins(r, f, t) \subseteq DOMAIN f
<1>1. Wins(r, f, t) \subseteq DOMAIN f  BY DEF Wins
<1>2. \A k \in Keys : (IF k \in Wins(r, f, t) THEN f[k] ELSE r[k]) \in Record
  BY <1>1, FrameFacts DEF Table
<1> QED BY <1>1, <1>2 DEF Merge, Table

LEMMA RestoreTable ==
    ASSUME NEW r \in Table, NEW log, NEW t \in Nat
    PROVE  admin_floor_restore(r, log, t) \in Table
<1> SUFFICES ASSUME NEW k \in Keys
             PROVE  (IF k \in Undone(r, log, t)
                     THEN [ts |-> r[k].ts + 1, v |-> IF k[1] = "uf" THEN A ELSE 1] ELSE r[k]) \in Record
  BY DEF admin_floor_restore, Table
<1>1. r[k] \in Record /\ r[k].ts + 1 \in Nat  BY DEF Table, Record
<1>2. A \in Nat  BY FloorAssumption DEF A
<1> QED BY <1>1, <1>2 DEF Record

-----------------------------------------------------------------------------
(* One frame at one hub.                                                   *)

(* A removal of +a is written to the ring: of new entries, one is in it.   *)
LEMMA RingKeeps ==
    ASSUME NEW log, NEW new, new # {}, NEW l \in Logged(log, new)
    PROVE  \E e \in new : e \in l
<1>1. CASE new \subseteq l  BY <1>1
<1>2. CASE l \subseteq new /\ Cardinality(l) = DropLog
  <2>1. l # {}  BY <1>2, FS_EmptySet, FloorAssumption
  <2> QED BY <1>2, <2>1
<1> QED BY <1>1, <1>2 DEF Logged

(* The race is not empty when there is a removal.                          *)
LEMMA RaceNonempty ==
    ASSUME NEW r \in Table, NEW log, Removed(r, log) # {}
    PROVE  Race(r, log) # {}
<1> DEFINE S == Removed(r, log)
           at == [x \in S |-> RemovedAt(r, log, x)]
<1>1. S \subseteq Admins  BY DEF Removed
<1>2. IsFiniteSet(S)  BY <1>1, FloorAssumption, FS_Subset
<1>3. \A x \in S : RemovedAt(r, log, x) \in Nat
  BY <1>1, KeyFacts DEF RemovedAt, Table, Record
<1>4. at \in [S -> Nat]  BY <1>3
<1>5. PICK m \in S : \A y \in S : at[y] <= at[m]
  <2> HIDE DEF S, at
  <2> QED BY <1>2, <1>4, Newest DEF S
<1>6. \A y \in S : RemovedAt(r, log, y) <= RemovedAt(r, log, m) + Window
  BY <1>3, <1>5, FloorAssumption
<1> QED BY <1>6 DEF Race

(* Whatever takes the last full admin leaves a removal to undo.            *)
LEMMA RemovalLeft ==
    ASSUME NEW r \in Table, NEW q \in Table, FullAdmins(r) # {}, FullAdmins(q) = {},
           NEW old, NEW log \in Logged(old, Drops(r, q))
    PROVE  Removed(q, log) # {}
<1>1. PICK x \in Admins : Active(r, x) /\ Holds(r, x)  BY DEF FullAdmins
<1>2. CASE Holds(q, x)
  BY <1>2 DEF FullAdmins, Removed
<1>3. CASE ~Holds(q, x)
  <2>1. <<x, q[<<"uf", x>>].ts>> \in Drops(r, q)  BY <1>1, <1>3 DEF Drops
  <2>2. PICK e \in Drops(r, q) : e \in log  BY <2>1, RingKeeps
  <2>3. PICK y \in Admins : ~Holds(q, y) /\ e = <<y, q[<<"uf", y>>].ts>>  BY <2>2 DEF Drops
  <2> QED BY <2>2, <2>3 DEF Removed, Dropped
<1> QED BY <1>2, <1>3

(* What is undone is a full admin again, unless its stamp is refused.      *)
LEMMA UndoneIsFull ==
    ASSUME NEW r \in Table, NEW log, NEW t \in Nat, FullAdmins(r) = {},
           NEW x \in Race(r, log), ~Refuses(r, log, t)
    PROVE  x \in FullAdmins(admin_floor_restore(r, log, t))
<1> DEFINE s == admin_floor_restore(r, log, t)
           ka == <<"a", x>>
           kf == <<"uf", x>>
<1>1. x \in Admins  BY DEF Race, Removed
<1>2. ka \in Keys /\ kf \in Keys /\ ka[1] = "a" /\ ka[2] = x /\ kf[1] = "uf" /\ kf[2] = x
  BY <1>1 DEF Keys
<1>3. s[ka].v = 1
  <2>1. ka \in Undone(r, log, t) <=> ~Active(r, x)
    BY <1>2 DEF Undone, Undoes
  <2>2. s[ka] = IF ka \in Undone(r, log, t) THEN [ts |-> r[ka].ts + 1, v |-> 1] ELSE r[ka]
    BY <1>2 DEF admin_floor_restore
  <2> QED BY <2>1, <2>2 DEF Active
<1>4. s[kf].v > Lesser
  <2>1. r[kf].ts \in Nat /\ r[kf].v \in Nat /\ Ahead \in Nat /\ Lesser \in Nat
    BY <1>2, FloorAssumption DEF Table, Record
  <2>2. ~Holds(r, x) => r[kf].ts + 1 <= t + Ahead
    BY <2>1 DEF Refuses
  <2>3. kf \in Undone(r, log, t) <=> ~Holds(r, x)
    BY <1>2, <2>2 DEF Undone, Undoes
  <2>4. s[kf] = IF kf \in Undone(r, log, t) THEN [ts |-> r[kf].ts + 1, v |-> A] ELSE r[kf]
    BY <1>2 DEF admin_floor_restore
  <2> QED BY <2>1, <2>3, <2>4 DEF Holds, A
<1> QED BY <1>1, <1>3, <1>4 DEF FullAdmins, Active, Holds

(* One frame: a hub with a full admin has one afterwards.                  *)
LEMMA FrameKeepsFloor ==
    ASSUME NEW r \in Table, NEW q \in Table, NEW t \in Nat, FullAdmins(r) # {},
           NEW old, NEW log \in Logged(old, Drops(r, q)), ~Refuses(q, log, t)
    PROVE  FullAdmins(admin_floor_restore(q, log, t)) # {}
<1>1. CASE FullAdmins(q) # {}
  <2>1. \A k \in Keys : admin_floor_restore(q, log, t)[k] = q[k]
    BY <1>1 DEF admin_floor_restore, Undone
  <2> QED BY <1>1, <2>1, KeyFacts DEF FullAdmins, Active, Holds
<1>2. CASE FullAdmins(q) = {}
  <2>1. PICK x : x \in Race(q, log)  BY <1>2, RemovalLeft, RaceNonempty
  <2> QED BY <1>2, <2>1, UndoneIsFull
<1> QED BY <1>1, <1>2

-----------------------------------------------------------------------------
(* The steps.                                                              *)

Wires == [Hubs -> [Hubs -> Seq(Frame)]]

LEMMA SentWires ==
    ASSUME NEW w \in Wires, NEW h \in Hubs, NEW to, NEW f \in Frame
    PROVE  Sent(w, h, to, f) \in Wires
<1>1. \A g \in Hubs : w[h][g] \in Seq(Frame) /\ Append(w[h][g], f) \in Seq(Frame)
  BY DEF Wires
<1>2. [g \in Hubs |-> IF g \in to THEN Append(w[h][g], f) ELSE w[h][g]] \in [Hubs -> Seq(Frame)]
  BY <1>1
<1> QED BY <1>2 DEF Sent, Wires

(* What the steps need of the types.                                       *)
LEMMA Typed ==
    ASSUME TypeOK
    PROVE  /\ wire \in Wires /\ rec \in [Hubs -> Table] /\ adrop \in [Hubs -> SUBSET (Admins \X Nat)]
           /\ \A h \in Hubs : rec[h] \in Table /\ Clock(h) \in Nat
BY FloorAssumption DEF TypeOK, Wires, Clock

LEMMA DropsTyped ==
    ASSUME NEW r \in Table, NEW q \in Table, NEW old \in SUBSET (Admins \X Nat),
           NEW log \in Logged(old, Drops(r, q))
    PROVE  log \in SUBSET (Admins \X Nat)
<1>1. \A x \in Admins : q[<<"uf", x>>].ts \in Nat  BY KeyFacts DEF Table, Record
<1>2. Drops(r, q) \subseteq Admins \X Nat
  <2> SUFFICES ASSUME NEW e \in Drops(r, q) PROVE e \in Admins \X Nat  OBVIOUS
  <2>1. PICK x \in Admins : e = <<x, q[<<"uf", x>>].ts>>  BY DEF Drops
  <2> QED BY <1>1, <2>1
<1> QED BY <1>2 DEF Logged

(* A frame taken by hub h, from a peer or a bot.                           *)
LEMMA SyncStep ==
    ASSUME TypeOK, FloorHolds, NEW h \in Hubs, NEW f \in Frame, NEW to, NEW w \in Wires, sync(h, f, to, w)
    PROVE  /\ rec' \in [Hubs -> Table] /\ adrop' \in [Hubs -> SUBSET (Admins \X Nat)]
           /\ wire' \in Wires /\ refused' \in BOOLEAN /\ FloorHolds'
<1> DEFINE q == Merge(rec[h], f, Clock(h))
<1> USE Typed
<1>1. q \in Table /\ Wins(rec[h], f, Clock(h)) \subseteq DOMAIN f  BY MergeTable
<1>2. CASE Wins(rec[h], f, Clock(h)) = {}
  BY <1>2 DEF sync, FloorHolds, TypeOK
<1>3. CASE Wins(rec[h], f, Clock(h)) # {}
  <2>1. PICK log \in Logged(adrop[h], Drops(rec[h], q)) :
          /\ rec' = [rec EXCEPT ![h] = admin_floor_restore(q, log, Clock(h))]
          /\ adrop' = [adrop EXCEPT ![h] = log]
          /\ refused' = (refused \/ Refuses(q, log, Clock(h)))
          /\ wire' = Sent(Sent(w, h, Peers(h), Part(admin_floor_restore(q, log, Clock(h)), Undone(q, log, Clock(h)))),
                          h, to, Part(f, Wins(rec[h], f, Clock(h))))
    BY <1>3 DEF sync
  <2> DEFINE s == admin_floor_restore(q, log, Clock(h))
  <2>2. s \in Table  BY <1>1, RestoreTable
  <2>3. log \in SUBSET (Admins \X Nat)  BY <1>1, DropsTyped
  <2>4. Part(s, Undone(q, log, Clock(h))) \in Frame
    <3>1. Undone(q, log, Clock(h)) \in SUBSET Keys  BY DEF Undone
    <3>2. \A k \in Undone(q, log, Clock(h)) : s[k] \in Record  BY <2>2, <3>1 DEF Table
    <3> QED BY <3>1, <3>2, PartFrame
  <2>5. Part(f, Wins(rec[h], f, Clock(h))) \in Frame
    <3>1. Wins(rec[h], f, Clock(h)) \in SUBSET Keys  BY <1>1, FrameFacts
    <3>2. \A k \in Wins(rec[h], f, Clock(h)) : f[k] \in Record  BY <1>1, FrameFacts
    <3> QED BY <3>1, <3>2, PartFrame
  <2>6. wire' \in Wires  BY <2>1, <2>4, <2>5, SentWires
  <2>7. refused' \in BOOLEAN  BY <2>1 DEF TypeOK
  <2>8. FloorHolds'
    <3>1. CASE refused'  BY <3>1 DEF FloorHolds
    <3>2. CASE ~refused'
      <4>1. ~refused /\ ~Refuses(q, log, Clock(h))  BY <2>1, <3>2
      <4>2. \A g \in Hubs : FullAdmins(rec[g]) # {}  BY <4>1 DEF FloorHolds
      <4>3. FullAdmins(s) # {}
        <5> HIDE DEF q
        <5> QED BY <1>1, <4>1, <4>2, FrameKeepsFloor
      <4>4. \A g \in Hubs : rec'[g] = IF g = h THEN s ELSE rec[g]
        <5> HIDE DEF s
        <5> QED BY <2>1 DEF s
      <4>5. \A g \in Hubs : FullAdmins(rec'[g]) # {}
        <5> HIDE DEF s
        <5> QED BY <4>2, <4>3, <4>4
      <4> QED BY <4>5 DEF FloorHolds, FullAdmins, Active, Holds
    <3> QED BY <3>1, <3>2
  <2> HIDE DEF s
  <2> QED BY <2>1, <2>2, <2>3, <2>6, <2>7, <2>8 DEF s
<1> QED BY <1>2, <1>3

(* The admins of the other tables stay; this one's are those of q.         *)
LEMMA OneTable ==
    ASSUME TypeOK, FloorHolds, NEW h \in Hubs, NEW q \in Table,
           rec' = [rec EXCEPT ![h] = q], refused' = refused,
           FullAdmins(rec[h]) # {} => FullAdmins(q) # {}
    PROVE  rec' \in [Hubs -> Table] /\ FloorHolds'
<1>1. \A g \in Hubs : rec'[g] = IF g = h THEN q ELSE rec[g]  BY Typed
<1>2. refused \/ \A g \in Hubs : FullAdmins(rec'[g]) # {}  BY <1>1 DEF FloorHolds
<1> QED BY <1>2, Typed DEF FloorHolds, FullAdmins, Active, Holds

LEMMA NextTs == \A p, t \in Nat : lww_next_ts(p, t) \in Nat
BY DEF lww_next_ts

LEMMA DelUser ==
    ASSUME TypeOK, FloorHolds, NEW h \in Hubs, NEW x \in Admins, del_user_record(h, x)
    PROVE  TypeOK' /\ FloorHolds'
<1> DEFINE r == rec[h]
           K == {k \in Keys : k[2] = x /\ k[1] # "uf" /\ r[k].v = 1}
           q == [k \in Keys |-> IF k \in K THEN [ts |-> lww_next_ts(r[k].ts, Clock(h)), v |-> 0] ELSE r[k]]
<1>1. r \in Table /\ Clock(h) \in Nat  BY Typed
<1>2. q \in Table
  <2>1. \A k \in Keys : r[k] \in Record /\ [ts |-> lww_next_ts(r[k].ts, Clock(h)), v |-> 0] \in Record
    BY <1>1, NextTs DEF Table, Record
  <2> QED BY <2>1 DEF Table
<1>3. \A y \in Admins \ {x} : y \in FullAdmins(r) => y \in FullAdmins(q)
  <2>1. \A y \in Admins \ {x} : q[<<"a", y>>] = r[<<"a", y>>] /\ q[<<"uf", y>>] = r[<<"uf", y>>]
    BY KeyFacts
  <2> QED BY <2>1 DEF FullAdmins, Active, Holds
<1>4. Active(r, x) /\ ~last_full_admin(r, x) /\ rec' = [rec EXCEPT ![h] = q]
      /\ wire' = Sent(wire, h, Peers(h), Part(q, K)) /\ ops' = ops + 1
      /\ UNCHANGED <<adrop, links, now, drops, refused>>
  BY DEF del_user_record
<1>5. FullAdmins(r) # {} => FullAdmins(q) # {}
  BY <1>3, <1>4 DEF last_full_admin, FullAdmins
<1>6. Part(q, K) \in Frame
  BY <1>2, PartFrame DEF Table
<1>7. wire' \in Wires  BY <1>4, <1>6, SentWires, Typed
<1> HIDE DEF q
<1>8. rec' \in [Hubs -> Table] /\ FloorHolds'  BY <1>2, <1>4, <1>5, OneTable
<1>9. adrop' \in [Hubs -> SUBSET (Admins \X Nat)] /\ links' \subseteq Links /\ now' \in Nat
      /\ ops' \in Nat /\ drops' \in Nat
  BY <1>4 DEF TypeOK
<1>10. refused' \in BOOLEAN  BY <1>4 DEF TypeOK
<1> QED BY <1>7, <1>8, <1>9, <1>10 DEF TypeOK, Wires

LEMMA UserAccess ==
    ASSUME TypeOK, FloorHolds, NEW h \in Hubs, NEW x \in Admins, NEW fl \in 1 .. A, user_access(h, x, fl)
    PROVE  TypeOK' /\ FloorHolds'
<1> DEFINE r == rec[h]
           k == <<"uf", x>>
           q == [r EXCEPT ![k] = [ts |-> lww_next_ts(r[k].ts, Clock(h)), v |-> fl]]
<1>1. r \in Table /\ Clock(h) \in Nat /\ k \in Keys /\ fl \in Nat /\ Lesser \in Nat
  <2>1. A \in Nat /\ Lesser \in Nat  BY FloorAssumption DEF A
  <2>2. fl \in Nat  BY <2>1
  <2> QED BY <2>1, <2>2, Typed, KeyFacts
<1>2. q \in Table
  <2>1. [ts |-> lww_next_ts(r[k].ts, Clock(h)), v |-> fl] \in Record
    BY <1>1, NextTs DEF Table, Record
  <2> QED BY <1>1, <2>1 DEF Table
<1>3. /\ \A y \in Admins \ {x} : y \in FullAdmins(r) => y \in FullAdmins(q)
      /\ fl > Lesser /\ x \in FullAdmins(r) => x \in FullAdmins(q)
  <2>1. \A y \in Admins : q[<<"a", y>>] = r[<<"a", y>>]
    BY <1>1, KeyFacts DEF Table
  <2>2. \A y \in Admins \ {x} : q[<<"uf", y>>] = r[<<"uf", y>>]
    BY <1>1, KeyFacts DEF Table
  <2>3. q[k].v = fl  BY <1>1 DEF Table
  <2> HIDE DEF q
  <2> QED BY <2>1, <2>2, <2>3 DEF FullAdmins, Active, Holds
<1>4. /\ fl <= Lesser => ~last_full_admin(r, x)
      /\ rec' = [rec EXCEPT ![h] = q] /\ wire' = Sent(wire, h, Peers(h), Part(q, {k}))
      /\ ops' = ops + 1 /\ UNCHANGED <<links, now, drops, refused>>
  BY DEF user_access
<1>5. PICK log \in Logged(adrop[h], Drops(r, q)) : adrop' = [adrop EXCEPT ![h] = log]
  BY DEF user_access
<1>6. adrop' \in [Hubs -> SUBSET (Admins \X Nat)]
  <2> HIDE DEF q
  <2>1. log \in SUBSET (Admins \X Nat)  BY <1>1, <1>2, Typed, DropsTyped
  <2> QED BY <1>5, <2>1, Typed
<1>7. FullAdmins(r) # {} => FullAdmins(q) # {}
  <2>1. CASE fl > Lesser  BY <2>1, <1>3 DEF FullAdmins
  <2>2. CASE fl <= Lesser
    <3>1. ~last_full_admin(r, x)  BY <2>2, <1>4
    <3> QED BY <3>1, <1>3 DEF last_full_admin, FullAdmins
  <2> QED BY <2>1, <2>2, <1>1
<1> HIDE DEF q
<1>8. Part(q, {k}) \in Frame
  BY <1>1, <1>2, PartFrame DEF Table
<1>9. wire' \in Wires  BY <1>4, <1>8, SentWires, Typed
<1>10. rec' \in [Hubs -> Table] /\ FloorHolds'  BY <1>2, <1>4, <1>7, OneTable
<1>11. links' \subseteq Links /\ now' \in Nat /\ ops' \in Nat /\ drops' \in Nat
  BY <1>4 DEF TypeOK
<1>12. refused' \in BOOLEAN  BY <1>4 DEF TypeOK
<1> QED BY <1>6, <1>9, <1>10, <1>11, <1>12 DEF TypeOK, Wires

LEMMA Push ==
    ASSUME TypeOK, FloorHolds, NEW h \in Hubs, NEW k \in Keys, NEW in \in Record, BotPush(h, k, in)
    PROVE  TypeOK' /\ FloorHolds'
<1> DEFINE f == [j \in {k} |-> in]
<1>1. f \in Frame
  <2>1. f \in [{k} -> Record] /\ {k} \in SUBSET Keys  OBVIOUS
  <2> HIDE DEF f
  <2> QED BY <2>1 DEF Frame
<1>2. sync(h, f, Peers(h), wire) /\ ops' = ops + 1 /\ UNCHANGED <<links, now, drops>>
  BY DEF BotPush
<1> HIDE DEF f
<1> QED BY <1>1, <1>2, Typed, SyncStep DEF TypeOK, Wires

LEMMA PeerSync ==
    ASSUME TypeOK, FloorHolds, NEW g \in Hubs, NEW h \in Hubs, process_peer_sync(g, h)
    PROVE  TypeOK' /\ FloorHolds'
<1> DEFINE f == Head(wire[g][h])
           w == [wire EXCEPT ![g][h] = Tail(@)]
<1>1. wire[g][h] \in Seq(Frame) /\ wire[g][h] # <<>>  BY Typed DEF Wires, process_peer_sync
<1>2. f \in Frame /\ Tail(wire[g][h]) \in Seq(Frame)  BY <1>1
<1>3. w \in Wires  BY <1>2, Typed DEF Wires
<1>4. sync(h, f, Peers(h) \ {g}, w) /\ UNCHANGED <<links, now, ops, drops>>
  BY DEF process_peer_sync
<1> HIDE DEF f, w
<1> QED BY <1>2, <1>3, <1>4, SyncStep DEF TypeOK, Wires

(* A full sync is a frame.                                                 *)
LEMMA TableFrame == Table \subseteq Frame
BY DEF Table, Frame

LEMMA LinkSteps ==
    ASSUME TypeOK, FloorHolds, NEW g \in Hubs, NEW h \in Hubs, LinkDown(g, h) \/ LinkUp(g, h) \/ Restart(h)
    PROVE  TypeOK' /\ FloorHolds'
<1>0. rec' = rec /\ refused' = refused
  BY DEF LinkDown, LinkUp, Restart
<1>1. FloorHolds'  BY <1>0 DEF FloorHolds, FullAdmins, Active, Holds
<1>2. CASE LinkDown(g, h)
  <2>1. <<>> \in Seq(Frame)  OBVIOUS
  <2>2. wire' = [wire EXCEPT ![g][h] = <<>>, ![h][g] = <<>>]  BY <1>2 DEF LinkDown
  <2>3. wire' \in Wires
    <3> DEFINE u == [wire EXCEPT ![g][h] = <<>>]
    <3>1. u \in Wires  BY <2>1, Typed DEF Wires
    <3>2. wire' = [u EXCEPT ![h][g] = <<>>]  BY <2>2
    <3> HIDE DEF u
    <3> QED BY <2>1, <3>1, <3>2 DEF Wires
  <2>4. adrop' \in [Hubs -> SUBSET (Admins \X Nat)] /\ links' \subseteq Links /\ now' \in Nat
        /\ ops' \in Nat /\ drops' \in Nat
    BY <1>2 DEF LinkDown, TypeOK
  <2> QED BY <1>0, <1>1, <2>3, <2>4 DEF TypeOK, Wires
<1>3. CASE LinkUp(g, h)
  <2>1. <<rec[g]>> \in Seq(Frame) /\ <<rec[h]>> \in Seq(Frame)  BY Typed, TableFrame
  <2>2. wire' \in Wires  BY <1>3, <2>1, Typed DEF LinkUp, Wires
  <2> QED BY <1>1, <1>3, <2>2 DEF LinkUp, TypeOK, Wires
<1>4. CASE Restart(h)
  <2>1. wire' \in Wires  BY <1>4, Typed DEF Restart, Wires
  <2>2. adrop' \in [Hubs -> SUBSET (Admins \X Nat)]  BY <1>4, Typed DEF Restart
  <2> QED BY <1>1, <1>4, <2>1, <2>2 DEF Restart, TypeOK, Wires
<1> QED BY <1>2, <1>3, <1>4

-----------------------------------------------------------------------------
(* Every hub has a live full admin after every step of every behaviour,    *)
(* for all hubs, admins, clocks, windows and meshes, unless a restore was  *)
(* refused for its stamp.                                                  *)
THEOREM FloorAlwaysHolds == Spec => []FloorHolds
<1>1. Init => TypeOK /\ FloorHolds
  <2> SUFFICES ASSUME Init PROVE TypeOK /\ FloorHolds  OBVIOUS
  <2>1. A \in Nat /\ A > Lesser /\ MaskTs \in Nat  BY FloorAssumption DEF A
  <2>2. \A h \in Hubs : rec[h] \in Table
    BY <2>1 DEF Init, Table, Record
  <2>3. \A h \in Hubs : \A x \in Admins : x \in FullAdmins(rec[h])
    BY <2>1, KeyFacts DEF Init, FullAdmins, Active, Holds
  <2>4. rec \in [Hubs -> Table]  BY <2>2 DEF Init
  <2>5. wire \in [Hubs -> [Hubs -> Seq(Frame)]]
    <3>1. <<>> \in Seq(Frame)  OBVIOUS
    <3> QED BY <3>1 DEF Init
  <2>6. adrop \in [Hubs -> SUBSET (Admins \X Nat)] /\ links \subseteq Links /\ now \in Nat
        /\ ops \in Nat /\ drops \in Nat
    BY DEF Init
  <2>7. refused \in BOOLEAN  BY DEF Init
  <2>8. TypeOK  BY <2>4, <2>5, <2>6, <2>7 DEF TypeOK
  <2> QED BY <2>3, <2>8, FloorAssumption DEF FloorHolds
<1>2. TypeOK /\ FloorHolds /\ [Next]_vars => TypeOK' /\ FloorHolds'
  <2> SUFFICES ASSUME TypeOK, FloorHolds, [Next]_vars PROVE TypeOK' /\ FloorHolds'  OBVIOUS
  <2>1. CASE \E h \in Hubs, x \in Admins : del_user_record(h, x)  BY <2>1, DelUser
  <2>2. CASE \E h \in Hubs, x \in Admins, fl \in 1 .. A : user_access(h, x, fl)  BY <2>2, UserAccess
  <2>3. CASE \E h \in Hubs, k \in Keys, ts \in PushTs, v \in 0 .. Lesser : BotPush(h, k, [ts |-> ts, v |-> v])
    <3>1. PICK h \in Hubs, k \in Keys, ts \in PushTs, v \in 0 .. Lesser : BotPush(h, k, [ts |-> ts, v |-> v])
      BY <2>3
    <3>2. [ts |-> ts, v |-> v] \in Record  BY FloorAssumption DEF Record
    <3> QED BY <3>1, <3>2, Push
  <2>4. CASE \E g, h \in Hubs : process_peer_sync(g, h)  BY <2>4, PeerSync
  <2>5. CASE \E g, h \in Hubs : LinkDown(g, h) \/ LinkUp(g, h)  BY <2>5, LinkSteps
  <2>6. CASE \E h \in Hubs : Restart(h)  BY <2>6, LinkSteps
  <2>7. CASE Tick
    <3>1. FloorHolds'  BY <2>7 DEF Tick, FloorHolds, FullAdmins, Active, Holds
    <3> QED BY <2>7, <3>1 DEF Tick, TypeOK
  <2>8. CASE UNCHANGED vars
    BY <2>8 DEF vars, TypeOK, FloorHolds, FullAdmins, Active, Holds
  <2> QED BY <2>1, <2>2, <2>3, <2>4, <2>5, <2>6, <2>7, <2>8 DEF Next
<1> QED BY <1>1, <1>2, PTL DEF Spec
=============================================================================
