--------------------------- MODULE HubSyncProofs ---------------------------
(***************************************************************************)
(* Proofs about HubSync, for any set of hubs, peerings, records and        *)
(* bounds: type correctness, and that no record version is ever invented   *)
(* or altered on its way through the mesh, and that a purge which echoes   *)
(* around it is run once by each hub while the hub remembers it.           *)
(*                                                                         *)
(* First the record rules of Lww, for every stamp and payload: rec_accepts *)
(* (C|, D|, B|) is a strict total order on record versions, so the version *)
(* a hub ends up with depends on which versions it was shown and not on    *)
(* their order or repetition.  lww_accepts (c|, users, masks) is not total:*)
(* it leaves two different adds of one stamp undecided, and nothing else.  *)
(***************************************************************************)
EXTENDS HubSync, FiniteSetTheorems, WellFoundedInduction, TLAPS

Version == [ts : Nat, act : BOOLEAN, val : Nat]

(* What a hub holding cur holds after being shown in.                      *)
RecMerge(cur, in) == IF rec_accepts(in, cur) THEN in ELSE cur
LwwMerge(cur, in) == IF lww_accepts(in, cur) THEN in ELSE cur

(* Field-wise equality of versions.                                        *)
LEMMA VersionEq ==
    ASSUME NEW a \in Version, NEW b \in Version,
           a.ts = b.ts, a.act = b.act, a.val = b.val
    PROVE  a = b
  BY DEF Version

(* No version beats itself or one that beats it: rec_accepts never lets    *)
(* two hubs swap their versions.                                           *)
LEMMA RecAsymmetric ==
    ASSUME NEW a \in Version, NEW b \in Version, rec_accepts(a, b)
    PROVE  ~rec_accepts(b, a)
  BY DEF rec_accepts, Version

(* Two different versions are always decided.                              *)
LEMMA RecTotal ==
    ASSUME NEW a \in Version, NEW b \in Version, a # b
    PROVE  rec_accepts(a, b) \/ rec_accepts(b, a)
  <1>1. ~(a.ts = b.ts /\ a.act = b.act /\ a.val = b.val)
    BY VersionEq
  <1>. QED BY <1>1 DEF rec_accepts, Version

(* A version that beats one that beats another beats that one too.         *)
LEMMA RecTransitive ==
    ASSUME NEW a \in Version, NEW b \in Version, NEW c \in Version,
           rec_accepts(a, b), rec_accepts(b, c)
    PROVE  rec_accepts(a, c)
  BY DEF rec_accepts, Version

(* put_record shown two versions in either order ends with the same one.   *)
THEOREM RecMergeCommutes ==
    ASSUME NEW a \in Version, NEW b \in Version
    PROVE  RecMerge(a, b) = RecMerge(b, a)
  <1>1. CASE a = b
    BY <1>1 DEF RecMerge
  <1>2. CASE a # b
    BY <1>2, RecTotal, RecAsymmetric DEF RecMerge
  <1>. QED BY <1>1, <1>2

(* put_record shown b then c, or their winner: the same.  With             *)
(* RecMergeCommutes, any batching and reordering of frames ends alike.     *)
THEOREM RecMergeAssociates ==
    ASSUME NEW a \in Version, NEW b \in Version, NEW c \in Version
    PROVE  RecMerge(RecMerge(a, b), c) = RecMerge(a, RecMerge(b, c))
  <1>1. CASE rec_accepts(b, a) /\ rec_accepts(c, b)
    <2>1. rec_accepts(c, a)
      BY <1>1, RecTransitive
    <2>. QED BY <1>1, <2>1 DEF RecMerge
  <1>2. CASE rec_accepts(b, a) /\ ~rec_accepts(c, b)
    BY <1>2 DEF RecMerge
  <1>3. CASE ~rec_accepts(b, a) /\ rec_accepts(c, b)
    BY <1>3 DEF RecMerge
  <1>4. CASE ~rec_accepts(b, a) /\ ~rec_accepts(c, b)
    <2>1. ~rec_accepts(c, a)
      <3>1. CASE a = b
        BY <1>4, <3>1
      <3>2. CASE a # b
        <4>1. rec_accepts(a, b)
          BY <1>4, <3>2, RecTotal
        <4>2. ASSUME rec_accepts(c, a) PROVE FALSE
          BY <1>4, <4>1, <4>2, RecTransitive
        <4>. QED BY <4>2
      <3>. QED BY <3>1, <3>2
    <2>. QED BY <1>4, <2>1 DEF RecMerge
  <1>. QED BY <1>1, <1>2, <1>3, <1>4

(* lww_accepts: two hubs shown each other's version still differ exactly   *)
(* when both are adds, or both are deletes, of one stamp.                  *)
THEOREM LwwUndecided ==
    ASSUME NEW a \in Version, NEW b \in Version, a # b
    PROVE  LwwMerge(a, b) # LwwMerge(b, a) <=> a.ts = b.ts /\ a.act = b.act
  BY DEF LwwMerge, lww_accepts, Version

-----------------------------------------------------------------------------

(* Adding a frame to a lane, dropping the oldest when full, keeps it a     *)
(* lane of such frames.                                                    *)
LEMMA PushType ==
    ASSUME NEW S, NEW lane \in Seq(S), NEW f \in S
    PROVE  Push(lane, f) \in Seq(S)
  <1>1. CASE Len(lane) >= LaneCap
    <2>1. lane # <<>>
      BY <1>1, HubSyncAssumption DEF HubSyncAssumption
    <2>. QED BY <1>1, <2>1 DEF Push
  <1>2. CASE ~(Len(lane) >= LaneCap)
    BY <1>2 DEF Push
  <1>. QED BY <1>1, <1>2

(* Queueing one frame to many peers.                                       *)
LEMMA QueuedType ==
    ASSUME NEW S, NEW lanes \in [Hubs -> [Hubs -> Seq(S)]],
           NEW h \in Hubs, NEW to, NEW f \in S
    PROVE  Queued(lanes, h, to, f) \in [Hubs -> [Hubs -> Seq(S)]]
  <1>1. \A g \in Hubs : Push(lanes[h][g], f) \in Seq(S)
    BY PushType
  <1>. QED BY <1>1 DEF Queued

LEMMA HeldByType ==
    ASSUME NEW hd \in [Hubs -> [Hubs -> BOOLEAN]], NEW h \in Hubs, NEW to
    PROVE  HeldBy(hd, h, to) \in [Hubs -> [Hubs -> BOOLEAN]]
  BY DEF HeldBy

LEMMA WithoutType ==
    ASSUME NEW S, NEW lanes \in [Hubs -> [Hubs -> S]], NEW E, NEW empty \in S
    PROVE  Without(lanes, E, empty) \in [Hubs -> [Hubs -> S]]
  BY DEF Without

(* The lanes and the requests alone.                                       *)
LEMMA LanesType ==
    ASSUME TypeOK
    PROVE  /\ delta \in [Hubs -> [Hubs -> Seq(Delta)]]
           /\ bulk \in [Hubs -> [Hubs -> Seq(Full)]]
           /\ req \in [Hubs -> [Hubs -> Nat]]
  BY DEF TypeOK

(* Taking the oldest frame off a lane.                                     *)
LEMMA TakeType ==
    ASSUME NEW S, NEW lanes \in [Hubs -> [Hubs -> Seq(S)]],
           NEW g \in Hubs, NEW h \in Hubs, lanes[g][h] # <<>>
    PROVE  /\ Head(lanes[g][h]) \in S
           /\ [lanes EXCEPT ![g][h] = Tail(@)] \in [Hubs -> [Hubs -> Seq(S)]]
  <1>1. lanes[g][h] \in Seq(S) /\ Head(lanes[g][h]) \in S /\ Tail(lanes[g][h]) \in Seq(S)
    OBVIOUS
  <1>. QED BY <1>1

LEMMA AbsentType == Absent \in Entry
  BY DEF Absent, Entry

LEMMA NothingType == Nothing \in [Recs -> Entry]
  BY AbsentType DEF Nothing

LEMMA StampType ==
    ASSUME TypeOK, NEW h \in Hubs, NEW r \in Recs
    PROVE  /\ Now(h) \in Nat
           /\ lww_next_ts(store[h][r].ts, Now(h)) \in Nat
  BY HubSyncAssumption DEF HubSyncAssumption, TypeOK, Now, lww_next_ts, Entry

(* What a hub keeps of a frame is made of records it held or was sent.     *)
LEMMA MergeType ==
    ASSUME TypeOK, NEW h \in Hubs, NEW recs \in [Recs -> Entry]
    PROVE  /\ Changed(h, recs) \in [Recs -> Entry]
           /\ Merged(h, recs) \in [Recs -> Entry]
  BY AbsentType DEF TypeOK, Changed, Merged

LEMMA PurgeType ==
    ASSUME TypeOK, NEW h \in Hubs, NEW cutoff \in Nat
    PROVE  /\ execute_purge(h, cutoff) \in [Recs -> Entry]
           /\ purge_floor_set(h, cutoff) \in [ts : Nat, until : Nat]
  <1>1. execute_purge(h, cutoff) \in [Recs -> Entry]
    BY AbsentType DEF TypeOK, execute_purge
  <1>2. Now(h) \in Nat /\ Hold \in Nat /\ floor[h].ts \in Nat
    BY HubSyncAssumption DEF HubSyncAssumption, TypeOK, Now
  <1>3. purge_floor_set(h, cutoff) \in [ts : Nat, until : Nat]
    BY <1>2 DEF purge_floor_set
  <1>. QED BY <1>1, <1>3

(* Functions of functions, one value changed.                              *)
LEMMA Except2 ==
    ASSUME NEW A, NEW B, NEW S, NEW f \in [A -> [B -> S]], NEW a \in A, NEW b \in B,
           NEW v \in S
    PROVE  [f EXCEPT ![a][b] = v] \in [A -> [B -> S]]
  OBVIOUS

(* The table of recent purges and the history of one run.                  *)
LEMMA RecordType ==
    ASSUME TypeOK, NEW h \in Hubs, NEW i \in Ids
    PROVE  /\ record_recent_purge(h, i) \in Seq(Slot)
           /\ [ran EXCEPT ![h][i] = Ran(h, i)] \in [Hubs -> [Ids -> [n : Nat, at : Nat]]]
           /\ Now(h) \in Nat
  <1>. DEFINE slots == recent[h]
              new == [id |-> i, at |-> Now(h)]
  <1>1. slots \in Seq(Slot) /\ Now(h) \in Nat
    BY HubSyncAssumption DEF HubSyncAssumption, TypeOK, Now
  <1>2. new \in Slot
    BY <1>1 DEF Slot
  <1>. HIDE DEF slots, new
  <1>3. [k \in 1 .. Len(slots) |-> IF slots[k].id = i THEN new ELSE slots[k]] \in Seq(Slot)
    BY <1>1, <1>2
  <1>4. Append(slots, new) \in Seq(Slot)
    BY <1>1, <1>2
  <1>5. [slots EXCEPT ![Oldest(slots)] = new] \in Seq(Slot)
    <2>1. slots \in [1 .. Len(slots) -> Slot] /\ Len(slots) \in Nat
      BY <1>1
    <2>2. [slots EXCEPT ![Oldest(slots)] = new] \in [1 .. Len(slots) -> Slot]
      BY <1>2, <2>1
    <2>. QED BY <2>1, <2>2
  <1>6. record_recent_purge(h, i) \in Seq(Slot)
    <2>1. record_recent_purge(h, i) \in
            {[k \in 1 .. Len(slots) |-> IF slots[k].id = i THEN new ELSE slots[k]],
             Append(slots, new), [slots EXCEPT ![Oldest(slots)] = new]}
      BY DEF record_recent_purge, slots, new
    <2>. QED BY <1>3, <1>4, <1>5, <2>1
  <1>7. Ran(h, i) \in [n : Nat, at : Nat] /\ ran \in [Hubs -> [Ids -> [n : Nat, at : Nat]]]
    BY <1>1 DEF Ran, TypeOK
  <1>8. [ran EXCEPT ![h][i] = Ran(h, i)] \in [Hubs -> [Ids -> [n : Nat, at : Nat]]]
    BY <1>7, Except2
  <1>. QED BY <1>1, <1>6, <1>8

(* A PURGE line, d being the lanes without its frame.                      *)
LEMMA ApplyPurgeType ==
    ASSUME TypeOK, NEW d \in [Hubs -> [Hubs -> Seq(Delta)]], NEW h \in Hubs, NEW g \in Hubs,
           NEW p \in Purge, NEW bcast \in BOOLEAN, ApplyPurge(d, h, g, p, bcast)
    PROVE  /\ store' \in [Hubs -> [Recs -> Entry]]
           /\ delta' \in [Hubs -> [Hubs -> Seq(Delta)]]
           /\ held' \in [Hubs -> [Hubs -> BOOLEAN]]
           /\ lossy' \in BOOLEAN
           /\ floor' \in [Hubs -> [ts : Nat, until : Nat]]
           /\ recent' \in [Hubs -> Seq(Slot)]
           /\ ran' \in [Hubs -> [Ids -> [n : Nat, at : Nat]]]
  <1>1. CASE is_purge_recent(h, p.id)
    BY <1>1 DEF ApplyPurge, TypeOK
  <1>2. CASE ~is_purge_recent(h, p.id)
    <2>1. p.cutoff \in Nat /\ p.id \in Ids
      BY DEF Purge
    <2>2. [recs |-> Nothing, purge |-> p] \in Delta
      BY NothingType DEF Delta
    <2>3. /\ recent' = [recent EXCEPT ![h] = record_recent_purge(h, p.id)]
          /\ ran' = [ran EXCEPT ![h][p.id] = Ran(h, p.id)]
          /\ store' = [store EXCEPT ![h] = execute_purge(h, p.cutoff)]
          /\ floor' = [floor EXCEPT ![h] = purge_floor_set(h, p.cutoff)]
          /\ delta' = Queued(d, h, ForwardTo(h, g, bcast), [recs |-> Nothing, purge |-> p])
          /\ held' = HeldBy(held, h, ForwardTo(h, g, bcast))
          /\ lossy' \in BOOLEAN
      BY <1>2 DEF ApplyPurge, TypeOK
    <2>4. delta' \in [Hubs -> [Hubs -> Seq(Delta)]]
      BY <2>2, <2>3, QueuedType
    <2>5. held' \in [Hubs -> [Hubs -> BOOLEAN]]
      BY <2>3, HeldByType DEF TypeOK
    <2>6. store' \in [Hubs -> [Recs -> Entry]] /\ floor' \in [Hubs -> [ts : Nat, until : Nat]]
      BY <2>1, <2>3, PurgeType DEF TypeOK
    <2>7. recent' \in [Hubs -> Seq(Slot)]
      BY <2>1, <2>3, RecordType DEF TypeOK
    <2>8. ran' \in [Hubs -> [Ids -> [n : Nat, at : Nat]]]
      BY <2>1, <2>3, RecordType
    <2>. QED BY <2>3, <2>4, <2>5, <2>6, <2>7, <2>8
  <1>. QED BY <1>1, <1>2

(* The records of a frame, d being the lanes without it.                   *)
LEMMA ApplyRecsType ==
    ASSUME TypeOK, NEW d \in [Hubs -> [Hubs -> Seq(Delta)]], NEW h \in Hubs, NEW g \in Hubs,
           NEW recs \in [Recs -> Entry], NEW bcast \in BOOLEAN,
           ApplyRecs(d, h, g, recs, bcast)
    PROVE  /\ store' \in [Hubs -> [Recs -> Entry]]
           /\ delta' \in [Hubs -> [Hubs -> Seq(Delta)]]
           /\ held' \in [Hubs -> [Hubs -> BOOLEAN]]
           /\ lossy' \in BOOLEAN
           /\ UNCHANGED <<floor, recent, ran>>
  <1>. DEFINE new == Changed(h, recs)
              to  == IF new = Nothing THEN {} ELSE ForwardTo(h, g, bcast)
  <1>1. /\ store' = [store EXCEPT ![h] = Merged(h, recs)]
        /\ delta' = Queued(d, h, to, [recs |-> new, purge |-> None])
        /\ held' = HeldBy(held, h, to)
        /\ lossy' \in BOOLEAN
        /\ UNCHANGED <<floor, recent, ran>>
    BY DEF ApplyRecs, TypeOK
  <1>2. [recs |-> new, purge |-> None] \in Delta
    BY MergeType DEF Delta
  <1>. HIDE DEF new, to
  <1>3. delta' \in [Hubs -> [Hubs -> Seq(Delta)]]
    BY <1>1, <1>2, QueuedType
  <1>4. held' \in [Hubs -> [Hubs -> BOOLEAN]]
    BY <1>1, HeldByType DEF TypeOK
  <1>5. store' \in [Hubs -> [Recs -> Entry]]
    BY <1>1, MergeType DEF TypeOK
  <1>. QED BY <1>1, <1>3, <1>4, <1>5

(* Cutting links, whatever the cause.                                      *)
LEMMA CutType ==
    ASSUME TypeOK, NEW E, Cut(E)
    PROVE  /\ links' \subseteq Edges
           /\ delta' \in [Hubs -> [Hubs -> Seq(Delta)]]
           /\ bulk' \in [Hubs -> [Hubs -> Seq(Full)]]
           /\ held' \in [Hubs -> [Hubs -> BOOLEAN]]
           /\ lossy' \in BOOLEAN
           /\ Without(req, E, 0) \in [Hubs -> [Hubs -> Nat]]
  <1>0. <<>> \in Seq(Delta) /\ <<>> \in Seq(Full)
    OBVIOUS
  <1>1. delta' \in [Hubs -> [Hubs -> Seq(Delta)]]
    <2>1. delta \in [Hubs -> [Hubs -> Seq(Delta)]]
      BY DEF TypeOK
    <2>2. Without(delta, E, <<>>) \in [Hubs -> [Hubs -> Seq(Delta)]]
      BY <1>0, <2>1 DEF Without
    <2>. QED BY <2>2 DEF Cut
  <1>2. bulk' \in [Hubs -> [Hubs -> Seq(Full)]]
    <2>1. bulk \in [Hubs -> [Hubs -> Seq(Full)]]
      BY DEF TypeOK
    <2>2. Without(bulk, E, <<>>) \in [Hubs -> [Hubs -> Seq(Full)]]
      BY <1>0, <2>1 DEF Without
    <2>. QED BY <2>2 DEF Cut
  <1>3. held' \in [Hubs -> [Hubs -> BOOLEAN]]
    BY WithoutType DEF Cut, TypeOK
  <1>4. Without(req, E, 0) \in [Hubs -> [Hubs -> Nat]]
    BY WithoutType DEF TypeOK
  <1>5. links' \subseteq Edges /\ lossy' \in BOOLEAN
    BY DEF Cut, TypeOK
  <1>. QED BY <1>1, <1>2, <1>3, <1>4, <1>5

(* The full state of a hub, as a frame.                                    *)
LEMMA FullType ==
    ASSUME TypeOK, NEW h \in Hubs, NEW bcast \in BOOLEAN
    PROVE  [recs |-> store[h], bcast |-> bcast] \in Full
  BY DEF Full, TypeOK

(* Type correctness of one whole step, action by action.                   *)
LEMMA TypeStep ==
    ASSUME TypeOK, [Next]_vars
    PROVE  TypeOK'
  <1>. USE HubSyncAssumption DEF HubSyncAssumption
  <1>1. CASE UNCHANGED vars
    BY <1>1 DEF vars, TypeOK
  <1>2. CASE Tick
    BY <1>2 DEF Tick, TypeOK
  <1>3. ASSUME NEW h \in Hubs, NEW r \in Recs, NEW act \in BOOLEAN, NEW v \in Nat,
               Write(h, r, act, v)
        PROVE  TypeOK'
    <2>. DEFINE e == [ts |-> lww_next_ts(store[h][r].ts, Now(h)), act |-> act, val |-> v]
    <2>1. e \in Entry
      BY StampType DEF Entry
    <2>. HIDE DEF e
    <2>2. [Nothing EXCEPT ![r] = e] \in [Recs -> Entry]
      BY <2>1, NothingType
    <2>3. store' \in [Hubs -> [Recs -> Entry]]
      <3>1. store' = [store EXCEPT ![h] = Merged(h, [Nothing EXCEPT ![r] = e])]
        BY <1>3 DEF Write, e
      <3>. QED BY <3>1, <2>2, MergeType DEF TypeOK
    <2>4. delta' \in [Hubs -> [Hubs -> Seq(Delta)]]
      <3>1. delta' = Queued(delta, h, Peers(h), [recs |-> [Nothing EXCEPT ![r] = e], purge |-> None])
        BY <1>3 DEF Write, e
      <3>2. [recs |-> [Nothing EXCEPT ![r] = e], purge |-> None] \in Delta
        BY <2>2 DEF Delta
      <3>. QED BY <3>1, <3>2, QueuedType DEF TypeOK
    <2>5. held' \in [Hubs -> [Hubs -> BOOLEAN]]
      BY <1>3, HeldByType DEF Write, TypeOK
    <2>6. written' \in [Recs -> SUBSET Entry]
      <3>1. written' = [written EXCEPT ![r] = @ \cup {e}]
        BY <1>3 DEF Write, e
      <3>. QED BY <3>1, <2>1 DEF TypeOK
    <2>7. lossy' \in BOOLEAN
      BY <1>3 DEF Write, TypeOK
    <2>8. UNCHANGED <<now, saved, links, bulk, req, known, view, resync, floor, recent,
                      purges, drops, ran>>
      BY <1>3 DEF Write
    <2>. QED BY <2>3, <2>4, <2>5, <2>6, <2>7, <2>8 DEF TypeOK
  <1>4. ASSUME NEW h \in Hubs, NEW cutoff \in Nat, StartPurge(h, cutoff)
        PROVE  TypeOK'
    <2>. DEFINE p == [id |-> purges + 1, cutoff |-> cutoff]
    <2>1. p \in Purge /\ p.id \in Ids
      BY <1>4 DEF StartPurge, Purge, Ids, TypeOK
    <2>2. [recs |-> Nothing, purge |-> p] \in Delta
      BY <2>1, NothingType DEF Delta
    <2>3. /\ store' = [store EXCEPT ![h] = execute_purge(h, cutoff)]
          /\ floor' = [floor EXCEPT ![h] = purge_floor_set(h, cutoff)]
          /\ recent' = [recent EXCEPT ![h] = record_recent_purge(h, p.id)]
          /\ ran' = [ran EXCEPT ![h][p.id] = Ran(h, p.id)]
          /\ purges' = p.id
          /\ delta' = Queued(delta, h, Peers(h), [recs |-> Nothing, purge |-> p])
          /\ held' = HeldBy(held, h, Peers(h))
          /\ lossy' \in BOOLEAN
          /\ UNCHANGED <<now, saved, links, bulk, req, known, view, resync, drops, written>>
      BY <1>4 DEF StartPurge, TypeOK
    <2>. HIDE DEF p
    <2>4. delta' \in [Hubs -> [Hubs -> Seq(Delta)]]
      BY <2>2, <2>3, QueuedType DEF TypeOK
    <2>5. held' \in [Hubs -> [Hubs -> BOOLEAN]]
      BY <2>3, HeldByType DEF TypeOK
    <2>6. store' \in [Hubs -> [Recs -> Entry]] /\ floor' \in [Hubs -> [ts : Nat, until : Nat]]
      BY <2>3, PurgeType DEF TypeOK
    <2>7. recent' \in [Hubs -> Seq(Slot)] /\ purges' \in 0 .. MaxPurges
      <3>1. purges' \in 0 .. MaxPurges
        BY <2>1, <2>3 DEF Ids
      <3>. QED BY <2>1, <2>3, <3>1, RecordType DEF TypeOK
    <2>8. ran' \in [Hubs -> [Ids -> [n : Nat, at : Nat]]]
      BY <2>1, <2>3, RecordType
    <2>. QED BY <2>3, <2>4, <2>5, <2>6, <2>7, <2>8 DEF TypeOK
  <1>5. ASSUME NEW h \in Hubs, Resync(h) PROVE TypeOK'
    <2>. DEFINE E == {e \in links : \E g \in Hubs : e = {h, g} /\ req[h][g] >= LaneCap}
    <2>1. /\ Cut(E)
          /\ req' = [Without(req, E, 0) EXCEPT ![h] = [g \in Hubs |->
                         IF {h, g} \in links \ E THEN req[h][g] + 1 ELSE 0]]
          /\ resync' = [g \in Hubs |-> (g # h /\ resync[g]) \/ g \in Ends(E)]
          /\ UNCHANGED <<now, store, saved, known, view, floor, recent, purges, drops,
                         written, ran>>
      BY <1>5 DEF Resync
    <2>. HIDE DEF E
    <2>2. req' \in [Hubs -> [Hubs -> Nat]]
      <3>1. [g \in Hubs |-> IF {h, g} \in links \ E THEN req[h][g] + 1 ELSE 0] \in [Hubs -> Nat]
        <4>1. \A g \in Hubs : req[h][g] + 1 \in Nat
          BY LanesType
        <4>. QED BY <4>1
      <3>2. Without(req, E, 0) \in [Hubs -> [Hubs -> Nat]]
        BY <2>1, CutType
      <3>. QED BY <2>1, <3>1, <3>2
    <2>3. resync' \in [Hubs -> BOOLEAN]
      BY <2>1 DEF TypeOK
    <2>. QED BY <2>1, <2>2, <2>3, CutType DEF TypeOK
  <1>6. ASSUME NEW h \in Hubs, Restart(h) PROVE TypeOK'
    <2>. DEFINE E == {e \in links : h \in e}
    <2>1. /\ drops' \in 0 .. MaxDrops
          /\ Cut(E)
          /\ req' = Without(req, E, 0)
          /\ resync' = [g \in Hubs |-> g # h /\ (resync[g] \/ g \in Ends(E))]
          /\ store' = [store EXCEPT ![h] = saved[h]]
          /\ known' = [known EXCEPT ![h] = [g \in Hubs |-> FALSE]]
          /\ view' = [view EXCEPT ![h] = [g \in Hubs |-> {}]]
          /\ floor' = [floor EXCEPT ![h] = [ts |-> 0, until |-> 0]]
          /\ recent' = [recent EXCEPT ![h] = <<>>]
          /\ ran' = [ran EXCEPT ![h] = [i \in Ids |-> Never]]
          /\ UNCHANGED <<now, saved, purges, written>>
      BY <1>6 DEF Restart, TypeOK
    <2>. HIDE DEF E
    <2>2. resync' \in [Hubs -> BOOLEAN]
      BY <2>1 DEF TypeOK
    <2>3. recent' \in [Hubs -> Seq(Slot)]
      <3>1. recent \in [Hubs -> Seq(Slot)] /\ <<>> \in Seq(Slot)
        BY DEF TypeOK
      <3>. QED BY <2>1, <3>1
    <2>4. ran' \in [Hubs -> [Ids -> [n : Nat, at : Nat]]]
      BY <2>1 DEF TypeOK, Never
    <2>. QED BY <2>1, <2>2, <2>3, <2>4, CutType DEF TypeOK
  <1>7. ASSUME NEW h \in Hubs, SaveConfig(h) PROVE TypeOK'
    BY <1>7 DEF SaveConfig, TypeOK
  <1>8. ASSUME NEW h \in Hubs, AntiEntropy(h) PROVE TypeOK'
    <2>1. bulk' \in [Hubs -> [Hubs -> Seq(Full)]]
      BY <1>8, FullType, QueuedType DEF AntiEntropy, TypeOK
    <2>2. held' \in [Hubs -> [Hubs -> BOOLEAN]]
      BY <1>8, HeldByType DEF AntiEntropy, TypeOK
    <2>. QED BY <1>8, <2>1, <2>2 DEF AntiEntropy, TypeOK
  <1>9. ASSUME NEW g \in Hubs, NEW h \in Hubs, DeliverDelta(g, h) PROVE TypeOK'
    <2>. DEFINE f == Head(delta[g][h])
                d == [delta EXCEPT ![g][h] = Tail(@)]
    <2>1. f \in Delta /\ d \in [Hubs -> [Hubs -> Seq(Delta)]]
      BY <1>9, LanesType, TakeType DEF DeliverDelta
    <2>2. f.recs \in [Recs -> Entry] /\ (f.purge # None => f.purge \in Purge)
      BY <2>1 DEF Delta
    <2>3. \/ Unread(d, h, g)
          \/ f.purge # None /\ ApplyPurge(d, h, g, f.purge, TRUE)
          \/ ApplyRecs(d, h, g, f.recs, TRUE)
      BY <1>9 DEF DeliverDelta
    <2>4. UNCHANGED <<now, saved, links, bulk, req, known, view, resync, purges, drops, written>>
      BY <1>9 DEF DeliverDelta
    <2>. HIDE DEF f, d
    <2>5. CASE f.purge # None /\ ApplyPurge(d, h, g, f.purge, TRUE)
      BY <2>1, <2>2, <2>4, <2>5, ApplyPurgeType DEF TypeOK
    <2>6. CASE Unread(d, h, g)
      BY <2>1, <2>4, <2>6 DEF Unread, TypeOK
    <2>7. CASE ApplyRecs(d, h, g, f.recs, TRUE)
      BY <2>1, <2>2, <2>4, <2>7, ApplyRecsType DEF TypeOK
    <2>. QED BY <2>3, <2>5, <2>6, <2>7
  <1>10. ASSUME NEW g \in Hubs, NEW h \in Hubs, DeliverFull(g, h) PROVE TypeOK'
    <2>. DEFINE f == Head(bulk[g][h])
    <2>1. f \in Full /\ bulk' \in [Hubs -> [Hubs -> Seq(Full)]]
      BY <1>10, LanesType, TakeType DEF DeliverFull
    <2>2. f.recs \in [Recs -> Entry] /\ f.bcast \in BOOLEAN
      BY <2>1 DEF Full
    <2>3. Unread(delta, h, g) \/ ApplyRecs(delta, h, g, f.recs, f.bcast)
      BY <1>10 DEF DeliverFull
    <2>4. UNCHANGED <<now, saved, links, req, known, view, resync, purges, drops, written>>
      BY <1>10 DEF DeliverFull
    <2>. HIDE DEF f
    <2>5. CASE Unread(delta, h, g)
      BY <2>1, <2>4, <2>5 DEF Unread, TypeOK
    <2>6. CASE ApplyRecs(delta, h, g, f.recs, f.bcast)
      <3>1. delta \in [Hubs -> [Hubs -> Seq(Delta)]]
        BY DEF TypeOK
      <3>2. /\ store' \in [Hubs -> [Recs -> Entry]]
            /\ delta' \in [Hubs -> [Hubs -> Seq(Delta)]]
            /\ held' \in [Hubs -> [Hubs -> BOOLEAN]]
            /\ lossy' \in BOOLEAN
            /\ UNCHANGED <<floor, recent, ran>>
        <4>1. CASE f.bcast = TRUE
          <5>1. ApplyRecs(delta, h, g, f.recs, TRUE)
            BY <2>6, <4>1
          <5>. QED BY <2>2, <3>1, <5>1, ApplyRecsType DEF TypeOK
        <4>2. CASE f.bcast = FALSE
          <5>1. ApplyRecs(delta, h, g, f.recs, FALSE)
            BY <2>6, <4>2
          <5>. QED BY <2>2, <3>1, <5>1, ApplyRecsType DEF TypeOK
        <4>. QED BY <2>2, <4>1, <4>2
      <3>. QED BY <2>1, <2>4, <3>2 DEF TypeOK
    <2>. QED BY <2>3, <2>5, <2>6
  <1>11. ASSUME NEW g \in Hubs, NEW h \in Hubs, ServeRequest(g, h) PROVE TypeOK'
    <2>1. bulk' \in [Hubs -> [Hubs -> Seq(Full)]]
      BY <1>11, FullType, QueuedType DEF ServeRequest, TypeOK
    <2>2. held' \in [Hubs -> [Hubs -> BOOLEAN]]
      BY <1>11, HeldByType DEF ServeRequest, TypeOK
    <2>3. req' \in [Hubs -> [Hubs -> Nat]]
      <3>1. req[g][h] - 1 \in Nat /\ req \in [Hubs -> [Hubs -> Nat]]
        <4>1. req[g][h] > 0
          BY <1>11 DEF ServeRequest
        <4>. QED BY <4>1, LanesType
      <3>. QED BY <1>11, <3>1, Except2 DEF ServeRequest
    <2>. QED BY <1>11, <2>1, <2>2, <2>3 DEF ServeRequest, TypeOK
  <1>12. ASSUME NEW g \in Hubs, NEW h \in Hubs, Roster(g, h) PROVE TypeOK'
    <2>1. Reported(g) \in SUBSET Hubs
      BY DEF Reported, Peers
    <2>2. bulk' \in [Hubs -> [Hubs -> Seq(Full)]]
      <3>1. bulk \in [Hubs -> [Hubs -> Seq(Full)]]
        BY DEF TypeOK
      <3>2. [recs |-> store[h], bcast |-> FALSE] \in Full
        BY FullType
      <3>3. Push(bulk[h][g], [recs |-> store[h], bcast |-> FALSE]) \in Seq(Full)
        BY <3>1, <3>2, PushType
      <3>4. [bulk EXCEPT ![h][g] = Push(@, [recs |-> store[h], bcast |-> FALSE])]
              \in [Hubs -> [Hubs -> Seq(Full)]]
        BY <3>1, <3>3, Except2
      <3>. QED BY <1>12, <3>1, <3>4 DEF Roster
    <2>3. req' \in [Hubs -> [Hubs -> Nat]]
      <3>1. req \in [Hubs -> [Hubs -> Nat]]
        BY DEF TypeOK
      <3>2. [req EXCEPT ![h][g] = IF @ < LaneCap THEN @ + 1 ELSE @] \in [Hubs -> [Hubs -> Nat]]
        <4>1. (IF req[h][g] < LaneCap THEN req[h][g] + 1 ELSE req[h][g]) \in Nat
          BY <3>1
        <4>. QED BY <3>1, <4>1, Except2
      <3>. QED BY <1>12, <3>1, <3>2 DEF Roster
    <2>. QED BY <1>12, <2>1, <2>2, <2>3 DEF Roster, TypeOK
  <1>13. ASSUME NEW g \in Hubs, NEW h \in Hubs, LinkUp(g, h) PROVE TypeOK'
    <2>1. bulk' \in [Hubs -> [Hubs -> Seq(Full)]]
      <3>1. Queued(bulk, g, {h}, [recs |-> store[g], bcast |-> FALSE])
              \in [Hubs -> [Hubs -> Seq(Full)]]
        BY FullType, QueuedType DEF TypeOK
      <3>. QED BY <1>13, <3>1, FullType, QueuedType DEF LinkUp
    <2>2. held' \in [Hubs -> [Hubs -> BOOLEAN]]
      <3>1. HeldBy(held, g, {h}) \in [Hubs -> [Hubs -> BOOLEAN]]
        BY HeldByType DEF TypeOK
      <3>. QED BY <1>13, <3>1, HeldByType DEF LinkUp
    <2>. QED BY <1>13, <2>1, <2>2 DEF LinkUp, TypeOK
  <1>14. ASSUME NEW e \in Edges, LinkDown(e) PROVE TypeOK'
    <2>1. /\ drops' \in 0 .. MaxDrops
          /\ Cut({e})
          /\ req' = Without(req, {e}, 0)
          /\ resync' = [h \in Hubs |-> resync[h] \/ h \in e]
          /\ UNCHANGED <<now, store, saved, known, view, floor, recent, purges, written, ran>>
      BY <1>14 DEF LinkDown, TypeOK
    <2>2. resync' \in [Hubs -> BOOLEAN]
      BY <2>1 DEF TypeOK
    <2>. QED BY <2>1, <2>2, CutType DEF TypeOK
  <1>. QED
    <2>1. ASSUME NEW h \in Hubs, NEW r \in Recs, NEW v \in Vals, AddRec(h, r, v)
          PROVE  TypeOK'
      BY <1>3, <2>1 DEF AddRec
    <2>2. ASSUME NEW h \in Hubs, NEW r \in Recs, DelRec(h, r)
          PROVE  TypeOK'
      BY <1>3, <2>2 DEF DelRec
    <2>3. ASSUME NEW h \in Hubs, NEW cutoff \in 0 .. MaxNow, StartPurge(h, cutoff)
          PROVE  TypeOK'
      BY <1>4, <2>3
    <2>. QED BY <1>1, <1>2, <2>1, <2>2, <2>3, <1>5, <1>6, <1>7, <1>8, <1>9, <1>10, <1>11,
                <1>12, <1>13, <1>14 DEF Next

(* Every reachable state of the mesh is well typed: in particular no       *)
(* request counter goes below zero and every purge id is one that was      *)
(* drawn, whatever the topology and the bounds.                            *)
THEOREM TypeCorrect == Spec => []TypeOK
  <1>1. Init => TypeOK
    <2>. SUFFICES ASSUME Init PROVE TypeOK
      OBVIOUS
    <2>1. Nothing \in [Recs -> Entry]
      BY NothingType
    <2>2. \A g \in Hubs : Reported(g) \in SUBSET Hubs
      BY DEF Reported, Peers
    <2>3. /\ delta \in [Hubs -> [Hubs -> Seq(Delta)]]
          /\ bulk \in [Hubs -> [Hubs -> Seq(Full)]]
      BY DEF Init
    <2>4. /\ known \in [Hubs -> [Hubs -> BOOLEAN]]
          /\ view \in [Hubs -> [Hubs -> SUBSET Hubs]]
          /\ held \in [Hubs -> [Hubs -> BOOLEAN]]
      BY <2>2 DEF Init
    <2>5. /\ links \subseteq Edges
          /\ floor \in [Hubs -> [ts : Nat, until : Nat]]
          /\ purges \in 0 .. MaxPurges /\ drops \in 0 .. MaxDrops
      BY HubSyncAssumption DEF HubSyncAssumption, Init
    <2>6. /\ recent \in [Hubs -> Seq(Slot)]
          /\ ran \in [Hubs -> [Ids -> [n : Nat, at : Nat]]]
      BY DEF Init, Never
    <2>. QED BY <2>1, <2>3, <2>4, <2>5, <2>6 DEF Init, TypeOK
  <1>2. TypeOK /\ [Next]_vars => TypeOK'
    BY TypeStep
  <1>. QED BY <1>1, <1>2, PTL DEF Spec

-----------------------------------------------------------------------------
(* Where record versions and purges come from.                             *)

(* Record functions made of the versions of W only.                        *)
Versions(W) == {f \in [Recs -> Entry] : \A r \in Recs : f[r] \in W[r] \cup {Absent}}

(* Frames of such records, and of purges among the first n drawn.          *)
Frames(W, n) == [recs : Versions(W), purge : [id : 1 .. n, cutoff : Nat] \cup {None}]
Syncs(W)     == [recs : Versions(W), bcast : BOOLEAN]

(* The inductive invariant: stores, files and frames hold written versions *)
(* only, and every purge on the way was drawn.                             *)
Genuine ==
    /\ store \in [Hubs -> Versions(written)]
    /\ saved \in [Hubs -> Versions(written)]
    /\ delta \in [Hubs -> [Hubs -> Seq(Frames(written, purges))]]
    /\ bulk \in [Hubs -> [Hubs -> Seq(Syncs(written))]]

LEMMA SeqMono ==
    ASSUME NEW S, NEW T, S \subseteq T, NEW s \in Seq(S)
    PROVE  s \in Seq(T)
  OBVIOUS

LEMMA LanesMono ==
    ASSUME NEW S, NEW T, S \subseteq T, NEW lanes \in [Hubs -> [Hubs -> Seq(S)]]
    PROVE  lanes \in [Hubs -> [Hubs -> Seq(T)]]
  <1>1. \A h, g \in Hubs : lanes[h][g] \in Seq(T)
    BY SeqMono
  <1>. QED BY <1>1

LEMMA VersionsMono ==
    ASSUME NEW W, NEW V, \A r \in Recs : W[r] \subseteq V[r], NEW m \in Nat, NEW n \in Nat, m <= n
    PROVE  /\ Versions(W) \subseteq Versions(V)
           /\ Frames(W, m) \subseteq Frames(V, n)
           /\ Syncs(W) \subseteq Syncs(V)
  <1>1. Versions(W) \subseteq Versions(V)
    BY DEF Versions
  <1>2. 1 .. m \subseteq 1 .. n
    OBVIOUS
  <1>3. [id : 1 .. m, cutoff : Nat] \subseteq [id : 1 .. n, cutoff : Nat]
    BY <1>2
  <1>. QED BY <1>1, <1>3 DEF Frames, Syncs

LEMMA NothingGenuine == \A W : Nothing \in Versions(W)
  BY AbsentType DEF Nothing, Versions

(* A frame leaves its lane, an entry of a store or lane changes.           *)
LEMMA MergeGenuine ==
    ASSUME NEW W, store \in [Hubs -> Versions(W)], NEW h \in Hubs, NEW recs \in Versions(W)
    PROVE  /\ Changed(h, recs) \in Versions(W)
           /\ Merged(h, recs) \in Versions(W)
  BY AbsentType DEF Versions, Changed, Merged

LEMMA PurgeGenuine ==
    ASSUME NEW W, store \in [Hubs -> Versions(W)], NEW h \in Hubs, NEW cutoff
    PROVE  execute_purge(h, cutoff) \in Versions(W)
  BY AbsentType DEF Versions, execute_purge

(* What Genuine says of the lanes, apart.                                  *)
LEMMA GenuineLanes ==
    ASSUME Genuine
    PROVE  /\ store \in [Hubs -> Versions(written)]
           /\ delta \in [Hubs -> [Hubs -> Seq(Frames(written, purges))]]
           /\ bulk \in [Hubs -> [Hubs -> Seq(Syncs(written))]]
  BY DEF Genuine

(* A frame of records d has delivered.                                     *)
LEMMA ApplyRecsGenuine ==
    ASSUME Genuine, NEW d \in [Hubs -> [Hubs -> Seq(Frames(written, purges))]],
           NEW h \in Hubs, NEW g \in Hubs, NEW recs \in Versions(written), NEW bcast,
           ApplyRecs(d, h, g, recs, bcast)
    PROVE  /\ store' \in [Hubs -> Versions(written)]
           /\ delta' \in [Hubs -> [Hubs -> Seq(Frames(written, purges))]]
  <1>. DEFINE new == Changed(h, recs)
              to  == IF new = Nothing THEN {} ELSE ForwardTo(h, g, bcast)
              f   == [recs |-> new, purge |-> None]
  <1>1. /\ store' = [store EXCEPT ![h] = Merged(h, recs)]
        /\ delta' = Queued(d, h, to, f)
    BY DEF ApplyRecs
  <1>2. f \in Frames(written, purges)
    BY MergeGenuine, GenuineLanes DEF Frames
  <1>. HIDE DEF new, to, f
  <1>3. delta' \in [Hubs -> [Hubs -> Seq(Frames(written, purges))]]
    BY <1>1, <1>2, QueuedType
  <1>4. store' \in [Hubs -> Versions(written)]
    BY <1>1, MergeGenuine, GenuineLanes
  <1>. QED BY <1>1, <1>3, <1>4

(* Links cut: lanes emptied.                                               *)
LEMMA CutGenuine ==
    ASSUME Genuine, NEW E, Cut(E)
    PROVE  /\ delta' \in [Hubs -> [Hubs -> Seq(Frames(written, purges))]]
           /\ bulk' \in [Hubs -> [Hubs -> Seq(Syncs(written))]]
  <1>0. \A S : <<>> \in Seq(S)
    OBVIOUS
  <1>1. Without(delta, E, <<>>) \in [Hubs -> [Hubs -> Seq(Frames(written, purges))]]
    BY <1>0, GenuineLanes DEF Without
  <1>2. Without(bulk, E, <<>>) \in [Hubs -> [Hubs -> Seq(Syncs(written))]]
    BY <1>0, GenuineLanes DEF Without
  <1>. QED BY <1>1, <1>2 DEF Cut

LEMMA SyncGenuine ==
    ASSUME Genuine, NEW h \in Hubs, NEW bcast \in BOOLEAN
    PROVE  [recs |-> store[h], bcast |-> bcast] \in Syncs(written)
  BY DEF Syncs, Genuine

LEMMA GenuineStep ==
    ASSUME TypeOK, Genuine, [Next]_vars
    PROVE  Genuine'
  <1>1. CASE UNCHANGED vars
    BY <1>1 DEF vars, Genuine
  <1>2. CASE Tick
    BY <1>2 DEF Tick, Genuine
  <1>3. ASSUME NEW h \in Hubs, NEW r \in Recs, NEW act \in BOOLEAN, NEW v \in Nat,
               Write(h, r, act, v)
        PROVE  Genuine'
    <2>. DEFINE e == [ts |-> lww_next_ts(store[h][r].ts, Now(h)), act |-> act, val |-> v]
                f == [recs |-> [Nothing EXCEPT ![r] = e], purge |-> None]
    <2>0. e \in Entry
      BY StampType DEF Entry
    <2>1. /\ store' = [store EXCEPT ![h] = Merged(h, [Nothing EXCEPT ![r] = e])]
          /\ delta' = Queued(delta, h, Peers(h), f)
          /\ written' = [written EXCEPT ![r] = @ \cup {e}]
          /\ UNCHANGED <<saved, bulk, purges>>
      BY <1>3 DEF Write
    <2>. HIDE DEF e
    <2>2. \A q \in Recs : written[q] \subseteq written'[q]
      BY <2>1 DEF TypeOK
    <2>3. e \in written'[r]
      BY <2>1 DEF TypeOK
    <2>4. [Nothing EXCEPT ![r] = e] \in Versions(written')
      BY <2>0, <2>3, AbsentType DEF Versions, Nothing
    <2>5. /\ Versions(written) \subseteq Versions(written')
          /\ Frames(written, purges) \subseteq Frames(written', purges')
          /\ Syncs(written) \subseteq Syncs(written')
      <3>1. purges \in Nat /\ purges' = purges
        BY <2>1 DEF TypeOK
      <3>. QED BY <2>2, <3>1, VersionsMono
    <2>6. f \in Frames(written', purges')
      BY <2>4 DEF Frames
    <2>. HIDE DEF f
    <2>7. delta' \in [Hubs -> [Hubs -> Seq(Frames(written', purges'))]]
      BY <2>1, <2>5, <2>6, LanesMono, QueuedType, GenuineLanes
    <2>8. bulk' \in [Hubs -> [Hubs -> Seq(Syncs(written'))]]
      BY <2>1, <2>5, LanesMono, GenuineLanes
    <2>9. store \in [Hubs -> Versions(written')] /\ saved' \in [Hubs -> Versions(written')]
      BY <2>1, <2>5 DEF Genuine
    <2>10. store' \in [Hubs -> Versions(written')]
      <3>1. Merged(h, [Nothing EXCEPT ![r] = e]) \in Versions(written')
        BY <2>4, <2>9, MergeGenuine
      <3>. QED BY <2>1, <2>9, <3>1
    <2>. QED BY <2>1, <2>7, <2>8, <2>9, <2>10 DEF Genuine
  <1>4. ASSUME NEW h \in Hubs, NEW cutoff \in Nat, StartPurge(h, cutoff)
        PROVE  Genuine'
    <2>. DEFINE p == [id |-> purges + 1, cutoff |-> cutoff]
                f == [recs |-> Nothing, purge |-> p]
    <2>0. purges \in Nat /\ p.id \in Ids /\ p.id = purges + 1
      BY <1>4, HubSyncAssumption DEF StartPurge, Ids, TypeOK
    <2>1. /\ store' = [store EXCEPT ![h] = execute_purge(h, cutoff)]
          /\ purges' = p.id
          /\ delta' = Queued(delta, h, Peers(h), f)
          /\ UNCHANGED <<saved, bulk, written>>
      BY <1>4 DEF StartPurge
    <2>2. f \in Frames(written, purges')
      <3>1. p \in [id : 1 .. purges', cutoff : Nat]
        BY <2>0, <2>1
      <3>. QED BY <3>1, NothingGenuine DEF Frames
    <2>. HIDE DEF f, p
    <2>3. Frames(written, purges) \subseteq Frames(written', purges') /\ written' = written
      <3>1. /\ purges' \in Nat /\ purges <= purges'
            /\ \A r \in Recs : written[r] \subseteq written'[r]
        BY <2>0, <2>1
      <3>. QED BY <2>0, <2>1, <3>1, VersionsMono
    <2>4. delta' \in [Hubs -> [Hubs -> Seq(Frames(written', purges'))]]
      BY <2>1, <2>2, <2>3, LanesMono, QueuedType, GenuineLanes
    <2>5. store' \in [Hubs -> Versions(written')]
      BY <2>1, PurgeGenuine, GenuineLanes
    <2>. QED BY <2>1, <2>4, <2>5 DEF Genuine
  <1>5. ASSUME NEW h \in Hubs, Resync(h) PROVE Genuine'
    <2>1. PICK E : Cut(E)
      BY <1>5 DEF Resync
    <2>2. UNCHANGED <<store, saved, purges, written>>
      BY <1>5 DEF Resync
    <2>. QED BY <2>1, <2>2, CutGenuine DEF Genuine
  <1>6. ASSUME NEW h \in Hubs, Restart(h) PROVE Genuine'
    <2>1. PICK E : Cut(E)
      BY <1>6 DEF Restart
    <2>2. /\ store' = [store EXCEPT ![h] = saved[h]]
          /\ UNCHANGED <<saved, purges, written>>
      BY <1>6 DEF Restart
    <2>5. store' \in [Hubs -> Versions(written')] /\ saved' \in [Hubs -> Versions(written')]
      BY <2>2 DEF Genuine
    <2>. QED BY <2>1, <2>2, <2>5, CutGenuine DEF Genuine
  <1>7. ASSUME NEW h \in Hubs, SaveConfig(h) PROVE Genuine'
    BY <1>7 DEF SaveConfig, Genuine
  <1>8. ASSUME NEW h \in Hubs, AntiEntropy(h) PROVE Genuine'
    <2>1. bulk' \in [Hubs -> [Hubs -> Seq(Syncs(written))]]
      BY <1>8, SyncGenuine, QueuedType, GenuineLanes DEF AntiEntropy
    <2>. QED BY <1>8, <2>1 DEF AntiEntropy, Genuine
  <1>9. ASSUME NEW g \in Hubs, NEW h \in Hubs, DeliverDelta(g, h) PROVE Genuine'
    <2>. DEFINE f == Head(delta[g][h])
                d == [delta EXCEPT ![g][h] = Tail(@)]
    <2>1. f \in Frames(written, purges) /\ d \in [Hubs -> [Hubs -> Seq(Frames(written, purges))]]
      BY <1>9, GenuineLanes, TakeType DEF DeliverDelta
    <2>2. /\ f.recs \in Versions(written)
          /\ f.purge # None => f.purge \in [id : 1 .. purges, cutoff : Nat]
      BY <2>1 DEF Frames
    <2>3. \/ Unread(d, h, g)
          \/ f.purge # None /\ ApplyPurge(d, h, g, f.purge, TRUE)
          \/ ApplyRecs(d, h, g, f.recs, TRUE)
      BY <1>9 DEF DeliverDelta
    <2>4. UNCHANGED <<saved, bulk, purges, written>>
      BY <1>9 DEF DeliverDelta
    <2>. HIDE DEF f, d
    <2>5. CASE Unread(d, h, g)
      BY <2>1, <2>4, <2>5 DEF Unread, Genuine
    <2>6. CASE ApplyRecs(d, h, g, f.recs, TRUE)
      BY <2>1, <2>2, <2>4, <2>6, ApplyRecsGenuine DEF Genuine
    <2>7. CASE f.purge # None /\ ApplyPurge(d, h, g, f.purge, TRUE)
      <3>. DEFINE p == f.purge
                  n == [recs |-> Nothing, purge |-> p]
      <3>1. p \in [id : 1 .. purges, cutoff : Nat] /\ p.id \in 1 .. purges
        BY <2>2, <2>7
      <3>2. CASE is_purge_recent(h, p.id)
        <4>1. delta' = d /\ UNCHANGED store
          BY <2>7, <3>2 DEF ApplyPurge
        <4>. QED BY <2>1, <2>4, <4>1 DEF Genuine
      <3>3. CASE ~is_purge_recent(h, p.id)
        <4>1. /\ store' = [store EXCEPT ![h] = execute_purge(h, p.cutoff)]
              /\ delta' = Queued(d, h, ForwardTo(h, g, TRUE), n)
          BY <2>7, <3>3 DEF ApplyPurge
        <4>2. n \in Frames(written, purges)
          BY <3>1, NothingGenuine DEF Frames
        <4>. HIDE DEF n, p
        <4>4. delta' \in [Hubs -> [Hubs -> Seq(Frames(written, purges))]]
          BY <2>1, <4>1, <4>2, QueuedType
        <4>5. store' \in [Hubs -> Versions(written)]
          BY <4>1, PurgeGenuine, GenuineLanes
        <4>. QED BY <2>4, <4>4, <4>5 DEF Genuine
      <3>. QED BY <3>2, <3>3
    <2>. QED BY <2>3, <2>5, <2>6, <2>7
  <1>10. ASSUME NEW g \in Hubs, NEW h \in Hubs, DeliverFull(g, h) PROVE Genuine'
    <2>. DEFINE f == Head(bulk[g][h])
    <2>1. f \in Syncs(written) /\ bulk' \in [Hubs -> [Hubs -> Seq(Syncs(written))]]
      BY <1>10, GenuineLanes, TakeType DEF DeliverFull
    <2>2. f.recs \in Versions(written)
      BY <2>1 DEF Syncs
    <2>3. Unread(delta, h, g) \/ ApplyRecs(delta, h, g, f.recs, f.bcast)
      BY <1>10 DEF DeliverFull
    <2>4. UNCHANGED <<saved, purges, written>>
      BY <1>10 DEF DeliverFull
    <2>. HIDE DEF f
    <2>5. CASE Unread(delta, h, g)
      BY <2>1, <2>4, <2>5 DEF Unread, Genuine
    <2>6. CASE ApplyRecs(delta, h, g, f.recs, f.bcast)
      <3>1. /\ store' \in [Hubs -> Versions(written)]
            /\ delta' \in [Hubs -> [Hubs -> Seq(Frames(written, purges))]]
        BY <2>2, <2>6, ApplyRecsGenuine, GenuineLanes
      <3>. QED BY <2>1, <2>4, <3>1 DEF Genuine
    <2>. QED BY <2>3, <2>5, <2>6
  <1>11. ASSUME NEW g \in Hubs, NEW h \in Hubs, ServeRequest(g, h) PROVE Genuine'
    <2>1. bulk' \in [Hubs -> [Hubs -> Seq(Syncs(written))]]
      BY <1>11, SyncGenuine, QueuedType, GenuineLanes DEF ServeRequest
    <2>. QED BY <1>11, <2>1 DEF ServeRequest, Genuine
  <1>12. ASSUME NEW g \in Hubs, NEW h \in Hubs, Roster(g, h) PROVE Genuine'
    <2>1. bulk' \in [Hubs -> [Hubs -> Seq(Syncs(written))]]
      <3>. DEFINE f == [recs |-> store[h], bcast |-> FALSE]
      <3>1. Push(bulk[h][g], f) \in Seq(Syncs(written))
        BY GenuineLanes, SyncGenuine, PushType
      <3>2. [bulk EXCEPT ![h][g] = Push(@, f)] \in [Hubs -> [Hubs -> Seq(Syncs(written))]]
        BY <3>1, GenuineLanes, Except2
      <3>. QED BY <1>12, <3>2, GenuineLanes DEF Roster
    <2>. QED BY <1>12, <2>1 DEF Roster, Genuine
  <1>13. ASSUME NEW g \in Hubs, NEW h \in Hubs, LinkUp(g, h) PROVE Genuine'
    <2>1. bulk' \in [Hubs -> [Hubs -> Seq(Syncs(written))]]
      <3>1. Queued(bulk, g, {h}, [recs |-> store[g], bcast |-> FALSE])
              \in [Hubs -> [Hubs -> Seq(Syncs(written))]]
        BY SyncGenuine, QueuedType, GenuineLanes
      <3>. QED BY <1>13, <3>1, SyncGenuine, QueuedType DEF LinkUp
    <2>. QED BY <1>13, <2>1 DEF LinkUp, Genuine
  <1>14. ASSUME NEW e \in Edges, LinkDown(e) PROVE Genuine'
    <2>1. Cut({e}) /\ UNCHANGED <<store, saved, purges, written>>
      BY <1>14 DEF LinkDown
    <2>. QED BY <2>1, CutGenuine DEF Genuine
  <1>. QED
    <2>1. ASSUME NEW h \in Hubs, NEW r \in Recs, NEW v \in Vals, AddRec(h, r, v)
          PROVE  Genuine'
      BY <1>3, <2>1, HubSyncAssumption DEF AddRec, HubSyncAssumption
    <2>2. ASSUME NEW h \in Hubs, NEW r \in Recs, DelRec(h, r)
          PROVE  Genuine'
      BY <1>3, <2>2 DEF DelRec
    <2>3. ASSUME NEW h \in Hubs, NEW cutoff \in 0 .. MaxNow, StartPurge(h, cutoff)
          PROVE  Genuine'
      BY <1>4, <2>3
    <2>. QED BY <1>1, <1>2, <2>1, <2>2, <2>3, <1>5, <1>6, <1>7, <1>8, <1>9, <1>10, <1>11,
                <1>12, <1>13, <1>14 DEF Next

LEMMA GenuineInit == Init => Genuine
  <1>. SUFFICES ASSUME Init PROVE Genuine
    OBVIOUS
  <1>1. /\ delta \in [Hubs -> [Hubs -> Seq(Frames(written, purges))]]
        /\ bulk \in [Hubs -> [Hubs -> Seq(Syncs(written))]]
    BY DEF Init
  <1>2. store \in [Hubs -> Versions(written)] /\ saved \in [Hubs -> Versions(written)]
    BY NothingGenuine DEF Init
  <1>. QED BY <1>1, <1>2 DEF Genuine

LEMMA GenuineAlways == Spec => [](TypeOK /\ Genuine)
  <1>1. TypeOK /\ Genuine /\ [Next]_vars => (TypeOK /\ Genuine)'
    BY TypeStep, GenuineStep
  <1>2. Spec => []TypeOK
    BY TypeCorrect
  <1>. QED BY <1>1, <1>2, GenuineInit, PTL DEF Spec

(* Whatever is lost, repeated, forwarded, saved or restarted in the mesh,  *)
(* every record version in a store, a config file or a frame is one an     *)
(* operator wrote, stamp and payload.                                      *)
THEOREM ProvenanceAlways == Spec => []Provenance
  <1>1. TypeOK /\ Genuine => Provenance
    <2>. SUFFICES ASSUME TypeOK, Genuine, NEW h \in Hubs, NEW r \in Recs
                  PROVE  LET Real == written[r] \cup {Absent}
                         IN  /\ store[h][r] \in Real /\ saved[h][r] \in Real
                             /\ \A g \in Hubs :
                                  /\ \A i \in 1 .. Len(delta[h][g]) : delta[h][g][i].recs[r] \in Real
                                  /\ \A i \in 1 .. Len(bulk[h][g]) : bulk[h][g][i].recs[r] \in Real
      BY DEF Provenance
    <2>1. \A f \in Versions(written) : f[r] \in written[r] \cup {Absent}
      BY DEF Versions
    <2>2. store[h] \in Versions(written) /\ saved[h] \in Versions(written)
      BY DEF Genuine
    <2>3. ASSUME NEW g \in Hubs
          PROVE  /\ \A i \in 1 .. Len(delta[h][g]) : delta[h][g][i].recs \in Versions(written)
                 /\ \A i \in 1 .. Len(bulk[h][g]) : bulk[h][g][i].recs \in Versions(written)
      <3>1. /\ delta[h][g] \in Seq(Frames(written, purges))
            /\ bulk[h][g] \in Seq(Syncs(written))
        BY GenuineLanes
      <3>2. \A i \in 1 .. Len(delta[h][g]) : delta[h][g][i] \in Frames(written, purges)
        BY <3>1
      <3>3. \A i \in 1 .. Len(bulk[h][g]) : bulk[h][g][i] \in Syncs(written)
        BY <3>1
      <3>. QED BY <3>2, <3>3 DEF Frames, Syncs
    <2>. QED BY <2>1, <2>2, <2>3
  <1>. QED BY <1>1, GenuineAlways, PTL

-----------------------------------------------------------------------------
(* What a hub remembers of the purges it ran.                              *)

(* Every slot stands for the last run of its purge, no purge has two, the  *)
(* table keeps to its size, and a purge that ran and cannot have been      *)
(* forgotten is in it.  Only drawn purges ran.                             *)
SlotsTrue(h) ==
    /\ Len(recent[h]) <= MaxRecent
    /\ \A i, j \in 1 .. Len(recent[h]) : recent[h][i].id = recent[h][j].id => i = j
    /\ \A i \in 1 .. Len(recent[h]) :
         /\ ran[h][recent[h][i].id].n > 0
         /\ ran[h][recent[h][i].id].at = recent[h][i].at

RunsTrue(h) ==
    \A i \in Ids : /\ ran[h][i].n <= 1 /\ ran[h][i].at <= Now(h)
                   /\ ran[h][i].n > 0 => i <= purges

Kept(h) ==
    \A i \in Ids : ran[h][i].n > 0 /\ ~Forgotten(h, i) =>
        \E k \in 1 .. Len(recent[h]) : recent[h][k].id = i

Remembers == \A h \in Hubs : SlotsTrue(h) /\ RunsTrue(h) /\ Kept(h)

(* A purge that may run now has never run here since the start, or may     *)
(* have been forgotten.                                                    *)
LEMMA MayRun ==
    ASSUME TypeOK, Remembers, NEW h \in Hubs, NEW i \in Ids, ~is_purge_recent(h, i)
    PROVE  Ran(h, i).n <= 1
  <1>. SUFFICES ASSUME ~Forgotten(h, i) PROVE ran[h][i].n = 0
    <2>1. ran[h][i].n \in Nat
      BY DEF TypeOK
    <2>. QED BY <2>1 DEF Ran
  <1>. SUFFICES ASSUME ran[h][i].n > 0 PROVE FALSE
    BY DEF TypeOK
  <1>1. PICK k \in 1 .. Len(recent[h]) : recent[h][k].id = i
    BY DEF Remembers, Kept
  <1>2. recent[h][k].at = ran[h][i].at
    BY <1>1 DEF Remembers, SlotsTrue
  <1>3. ~(Now(h) - ran[h][i].at >= DedupWindow)
    BY DEF Forgotten
  <1>4. Now(h) \in Nat /\ ran[h][i].at \in Nat /\ DedupWindow \in Nat
    BY HubSyncAssumption DEF HubSyncAssumption, TypeOK, Now
  <1>5. Now(h) - recent[h][k].at < DedupWindow
    BY <1>2, <1>3, <1>4
  <1>. QED BY <1>1, <1>5 DEF is_purge_recent

(* Sets of purge ids are finite, and a larger one has no fewer.            *)
LEMMA LaterGrows ==
    ASSUME NEW S \in SUBSET Ids, NEW T \in SUBSET Ids, S \subseteq T
    PROVE  /\ Cardinality(S) \in Nat /\ Cardinality(T) \in Nat
           /\ Cardinality(S) <= Cardinality(T)
  <1>1. IsFiniteSet(Ids)
    BY FS_Interval, HubSyncAssumption DEF HubSyncAssumption, Ids
  <1>2. IsFiniteSet(S) /\ IsFiniteSet(T)
    BY <1>1, FS_Subset
  <1>. QED BY <1>2, FS_Subset, FS_CardinalityType

(* As many different purges as there are slots.                            *)
LEMMA SlotsCount ==
    ASSUME NEW n \in Nat, NEW f \in [1 .. n -> Ids],
           \A i, j \in 1 .. n : f[i] = f[j] => i = j,
           NEW T \in SUBSET Ids, \A i \in 1 .. n : f[i] \in T
    PROVE  n <= Cardinality(T)
  <1>1. IsFiniteSet(T)
    <2>1. IsFiniteSet(Ids)
      BY FS_Interval, HubSyncAssumption DEF HubSyncAssumption, Ids
    <2>. QED BY <2>1, FS_Subset
  <1>2. f \in Injection(1 .. n, T)
    <2>1. f \in [1 .. n -> T]
      OBVIOUS
    <2>. QED BY <2>1 DEF Injection, IsInjective
  <1>3. Cardinality(1 .. n) <= Cardinality(T)
    BY <1>1, <1>2, FS_Injection
  <1>4. Cardinality(1 .. n) = n
    BY FS_Interval
  <1>. QED BY <1>3, <1>4

(* Every non-empty set of numbers has a least one.                         *)
LEMMA LeastNat ==
    ASSUME NEW T, T \subseteq Nat, T # {}
    PROVE  \E x \in T : \A y \in T : x <= y
  <1>1. PICK x \in T : \A y \in T : ~(<<y, x>> \in OpToRel(<, Nat))
    BY NatLessThanWellFounded, WFMin
  <1>2. \A y \in T : ~(y < x)
    BY <1>1 DEF OpToRel
  <1>. QED BY <1>2

(* A table that is not empty has a first oldest slot.                      *)
LEMMA OldestExists ==
    ASSUME NEW n \in Nat \ {0}, NEW at, \A i \in 1 .. n : at[i] \in Nat
    PROVE  \E i \in 1 .. n : \A j \in 1 .. n : at[i] < at[j] \/ (at[i] = at[j] /\ i <= j)
  <1>1. PICK t \in {at[i] : i \in 1 .. n} : \A u \in {at[i] : i \in 1 .. n} : t <= u
    <2>1. {at[i] : i \in 1 .. n} \subseteq Nat /\ at[1] \in {at[i] : i \in 1 .. n}
      OBVIOUS
    <2>. QED BY <2>1, LeastNat
  <1>2. PICK i \in {k \in 1 .. n : at[k] = t} : \A j \in {k \in 1 .. n : at[k] = t} : i <= j
    <2>1. {k \in 1 .. n : at[k] = t} \subseteq Nat /\ {k \in 1 .. n : at[k] = t} # {}
      BY <1>1
    <2>. QED BY <2>1, LeastNat
  <1>3. ASSUME NEW j \in 1 .. n PROVE at[i] < at[j] \/ (at[i] = at[j] /\ i <= j)
    <2>1. t <= at[j] /\ t \in Nat /\ at[j] \in Nat
      BY <1>1
    <2>. QED BY <1>2, <2>1
  <1>. QED BY <1>2, <1>3

(* The slots after a purge is recorded: its own, and of the others all, or *)
(* all but the first of the oldest of a full table.                        *)
LEMMA SlotsAfter ==
    ASSUME TypeOK, Remembers, NEW h \in Hubs, NEW i \in Ids,
           NEW new, new = record_recent_purge(h, i),
           NEW o, o = Oldest(recent[h])
    PROVE  /\ new \in Seq(Slot) /\ Len(new) <= MaxRecent
           /\ \A k, m \in 1 .. Len(new) : new[k].id = new[m].id => k = m
           /\ \E k \in 1 .. Len(new) : new[k].id = i
           /\ \A k \in 1 .. Len(new) :
                \/ new[k] = [id |-> i, at |-> Now(h)]
                \/ new[k].id # i /\ k \in 1 .. Len(recent[h]) /\ new[k] = recent[h][k]
           /\ \A k \in 1 .. Len(recent[h]) :
                \/ recent[h][k].id = i
                \/ k \in 1 .. Len(new) /\ new[k] = recent[h][k]
                \/ /\ k = o /\ Len(new) = MaxRecent
                   /\ \A m \in 1 .. Len(recent[h]) : recent[h][k].at <= recent[h][m].at
  <1>. DEFINE old == recent[h]
              e   == [id |-> i, at |-> Now(h)]
  <1>1. old \in Seq(Slot) /\ Len(old) \in Nat /\ Len(old) <= MaxRecent /\ MaxRecent \in Nat \ {0}
    BY HubSyncAssumption DEF HubSyncAssumption, TypeOK, Remembers, SlotsTrue
  <1>2. \A k, m \in 1 .. Len(old) : old[k].id = old[m].id => k = m
    BY DEF Remembers, SlotsTrue
  <1>3. new \in Seq(Slot) /\ e.id = i
    BY RecordType
  <1>4. /\ (\E k \in 1 .. Len(old) : old[k].id = i) =>
               new = [k \in 1 .. Len(old) |-> IF old[k].id = i THEN e ELSE old[k]]
        /\ (~\E k \in 1 .. Len(old) : old[k].id = i) /\ Len(old) < MaxRecent => new = Append(old, e)
        /\ (~\E k \in 1 .. Len(old) : old[k].id = i) /\ ~(Len(old) < MaxRecent) =>
               new = [old EXCEPT ![o] = e]
    BY DEF record_recent_purge
  <1>5. \A k \in 1 .. Len(old) : old[k].at \in Nat
    <2>. HIDE DEF old
    <2>1. \A k \in 1 .. Len(old) : old[k] \in Slot
      BY <1>1
    <2>. QED BY <2>1 DEF Slot
  <1>o. o = Oldest(old)
    OBVIOUS
  <1>. HIDE DEF old
  <1>6. CASE \E k \in 1 .. Len(old) : old[k].id = i
    <2>1. new = [k \in 1 .. Len(old) |-> IF old[k].id = i THEN e ELSE old[k]]
      BY <1>4, <1>6
    <2>2. Len(new) = Len(old)
      BY <1>1, <1>3, <2>1
    <2>3. \A k \in 1 .. Len(old) : new[k] = IF old[k].id = i THEN e ELSE old[k]
      BY <2>1
    <2>4. \A k \in 1 .. Len(old) : new[k].id = old[k].id
      BY <1>3, <2>3
    <2>. QED BY <1>1, <1>2, <1>3, <1>6, <2>2, <2>3, <2>4 DEF old
  <1>7. CASE (~\E k \in 1 .. Len(old) : old[k].id = i) /\ Len(old) < MaxRecent
    <2>1. new = Append(old, e)
      BY <1>4, <1>7
    <2>2. Len(new) = Len(old) + 1
      BY <1>1, <2>1
    <2>3. \A k \in 1 .. Len(old) : new[k] = old[k]
      BY <1>1, <2>1
    <2>4. new[Len(old) + 1] = e
      BY <1>1, <2>1
    <2>5. \A k \in 1 .. Len(new) : k \in 1 .. Len(old) \/ k = Len(old) + 1
      BY <1>1, <2>2
    <2>6. 1 .. Len(old) \subseteq 1 .. Len(new) /\ Len(old) + 1 \in 1 .. Len(new)
      BY <1>1, <2>2
    <2>7. Len(new) <= MaxRecent
      BY <1>1, <1>7, <2>2
    <2>8. \A k, m \in 1 .. Len(new) : new[k].id = new[m].id => k = m
      BY <1>2, <1>3, <1>7, <2>3, <2>4, <2>5
    <2>9. \A k \in 1 .. Len(new) : new[k] = e \/ (new[k].id # i /\ k \in 1 .. Len(old) /\ new[k] = old[k])
      BY <1>7, <2>3, <2>4, <2>5
    <2>. QED BY <1>3, <2>3, <2>4, <2>6, <2>7, <2>8, <2>9 DEF old
  <1>8. CASE (~\E k \in 1 .. Len(old) : old[k].id = i) /\ ~(Len(old) < MaxRecent)
    <2>1. new = [old EXCEPT ![o] = e] /\ Len(old) = MaxRecent
      BY <1>1, <1>4, <1>8
    <2>2. /\ o \in 1 .. Len(old)
          /\ \A m \in 1 .. Len(old) : old[o].at <= old[m].at
      <3>1. \E k \in 1 .. Len(old) : \A j \in 1 .. Len(old) :
              old[k].at < old[j].at \/ (old[k].at = old[j].at /\ k <= j)
        <4>. DEFINE at == [k \in 1 .. Len(old) |-> old[k].at]
        <4>1. \A k \in 1 .. Len(old) : at[k] \in Nat
          BY <1>5
        <4>2. Len(old) \in Nat \ {0}
          BY <1>1, <2>1
        <4>. HIDE DEF at
        <4>3. \E k \in 1 .. Len(old) : \A j \in 1 .. Len(old) :
                at[k] < at[j] \/ (at[k] = at[j] /\ k <= j)
          BY <4>1, <4>2, OldestExists
        <4>. QED BY <4>3 DEF at
      <3>2. /\ o \in 1 .. Len(old)
            /\ \A j \in 1 .. Len(old) : old[o].at < old[j].at \/ (old[o].at = old[j].at /\ o <= j)
        BY <3>1, <1>o DEF Oldest
      <3>. QED BY <1>5, <3>2
    <2>3. Len(new) = Len(old)
      BY <1>1, <1>3, <2>1
    <2>4. new[o] = e /\ \A k \in 1 .. Len(old) : k # o => new[k] = old[k]
      BY <1>1, <2>1, <2>2
    <2>5. \A k, m \in 1 .. Len(new) : new[k].id = new[m].id => k = m
      BY <1>2, <1>3, <1>8, <2>3, <2>4
    <2>6. \A k \in 1 .. Len(new) : new[k] = e \/ (new[k].id # i /\ k \in 1 .. Len(old) /\ new[k] = old[k])
      BY <1>8, <2>3, <2>4
    <2>7. Len(new) <= MaxRecent /\ Len(new) = MaxRecent
      BY <1>1, <2>1, <2>3
    <2>. QED BY <1>3, <2>2, <2>3, <2>4, <2>5, <2>6, <2>7 DEF old
  <1>. QED BY <1>6, <1>7, <1>8

(* A purge run and recorded by hub h.                                      *)
LEMMA RunKeeps ==
    ASSUME TypeOK, Remembers, NEW h \in Hubs, NEW i \in Ids, Ran(h, i).n <= 1, i <= purges',
           purges <= purges', purges' \in Nat, now' = now,
           recent' = [recent EXCEPT ![h] = record_recent_purge(h, i)],
           ran' = [ran EXCEPT ![h][i] = Ran(h, i)]
    PROVE  Remembers'
  <1>. DEFINE old == recent[h]
              new == record_recent_purge(h, i)
              o   == Oldest(old)
  <1>t. /\ ran \in [Hubs -> [Ids -> [n : Nat, at : Nat]]] /\ purges \in Nat
        /\ recent \in [Hubs -> Seq(Slot)]
        /\ Now(h) \in Nat /\ MaxRecent \in Nat /\ DedupWindow \in Nat
    <2>1. /\ ran \in [Hubs -> [Ids -> [n : Nat, at : Nat]]] /\ purges \in 0 .. MaxPurges
          /\ recent \in [Hubs -> Seq(Slot)]
      BY DEF TypeOK
    <2>2. MaxRecent \in Nat /\ DedupWindow \in Nat /\ MaxPurges \in Nat
      BY HubSyncAssumption DEF HubSyncAssumption
    <2>. QED BY <2>1, <2>2, RecordType
  <1>n. \A g \in Hubs : Now(g)' = Now(g)
    BY DEF Now
  <1>1. /\ new \in Seq(Slot) /\ Len(new) <= MaxRecent
        /\ \A k, m \in 1 .. Len(new) : new[k].id = new[m].id => k = m
        /\ \E k \in 1 .. Len(new) : new[k].id = i
        /\ \A k \in 1 .. Len(new) :
             \/ new[k] = [id |-> i, at |-> Now(h)]
             \/ new[k].id # i /\ k \in 1 .. Len(old) /\ new[k] = old[k]
        /\ \A k \in 1 .. Len(old) :
             \/ old[k].id = i
             \/ k \in 1 .. Len(new) /\ new[k] = old[k]
             \/ /\ k = o /\ Len(new) = MaxRecent
                /\ \A m \in 1 .. Len(old) : old[k].at <= old[m].at
    BY SlotsAfter
  <1>2. /\ recent'[h] = new
        /\ \A g \in Hubs : g # h => recent'[g] = recent[g] /\ ran'[g] = ran[g]
        /\ ran'[h] \in [Ids -> [n : Nat, at : Nat]]
        /\ ran'[h][i] = Ran(h, i)
        /\ \A k \in Ids : k # i => ran'[h][k] = ran[h][k]
    <2>1. Ran(h, i) \in [n : Nat, at : Nat]
      BY <1>t DEF Ran
    <2>. QED BY <1>t, <2>1
  <1>3. Ran(h, i).at = Now(h) /\ Ran(h, i).n > 0
    BY <1>t DEF Ran
  <1>4. /\ \A k \in 1 .. Len(old) : old[k].id \in Ids /\ old[k].at \in Nat
        /\ \A k \in 1 .. Len(new) : new[k].id \in Ids
    <2>. HIDE DEF old, new
    <2>1. old \in Seq(Slot)
      BY <1>t DEF old
    <2>2. /\ \A k \in 1 .. Len(old) : old[k] \in Slot
          /\ \A k \in 1 .. Len(new) : new[k] \in Slot
      BY <1>1, <2>1
    <2>. QED BY <2>2 DEF Slot
  <1>s. SlotsTrue(h) /\ RunsTrue(h) /\ Kept(h)
    BY DEF Remembers
  <1>. HIDE DEF old, new, o
  <1>5. SlotsTrue(h)'
    <2>1. ASSUME NEW k \in 1 .. Len(new)
          PROVE  ran'[h][new[k].id].n > 0 /\ ran'[h][new[k].id].at = new[k].at
      <3>1. CASE new[k] = [id |-> i, at |-> Now(h)]
        BY <1>2, <1>3, <3>1
      <3>2. CASE new[k].id # i /\ k \in 1 .. Len(old) /\ new[k] = old[k]
        <4>1. ran[h][old[k].id].n > 0 /\ ran[h][old[k].id].at = old[k].at
          BY <1>s, <3>2 DEF SlotsTrue, old
        <4>. QED BY <1>2, <1>4, <3>2, <4>1
      <3>. QED BY <1>1, <3>1, <3>2
    <2>. QED BY <1>1, <1>2, <2>1 DEF SlotsTrue
  <1>6. RunsTrue(h)'
    <2>1. ASSUME NEW k \in Ids
          PROVE  /\ ran'[h][k].n <= 1 /\ ran'[h][k].at <= Now(h)
                 /\ ran'[h][k].n > 0 => k <= purges'
      <3>1. CASE k = i
        BY <1>2, <1>3, <1>t, <3>1
      <3>2. CASE k # i
        <4>1. /\ ran[h][k].n <= 1 /\ ran[h][k].at <= Now(h)
              /\ ran[h][k].n > 0 => k <= purges
          BY <1>s DEF RunsTrue
        <4>2. k \in Nat
          BY DEF Ids
        <4>. QED BY <1>2, <1>t, <3>2, <4>1, <4>2
      <3>. QED BY <3>1, <3>2
    <2>. QED BY <1>n, <2>1 DEF RunsTrue
  <1>7. Kept(h)'
    <2>1. ASSUME NEW k \in Ids, ran'[h][k].n > 0, ~Forgotten(h, k)'
          PROVE  \E m \in 1 .. Len(new) : new[m].id = k
      <3>1. CASE k = i
        BY <1>1, <3>1
      <3>2. CASE k # i
        <4>1. ran'[h][k] = ran[h][k] /\ ran[h][k].n > 0 /\ ran[h][k].at \in Nat
          BY <1>2, <1>t, <2>1, <3>2
        <4>2. Later(h, k) \subseteq Later(h, k)'
          <5>1. ASSUME NEW m \in Ids \ {k}, ran[h][m].n > 0, ran[h][m].at >= ran[h][k].at
                PROVE  ran'[h][m].n > 0 /\ ran'[h][m].at >= ran'[h][k].at
            <6>1. CASE m = i
              <7>1. ran[h][k].at <= Now(h)
                BY <1>s DEF RunsTrue
              <7>. QED BY <1>2, <1>3, <1>t, <4>1, <6>1, <7>1
            <6>2. CASE m # i
              BY <1>2, <4>1, <5>1, <6>2
            <6>. QED BY <6>1, <6>2
          <5>. QED BY <5>1 DEF Later
        <4>3. Later(h, k) \in SUBSET Ids /\ Later(h, k)' \in SUBSET Ids
          BY DEF Later
        <4>4. ~(Now(h) - ran[h][k].at >= DedupWindow) /\ ~(Cardinality(Later(h, k)') >= MaxRecent)
          BY <1>n, <2>1, <4>1 DEF Forgotten
        <4>5. ~Forgotten(h, k)
          <5>1. /\ Cardinality(Later(h, k)) \in Nat /\ Cardinality(Later(h, k)') \in Nat
                /\ Cardinality(Later(h, k)) <= Cardinality(Later(h, k)')
            BY <4>2, <4>3, LaterGrows
          <5>. QED BY <1>t, <4>4, <5>1 DEF Forgotten
        <4>6. PICK m \in 1 .. Len(old) : old[m].id = k
          BY <1>s, <4>1, <4>5 DEF Kept, old
        <4>7. CASE m \in 1 .. Len(new) /\ new[m] = old[m]
          BY <4>6, <4>7
        <4>8. CASE /\ m = o /\ Len(new) = MaxRecent
                   /\ \A q \in 1 .. Len(old) : old[m].at <= old[q].at
          <5>. SUFFICES ASSUME \A q \in 1 .. Len(new) : new[q].id # k PROVE FALSE
            OBVIOUS
          <5>1. old[m].at = ran[h][k].at
            BY <1>s, <4>6 DEF SlotsTrue, old
          <5>2. ASSUME NEW q \in 1 .. Len(new) PROVE new[q].id \in Later(h, k)'
            <6>1. ran'[h][new[q].id].n > 0 /\ ran'[h][new[q].id].at = new[q].at
              BY <1>2, <1>5 DEF SlotsTrue
            <6>2. new[q].at >= ran'[h][k].at
              <7>1. CASE new[q] = [id |-> i, at |-> Now(h)]
                <8>1. ran[h][k].at <= Now(h)
                  BY <1>s DEF RunsTrue
                <8>. QED BY <1>t, <4>1, <7>1, <8>1
              <7>2. CASE q \in 1 .. Len(old) /\ new[q] = old[q]
                BY <1>4, <4>1, <4>8, <5>1, <7>2
              <7>. QED BY <1>1, <7>1, <7>2
            <6>3. new[q].id \in Ids \ {k}
              BY <1>4
            <6>. QED BY <6>1, <6>2, <6>3 DEF Later
          <5>3. Len(new) <= Cardinality(Later(h, k)')
            <6>. DEFINE f == [q \in 1 .. Len(new) |-> new[q].id]
            <6>1. f \in [1 .. Len(new) -> Ids] /\ Len(new) \in Nat
              BY <1>1, <1>4
            <6>2. \A q, r \in 1 .. Len(new) : f[q] = f[r] => q = r
              BY <1>1
            <6>3. \A q \in 1 .. Len(new) : f[q] \in Later(h, k)'
              BY <5>2
            <6>. HIDE DEF f
            <6>. QED BY <6>1, <6>2, <6>3, <4>3, SlotsCount
          <5>4. Cardinality(Later(h, k)') \in Nat
            BY <4>3, LaterGrows
          <5>. QED BY <1>t, <4>4, <4>8, <5>3, <5>4
        <4>. QED BY <1>1, <3>2, <4>6, <4>7, <4>8
      <3>. QED BY <3>1, <3>2
    <2>. QED BY <1>2, <2>1 DEF Kept
  <1>8. ASSUME NEW g \in Hubs, g # h PROVE SlotsTrue(g)' /\ RunsTrue(g)' /\ Kept(g)'
    <2>1. recent'[g] = recent[g] /\ ran'[g] = ran[g] /\ Now(g)' = Now(g)
      BY <1>2, <1>8, <1>n
    <2>2. SlotsTrue(g) /\ RunsTrue(g) /\ Kept(g)
      BY DEF Remembers
    <2>3. SlotsTrue(g)'
      BY <2>1, <2>2 DEF SlotsTrue
    <2>4. RunsTrue(g)'
      <3>1. \A k \in Ids : k <= purges => k <= purges'
        BY <1>t DEF Ids
      <3>. QED BY <2>1, <2>2, <3>1 DEF RunsTrue
    <2>5. Kept(g)'
      <3>1. \A k \in Ids : Forgotten(g, k)' <=> Forgotten(g, k)
        BY <2>1 DEF Forgotten, Later
      <3>. QED BY <2>1, <2>2, <3>1 DEF Kept
    <2>. QED BY <2>3, <2>4, <2>5
  <1>. QED BY <1>5, <1>6, <1>7, <1>8 DEF Remembers

LEMMA RememberStep ==
    ASSUME TypeOK, Genuine, Remembers, [Next]_vars
    PROVE  Remembers'
  <1>0. purges \in Nat /\ purges <= MaxPurges /\ MaxPurges \in Nat
    BY HubSyncAssumption DEF HubSyncAssumption, TypeOK
  <1>1. ASSUME UNCHANGED <<now, recent, ran, purges>> PROVE Remembers'
    BY <1>1 DEF Remembers, SlotsTrue, RunsTrue, Kept, Forgotten, Later, Now
  <1>2. CASE Tick
    <2>. SUFFICES ASSUME NEW h \in Hubs PROVE SlotsTrue(h)' /\ RunsTrue(h)' /\ Kept(h)'
      BY DEF Remembers
    <2>1. UNCHANGED <<recent, ran, purges>> /\ now' = now + 1
      BY <1>2 DEF Tick
    <2>2. SlotsTrue(h) /\ RunsTrue(h) /\ Kept(h)
      BY DEF Remembers
    <2>3. Now(h) \in Nat /\ Now(h)' = Now(h) + 1 /\ DedupWindow \in Nat
      BY <2>1, HubSyncAssumption DEF HubSyncAssumption, Now, TypeOK
    <2>4. \A i \in Ids : ran[h][i].at \in Nat
      BY DEF TypeOK
    <2>5. \A i \in Ids : ran[h][i].at <= Now(h)'
      BY <2>2, <2>3, <2>4 DEF RunsTrue
    <2>6. \A i \in Ids : Forgotten(h, i) => Forgotten(h, i)'
      <3>1. \A i \in Ids : Later(h, i)' = Later(h, i)
        BY <2>1 DEF Later
      <3>. QED BY <2>1, <2>3, <2>4, <3>1 DEF Forgotten
    <2>7. SlotsTrue(h)' /\ RunsTrue(h)'
      BY <2>1, <2>2, <2>5 DEF SlotsTrue, RunsTrue
    <2>8. Kept(h)'
      BY <2>1, <2>2, <2>6 DEF Kept
    <2>. QED BY <2>7, <2>8
  <1>3. ASSUME NEW h \in Hubs, NEW cutoff, StartPurge(h, cutoff) PROVE Remembers'
    <2>. DEFINE i == purges + 1
    <2>1. /\ recent' = [recent EXCEPT ![h] = record_recent_purge(h, i)]
          /\ ran' = [ran EXCEPT ![h][i] = Ran(h, i)]
          /\ purges' = i /\ now' = now /\ purges < MaxPurges
      BY <1>3 DEF StartPurge
    <2>2. i \in Ids /\ purges' \in Nat /\ i <= purges' /\ purges <= purges'
      BY <1>0, <2>1 DEF Ids
    <2>3. Ran(h, i).n <= 1
      <3>1. ran[h][i].n \in Nat /\ (ran[h][i].n > 0 => i <= purges)
        BY <2>2 DEF TypeOK, Remembers, RunsTrue
      <3>2. ran[h][i].n = 0
        BY <1>0, <3>1
      <3>. QED BY <3>2 DEF Ran
    <2>. HIDE DEF i
    <2>. QED BY <2>1, <2>2, <2>3, RunKeeps
  <1>4. ASSUME NEW h \in Hubs, Restart(h) PROVE Remembers'
    <2>. SUFFICES ASSUME NEW g \in Hubs PROVE SlotsTrue(g)' /\ RunsTrue(g)' /\ Kept(g)'
      BY DEF Remembers
    <2>1. /\ recent' = [recent EXCEPT ![h] = <<>>]
          /\ ran' = [ran EXCEPT ![h] = [i \in Ids |-> Never]]
          /\ UNCHANGED <<now, purges>>
      BY <1>4 DEF Restart
    <2>2. CASE g = h
      <3>1. recent'[g] = <<>> /\ ran'[g] = [i \in Ids |-> Never] /\ Len(<<>>) = 0
        BY <2>1, <2>2 DEF TypeOK
      <3>2. Now(g)' \in Nat /\ MaxRecent \in Nat
        <4>1. now' = now /\ now \in Nat /\ Skew[g] \in Nat /\ MaxRecent \in Nat
          BY <2>1, HubSyncAssumption DEF HubSyncAssumption, TypeOK
        <4>. QED BY <4>1 DEF Now
      <3>3. SlotsTrue(g)'
        BY <3>1, <3>2 DEF SlotsTrue
      <3>4. RunsTrue(g)'
        BY <3>1, <3>2 DEF RunsTrue, Never
      <3>5. Kept(g)'
        BY <3>1 DEF Kept, Never
      <3>. QED BY <3>3, <3>4, <3>5
    <2>3. CASE g # h
      <3>1. recent'[g] = recent[g] /\ ran'[g] = ran[g] /\ Now(g)' = Now(g) /\ purges' = purges
        BY <2>1, <2>3 DEF TypeOK, Now
      <3>2. \A k \in Ids : Forgotten(g, k)' <=> Forgotten(g, k)
        BY <3>1 DEF Forgotten, Later
      <3>3. SlotsTrue(g) /\ RunsTrue(g) /\ Kept(g)
        BY DEF Remembers
      <3>4. SlotsTrue(g)' /\ RunsTrue(g)'
        BY <3>1, <3>3 DEF SlotsTrue, RunsTrue
      <3>5. Kept(g)'
        BY <3>1, <3>2, <3>3 DEF Kept
      <3>. QED BY <3>4, <3>5
    <2>. QED BY <2>2, <2>3
  <1>5. ASSUME NEW g \in Hubs, NEW h \in Hubs, DeliverDelta(g, h) PROVE Remembers'
    <2>. DEFINE f == Head(delta[g][h])
                d == [delta EXCEPT ![g][h] = Tail(@)]
    <2>1. f \in Frames(written, purges)
      BY <1>5, GenuineLanes, TakeType DEF DeliverDelta
    <2>2. f.purge # None => f.purge \in [id : 1 .. purges, cutoff : Nat]
      BY <2>1 DEF Frames
    <2>3. \/ Unread(d, h, g)
          \/ f.purge # None /\ ApplyPurge(d, h, g, f.purge, TRUE)
          \/ ApplyRecs(d, h, g, f.recs, TRUE)
      BY <1>5 DEF DeliverDelta
    <2>4. UNCHANGED <<now, purges>>
      BY <1>5 DEF DeliverDelta
    <2>. HIDE DEF f, d
    <2>5. CASE Unread(d, h, g) \/ ApplyRecs(d, h, g, f.recs, TRUE)
      <3>1. UNCHANGED <<recent, ran>>
        BY <2>5 DEF Unread, ApplyRecs
      <3>. QED BY <1>1, <2>4, <3>1
    <2>6. CASE f.purge # None /\ ApplyPurge(d, h, g, f.purge, TRUE)
      <3>. DEFINE i == f.purge.id
      <3>1. i \in 1 .. purges
        BY <2>2, <2>6
      <3>2. CASE is_purge_recent(h, i)
        <4>1. UNCHANGED <<recent, ran>>
          BY <2>6, <3>2 DEF ApplyPurge
        <4>. QED BY <1>1, <2>4, <4>1
      <3>3. CASE ~is_purge_recent(h, i)
        <4>1. /\ recent' = [recent EXCEPT ![h] = record_recent_purge(h, i)]
              /\ ran' = [ran EXCEPT ![h][i] = Ran(h, i)]
          BY <2>6, <3>3 DEF ApplyPurge
        <4>. HIDE DEF i
        <4>2. i \in Ids /\ i <= purges' /\ purges <= purges' /\ purges' \in Nat
          BY <1>0, <2>4, <3>1 DEF Ids
        <4>3. Ran(h, i).n <= 1
          BY <3>3, <4>2, MayRun
        <4>. QED BY <2>4, <4>1, <4>2, <4>3, RunKeeps
      <3>. QED BY <3>2, <3>3
    <2>. QED BY <2>3, <2>5, <2>6
  <1>6. ASSUME NEW g \in Hubs, NEW h \in Hubs, DeliverFull(g, h) PROVE Remembers'
    <2>1. UNCHANGED <<now, purges, recent, ran>>
      BY <1>6 DEF DeliverFull, Unread, ApplyRecs
    <2>. QED BY <1>1, <2>1
  <1>7. ASSUME \/ UNCHANGED vars
               \/ \E h \in Hubs, r \in Recs : DelRec(h, r) \/ \E v \in Vals : AddRec(h, r, v)
               \/ \E h \in Hubs : Resync(h) \/ SaveConfig(h) \/ AntiEntropy(h)
               \/ \E g, h \in Hubs : ServeRequest(g, h) \/ Roster(g, h) \/ LinkUp(g, h)
               \/ \E e \in Edges : LinkDown(e)
        PROVE  Remembers'
    <2>. DEFINE Same == UNCHANGED <<now, recent, ran, purges>>
    <2>a. UNCHANGED vars => Same
      BY DEF vars
    <2>b. \A h \in Hubs, r \in Recs : DelRec(h, r) \/ (\E v \in Vals : AddRec(h, r, v)) => Same
      <3>1. ASSUME NEW h, NEW r, NEW act, NEW v, Write(h, r, act, v) PROVE Same
        BY <3>1 DEF Write
      <3>. HIDE DEF Same
      <3>. QED BY <3>1 DEF DelRec, AddRec
    <2>c. \A h \in Hubs : Resync(h) \/ SaveConfig(h) \/ AntiEntropy(h) => Same
      BY DEF Resync, SaveConfig, AntiEntropy
    <2>d. \A g, h \in Hubs : ServeRequest(g, h) \/ Roster(g, h) \/ LinkUp(g, h) => Same
      BY DEF ServeRequest, Roster, LinkUp
    <2>e. \A e \in Edges : LinkDown(e) => Same
      BY DEF LinkDown
    <2>. HIDE DEF Same
    <2>f. Same
      BY <1>7, <2>a, <2>b, <2>c, <2>d, <2>e
    <2>1. UNCHANGED <<now, recent, ran, purges>>
      BY <2>f DEF Same
    <2>. QED BY <1>1, <2>1
  <1>. QED BY <1>2, <1>3, <1>4, <1>5, <1>6, <1>7 DEF Next

LEMMA RememberInit == Init => Remembers
  <1>. SUFFICES ASSUME Init, NEW h \in Hubs PROVE SlotsTrue(h) /\ RunsTrue(h) /\ Kept(h)
    BY DEF Remembers
  <1>1. recent[h] = <<>> /\ ran[h] = [i \in Ids |-> Never] /\ Len(<<>>) = 0
    BY DEF Init
  <1>2. Now(h) \in Nat /\ MaxRecent \in Nat
    BY HubSyncAssumption DEF HubSyncAssumption, Init, Now
  <1>. QED BY <1>1, <1>2 DEF SlotsTrue, RunsTrue, Kept, Never

(* However the PURGE frames loop, repeat, arrive late or cross others, a   *)
(* hub does not run one twice between two starts within the window of its  *)
(* table, until as many others as the table holds ran there at least as    *)
(* late.                                                                   *)
THEOREM PurgeOnceAlways == Spec => []PurgeOnce
  <1>1. TypeOK /\ Genuine /\ Remembers /\ [Next]_vars => Remembers'
    BY RememberStep
  <1>2. Remembers => PurgeOnce
    BY DEF Remembers, RunsTrue, PurgeOnce
  <1>. QED BY <1>1, <1>2, RememberInit, GenuineAlways, PTL DEF Spec
=============================================================================
