------------------------------- MODULE Revoke -------------------------------
(***************************************************************************)
(* Deleted bots.  A delete is a tombstone that a purge removes, and an     *)
(* entry of the revoke list, which is kept: a bot on it proves its key, is *)
(* told to wipe itself and is closed.  Two linked hubs register, delete    *)
(* and purge bots, lose their link and restart, while bots log in.         *)
(*                                                                         *)
(* A record is its stamps, d of its delete, pub of its key and hl of the   *)
(* hubs it dials, 0 for none, and the order its entries came in.           *)
(* Forwarding to further hubs is the matter of HubSync.                    *)
(***************************************************************************)
EXTENDS Integers, Sequences, FiniteSets, SequencesExt

CONSTANTS
    Uuids,                  \* bots, as numbers: their order is that of the uuids
    MaxRevoked,             \* MAX_REVOKED
    FloorHold,              \* PURGE_FLOOR_HOLD
    SessSlots,              \* connections of bots to a hub
    MaxDay, MaxMoves, MaxMishaps,
    MaxLogins               \* bounds; bots log in among the first MaxLogins moves

ASSUME RevokeAssumption ==
    /\ Uuids \subseteq Nat /\ IsFiniteSet(Uuids) /\ SessSlots \subseteq Nat /\ MaxRevoked \in Nat \ {0}
    /\ {FloorHold, MaxDay, MaxMoves, MaxLogins, MaxMishaps} \subseteq Nat

VARIABLES
    hub,        \* reg: state.bots, rv: state.revoked, floor, hold: purge_floor and its end
    sess,       \* connections of bots
    net,        \* sync frames under way to each hub
    joined,     \* the link of the hubs
    day, moves, mishaps

rvkVars == <<hub, sess, net, joined, day, moves, mishaps>>

Nodes == {1, 2}
NoSess == [st |-> "none", u |-> 0, q |-> FALSE, superseded |-> FALSE, late |-> FALSE, full |-> FALSE]
NewBot == [live |-> TRUE, d |-> 0, pub |-> 0, hl |-> 0, keys |-> <<>>]
Nothing == [u \in {} |-> 0]

RvkInit ==
    /\ hub = [h \in Nodes |-> [reg |-> [u \in Uuids |-> [NewBot EXCEPT !.pub = 1, !.hl = 1, !.keys = <<"pub", "hl">>]],
                              rv |-> Nothing, floor |-> 0, hold |-> 0]]
    /\ sess = [h \in Nodes |-> [s \in SessSlots |-> NoSess]]
    /\ net = [h \in Nodes |-> <<>>] /\ joined = TRUE /\ day = 1 /\ moves = 0 /\ mishaps = 0

-----------------------------------------------------------------------------
(* The lists of one hub x.                                                 *)
Larger2(a, b) == IF a > b THEN a ELSE b
Smaller2(a, b) == IF a < b THEN a ELSE b
Minus(f, u) == [v \in DOMAIN f \ {u} |-> f[v]]
Plus(f, u, r) == [v \in DOMAIN f \cup {u} |-> IF v = u THEN r ELSE f[v]]
WithReg(x, reg) == [reg |-> reg, rv |-> x.rv, floor |-> x.floor, hold |-> x.hold]
WithRv(x, rv) == [reg |-> x.reg, rv |-> rv, floor |-> x.floor, hold |-> x.hold]

Older(u, r, v, q) == r.del < q.del \/ (r.del = q.del /\ u < v)
Oldest(list) == CHOOSE u \in DOMAIN list : \A v \in DOMAIN list \ {u} : Older(u, list[u], v, list[v])

(* The same bot on two lists: field by field.                              *)
Merged(q, r) ==
    [pub |-> Larger2(q.pub, r.pub), wiped |-> Larger2(q.wiped, r.wiped), del |-> Smaller2(q.del, r.del)]

(* Mutant: a full list makes room for whoever comes.                       *)
MergeNewcomer(x, u, r) ==
    IF u \in DOMAIN x.rv
    THEN [x EXCEPT !.rv[u] = Merged(@, r)]
    ELSE IF Cardinality(DOMAIN x.rv) < MaxRevoked THEN [x EXCEPT !.rv = Plus(@, u, r)]
    ELSE [x EXCEPT !.rv = Plus(Minus(@, Oldest(@)), u, r)]

(* merge: a full list keeps the latest deletes.                            *)
merge(x, u, r) ==
    IF u \in DOMAIN x.rv
    THEN [x EXCEPT !.rv[u] = Merged(@, r)]
    ELSE IF Cardinality(DOMAIN x.rv) < MaxRevoked THEN [x EXCEPT !.rv = Plus(@, u, r)]
    ELSE IF Older(u, r, Oldest(x.rv), x.rv[Oldest(x.rv)]) THEN x
    ELSE [x EXCEPT !.rv = Plus(Minus(@, Oldest(@)), u, r)]

(* from_bot: a deleted bot with a key on file joins the list.              *)
from_bot(x, u) ==
    LET b == x.reg[u]
    IN  IF b.live \/ b.pub = 0 \/ b.d = 0 THEN x
        ELSE merge(x, u, [pub |-> b.pub, wiped |-> 0, del |-> b.d])

(* update_entry creates nothing for a revoked bot but its tombstone, and   *)
(* no tombstone a purge has removed.  The hub list is not asked about.     *)
Refused(x, u, key, ts) ==
    /\ u \notin DOMAIN x.reg
    /\ \/ key = "d" /\ x.hold > day /\ ts < x.floor
       \/ key = "pub" /\ u \in DOMAIN x.rv

(* The bot with an entry: the first of its kind comes last.                *)
Entered(b, key, ts) == [b EXCEPT ![key] = ts, !.keys = IF b[key] = 0 THEN Append(@, key) ELSE @]

(* Mutant: the revoke list is not asked.                                   *)
UpdateUnasked(x, u, key, ts) ==
    LET b == IF u \in DOMAIN x.reg THEN x.reg[u] ELSE NewBot
        e == [Entered(b, key, ts) EXCEPT !.live = @ /\ key # "d"]
    IN  IF (key = "d" /\ Refused(x, u, key, ts)) \/ ts <= b[key] THEN x
        ELSE from_bot([x EXCEPT !.reg = Plus(@, u, e)], u)

(* update_entry, for a stamp of the delete, of the key or of the hub list: *)
(* the last alone leaves a record live, whoever it is of.                  *)
update_entry(x, u, key, ts) ==
    LET b == IF u \in DOMAIN x.reg THEN x.reg[u] ELSE NewBot
        off == key = "d" \/ (key = "pub" /\ u \in DOMAIN x.rv)
        e == [Entered(b, key, ts) EXCEPT !.live = @ /\ ~off]
        y == WithReg(x, Plus(x.reg, u, e))
    IN  IF Refused(x, u, key, ts) \/ ts <= b[key] THEN x
        ELSE IF key = "hl" THEN y ELSE from_bot(y, u)

(* execute_purge of every tombstone.                                       *)
purge_bots(x) ==
    [reg |-> [u \in {v \in DOMAIN x.reg : x.reg[v].d = 0} |-> x.reg[u]], rv |-> x.rv,
     floor |-> IF x.floor < day \/ x.hold <= day THEN day ELSE x.floor, hold |-> day + FloorHold]

(* process_peer_sync, line by line, and the lines of a full sync: the      *)
(* revoke list before the bots.  The lines of a bot's entries follow each  *)
(* other in their order, here as one.                                      *)
Line(k, u, r) == [k |-> k, u |-> u, r |-> r]
sync_bot_entry(x, u, r, n) ==
    IF n <= Len(r.keys) THEN update_entry(x, u, r.keys[n], r[r.keys[n]]) ELSE x
apply(x, l) ==
    CASE l.k = "rv" -> merge(x, l.u, l.r)
      [] l.k = "purge" -> purge_bots(x)
      [] l.k = "bot" ->
           sync_bot_entry(sync_bot_entry(sync_bot_entry(x, l.u, l.r, 1), l.u, l.r, 2), l.u, l.r, 3)
      [] OTHER -> update_entry(x, l.u, l.k, l.r)
Applied(x, lines) ==
    LET after[n \in 0 .. Len(lines)] == IF n = 0 THEN x ELSE apply(after[n - 1], lines[n])
    IN  after[Len(lines)]
BotLines(x) ==
    LET bots == SetToSeq(DOMAIN x.reg) IN [i \in DOMAIN bots |-> Line("bot", bots[i], x.reg[bots[i]])]
generate_sync_packet(x) ==
    LET rvs == SetToSeq(DOMAIN x.rv)
    IN  [i \in DOMAIN rvs |-> Line("rv", rvs[i], x.rv[rvs[i]])] \o BotLines(x)

-----------------------------------------------------------------------------
(* retire_revoked_bots: connected bots on the list are told, but for those *)
(* whose urgent lane is full.                                              *)
retire_revoked_bots(ss, x, full) ==
    [s \in SessSlots |->
        IF ss[s].st # "bot" \/ ss[s].u \notin DOMAIN x.rv THEN ss[s]
        ELSE IF s \in full THEN [ss[s] EXCEPT !.full = TRUE, !.late = FALSE]
        ELSE [ss[s] EXCEPT !.st = "retiring"]]

Posted(h, lines) == IF joined THEN [net EXCEPT ![3 - h] = Append(@, lines)] ELSE net
Move == moves < MaxMoves /\ moves' = moves + 1
Mishap == mishaps < MaxMishaps /\ mishaps' = mishaps + 1

(* Every connected bot of hub h that x has on the list, lanes permitting.  *)
Retires(h, x) ==
    \E full \in SUBSET {s \in SessSlots : sess[h][s].st = "bot" /\ sess[h][s].u \in DOMAIN x.rv} :
        /\ sess' = [sess EXCEPT ![h] = retire_revoked_bots(@, x, full)]
        /\ IF full = {} THEN UNCHANGED mishaps ELSE Mishap

create_bot(h, u) ==
    /\ u \notin DOMAIN hub[h].rv \cup DOMAIN hub[h].reg /\ Move
    /\ hub' = [hub EXCEPT ![h] = update_entry(@, u, "pub", day)]
    /\ UNCHANGED <<sess, net, joined, day, mishaps>>

(* bot del (storage::delete): one past the last delete.                    *)
bot_del(h, u) ==
    /\ u \in DOMAIN hub[h].reg /\ hub[h].reg[u].live /\ Move
    /\ LET d == hub[h].reg[u].d
           ts == Larger2(day, d + 1)
           x == update_entry(hub[h], u, "d", ts)
       IN  /\ hub' = [hub EXCEPT ![h] = x]
           /\ Retires(h, x)
           /\ net' = Posted(h, <<Line("d", u, ts)>> \o
                               IF u \in DOMAIN x.rv THEN <<Line("rv", u, x.rv[u])>> ELSE <<>>)
    /\ UNCHANGED <<joined, day>>

(* Mutant: only the hub of the bot del tells connected bots.               *)
SyncQuiet(h) ==
    /\ net[h] # <<>>
    /\ hub' = [hub EXCEPT ![h] = Applied(@, Head(net[h]))]
    /\ net' = [net EXCEPT ![h] = Tail(@)] /\ UNCHANGED <<sess, joined, day, moves, mishaps>>

process_sync(h) ==
    /\ net[h] # <<>>
    /\ LET x == Applied(hub[h], Head(net[h]))
       IN  /\ hub' = [hub EXCEPT ![h] = x]
           /\ IF <<x.reg, x.rv>> = <<hub[h].reg, hub[h].rv>> THEN UNCHANGED <<sess, mishaps>> ELSE Retires(h, x)
    /\ net' = [net EXCEPT ![h] = Tail(@)] /\ UNCHANGED <<joined, day, moves>>

(* hub purge now, here and at the peer.                                    *)
purge_now(h) ==
    /\ \E u \in DOMAIN hub[h].reg : hub[h].reg[u].d > 0
    /\ Move
    /\ hub' = [hub EXCEPT ![h] = purge_bots(@)] /\ net' = Posted(h, <<Line("purge", 0, 0)>>)
    /\ UNCHANGED <<sess, joined, day, mishaps>>

-----------------------------------------------------------------------------
(* handle_bot_authentication: the uuid, then the signature.  A connection  *)
(* gets the lowest descriptor that is free.                                *)
hello(h, s, u) ==
    /\ sess[h][s].st = "none" /\ \A t \in SessSlots : t < s => sess[h][t].st # "none"
    /\ moves < MaxLogins /\ moves' = moves + 1
    /\ LET q == u \in DOMAIN hub[h].rv
       IN  /\ q \/ (u \in DOMAIN hub[h].reg /\ hub[h].reg[u].live)
           /\ sess' = [sess EXCEPT ![h][s] = [NoSess EXCEPT !.st = "challenge", !.u = u, !.q = q]]
    /\ UNCHANGED <<hub, net, joined, day, mishaps>>

(* supersede_bot_sessions                                                  *)
supersede(ss, u) ==
    [s \in SessSlots |-> IF ss[s].st \in {"bot", "retiring"} /\ ss[s].u = u
                        THEN [ss[s] EXCEPT !.superseded = TRUE] ELSE ss[s]]

proves(h, s) ==
    LET c == sess[h][s]
        x == hub[h]
        revoked == c.u \in DOMAIN x.rv
        keyed == IF c.q THEN revoked ELSE c.u \in DOMAIN x.reg /\ x.reg[c.u].pub > 0
    IN  /\ c.st = "challenge"
        /\ sess' = [sess EXCEPT ![h] =
                      IF ~keyed THEN [@ EXCEPT ![s] = NoSess]
                      ELSE IF c.q THEN [@ EXCEPT ![s].st = "quarantine"]
                      ELSE [supersede(@, c.u) EXCEPT ![s] = [c EXCEPT !.st = "bot", !.late = revoked]]]
        /\ hub' = IF keyed /\ ~c.q
                  THEN [hub EXCEPT ![h] = WithReg(x, [x.reg EXCEPT ![c.u].live = @ /\ ~revoked])]
                  ELSE hub
        /\ UNCHANGED <<net, joined, day, moves, mishaps>>

(* The hub list a connected bot reports, one past the last.                *)
push_hub_list(h, s) ==
    LET u == sess[h][s].u
        ts == Larger2(day, hub[h].reg[u].hl + 1)
    IN  /\ sess[h][s].st = "bot" /\ ~sess[h][s].superseded /\ u \in DOMAIN hub[h].reg /\ Move
        /\ hub' = [hub EXCEPT ![h] = update_entry(@, u, "hl", ts)]
        /\ net' = Posted(h, <<Line("hl", u, ts)>>)
        /\ UNCHANGED <<sess, joined, day, mishaps>>

(* retire_ack_apply: stamped wiped, and closed.                            *)
retire_ack(h, s) ==
    LET c == sess[h][s]
        x == IF c.u \in DOMAIN hub[h].rv
             THEN WithRv(hub[h], [hub[h].rv EXCEPT ![c.u].wiped = Larger2(@, day)]) ELSE hub[h]
    IN  /\ c.st \in {"quarantine", "retiring"} /\ ~c.superseded
        /\ hub' = [hub EXCEPT ![h] = x] /\ sess' = [sess EXCEPT ![h][s] = NoSess]
        /\ net' = IF c.u \in DOMAIN x.rv THEN Posted(h, <<Line("rv", c.u, x.rv[c.u])>>) ELSE net
        /\ UNCHANGED <<joined, day, moves, mishaps>>

(* The end of a connection: its own, or the scan of the maintenance.       *)
SessionEnds(h, s) ==
    /\ sess[h][s].st # "none" /\ sess' = [sess EXCEPT ![h][s] = NoSess]
    /\ UNCHANGED <<hub, net, joined, day, moves, mishaps>>

-----------------------------------------------------------------------------
LinkLost ==
    /\ joined /\ Mishap /\ joined' = FALSE /\ net' = [h \in Nodes |-> <<>>]
    /\ UNCHANGED <<hub, sess, day, moves>>
LinkBack ==
    /\ ~joined /\ joined' = TRUE
    /\ net' = [h \in Nodes |-> <<generate_sync_packet(hub[3 - h])>>]
    /\ UNCHANGED <<hub, sess, day, moves, mishaps>>

(* A restart: the file has the revoke list first, then the bots' lines.    *)
Reloaded(x) == Applied([reg |-> Nothing, rv |-> x.rv, floor |-> 0, hold |-> 0], BotLines(x))
HubRestarts(h) ==
    /\ Mishap /\ joined' = FALSE /\ net' = [g \in Nodes |-> <<>>]
    /\ hub' = [hub EXCEPT ![h] = Reloaded(@)]
    /\ sess' = [sess EXCEPT ![h] = [s \in SessSlots |-> NoSess]] /\ UNCHANGED <<day, moves>>
DayPasses == day < MaxDay /\ day' = day + 1 /\ UNCHANGED <<hub, sess, net, joined, moves, mishaps>>

RvkNext ==
    \/ \E h \in Nodes :
        \/ \E u \in Uuids : create_bot(h, u) \/ bot_del(h, u) \/ \E s \in SessSlots : hello(h, s, u)
        \/ process_sync(h) \/ purge_now(h) \/ HubRestarts(h)
        \/ \E s \in SessSlots : proves(h, s) \/ push_hub_list(h, s) \/ retire_ack(h, s) \/ SessionEnds(h, s)
    \/ LinkLost \/ LinkBack \/ DayPasses

RvkSpec == RvkInit /\ [][RvkNext]_rvkVars

-----------------------------------------------------------------------------
(* "Every hub drops the same one, so the lists stay equal": whatever was   *)
(* deleted where, in which order and past the size of the list, once the   *)
(* frames are read a few full syncs each way make the lists the same.  One *)
(* is not enough: a bot deleted on both hubs takes its earlier stamp late, *)
(* by then in the place of another, and a purged record comes back (merge).*)
Exchanged(xs) ==
    [h \in Nodes |-> Applied(xs[h], generate_sync_packet(xs[3 - h]))]
ListsAgree ==
    joined /\ net = [h \in Nodes |-> <<>>] /\ hub[1] # hub[2] =>
        LET xs == Exchanged(Exchanged(Exchanged(hub))) IN xs[1].rv = xs[2].rv

(* "A revoked uuid never comes back": no late sync, purge or restart makes *)
(* a bot on the list one that could log in, live and with its key, once it *)
(* is not.  What may come back of a purged bot is an empty live record,    *)
(* which its hub list leaves: update_entry does not ask the revoke list    *)
(* about that key (update_entry).                                          *)
NeverBack == [][\A h \in Nodes, u \in Uuids :
    LET Usable(x) == u \in DOMAIN x.reg /\ x.reg[u].live /\ x.reg[u].pub > 0
    IN  u \in DOMAIN hub[h].rv \cap DOMAIN hub'[h].rv /\ ~Usable(hub[h]) => ~Usable(hub'[h])]_rvkVars

(* A connected bot on the list has been told to wipe itself, wherever it   *)
(* was deleted, unless since the hub last told its bots it proved a key    *)
(* for a uuid it had sent before the delete was known, or its urgent lane  *)
(* was full then (retire_revoked_bots).                                    *)
ToldToWipe ==
    \A h \in Nodes, s \in SessSlots :
        LET c == sess[h][s] IN c.st = "bot" /\ c.u \in DOMAIN hub[h].rv => c.late \/ c.full

(* A bot has one session in use on a hub, however logins overlap.          *)
OneSession ==
    \A h \in Nodes, s, t \in SessSlots :
        s # t /\ sess[h][s].st \in {"bot", "retiring"} /\ sess[h][t].st \in {"bot", "retiring"}
        /\ sess[h][s].u = sess[h][t].u => sess[h][s].superseded \/ sess[h][t].superseded

(* Connected bots: one session each, and a revoked one told to wipe.       *)
SessionsTrue == ToldToWipe /\ OneSession
=============================================================================
