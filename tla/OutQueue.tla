------------------------------ MODULE OutQueue ------------------------------
(***************************************************************************)
(* The outbound queue of one linked bot and the config pushes that go      *)
(* through it: three priority lanes with coalescing and overflow, the      *)
(* drain with its frame in flight, and the memory of what was sent         *)
(* (cfg_sent_hash, tree_sent_hash) that lets a broadcast be skipped.       *)
(*                                                                         *)
(* A config is a version number; Content says which versions hash alike    *)
(* (a change undone).  The bot is external: it takes the frames of its     *)
(* socket in order and now and then changes its own tables and pushes.     *)
(***************************************************************************)
EXTENDS Integers, Sequences, SequencesExt, FiniteSets

CONSTANTS
    MaxVersion,  \* bound: config changes
    Content,     \* [0 .. MaxVersion -> Nat]: what a config version hashes to
    Size,        \* [Nat -> Nat] on contents: payload length
    LaneCap,     \* MAX_QUEUE_PER_LANE
    ByteCap,     \* MAX_QUEUED_BYTES_PER_PEER
    WritingCap,  \* writing_cap of the connection
    BulkBudget,  \* BULK_SOFT_BUDGET_BPS
    DeltaBudget, \* DELTA_HARD_BUDGET_BPS
    MaxEvents    \* bound: commands, pings, replies and tree changes sent to the bot,
                 \* its pushes besides the first of a session, connections lost

Versions == 0 .. MaxVersion

ASSUME OutQueueAssumption ==
    /\ MaxVersion \in Nat
    /\ Content \in [Versions -> Nat]
    /\ \A v \in Versions : Size[Content[v]] \in Nat
    /\ LaneCap \in Nat \ {0}
    /\ {ByteCap, WritingCap, BulkBudget, DeltaBudget, MaxEvents} \subseteq Nat

VARIABLES
    cfg,      \* the version the hub would send now
    tree,     \* the roster tree it would send now
    pending,  \* bot_config_pending
    window,   \* BOT_CONFIG_PUSH_COALESCE has passed since the last push
    q,        \* the queue side of the HubClient, see Queue
    writing,  \* writing_buf: the frame in flight, or None
    bw,       \* bw_bytes_in_window
    linked,       \* the connection exists
    dead,     \* a send on it failed for good
    pushed,   \* this session's first CMD_CONFIG_PUSH was handled
    socket,     \* frames the socket took, oldest first
    bot,      \* the bot: its config version (Own: its own tables), its tree
    push,     \* a push of the bot is on its way to the hub
    events,   \* counts towards MaxEvents
    lost      \* history: a config frame was dropped from this connection

oqVars == <<cfg, tree, pending, window, q, writing, bw, linked, dead, pushed, socket, bot, push,
          events, lost>>

Urgent == 1
DeltaL == 2
Bulk   == 3
Lanes  == 1 .. 3
Own    == -1

(* cmd: a config, a tree, a command that relies on config version val, or  *)
(* anything else.  Only configs and trees have a coalesce key.             *)
Msg  == [cmd : {"cfg", "tree", "do", "other"}, lane : Lanes, val : Nat]
None == [cmd |-> "none", lane |-> 0, val |-> 0]
Keyed(m) == m.cmd \in {"cfg", "tree"}

Queue == [lanes : [Lanes -> Seq(Msg)],
          bytes : [Lanes -> Int],        \* bytes of each lane
          total : Int,                   \* out_total_bytes
          cfg   : Nat \cup {Own},        \* cfg_sent_hash, Own: None
          tree  : Nat \cup {Own}]        \* tree_sent_hash

SizeOf(m) == IF m.cmd = "cfg" THEN Size[Content[m.val]] ELSE 1

NewQueue == [lanes |-> [l \in Lanes |-> <<>>], bytes |-> [l \in Lanes |-> 0],
             total |-> 0, cfg |-> Own, tree |-> Own]

SumSize(s) ==
    LET upTo[n \in 0 .. Len(s)] == IF n = 0 THEN 0 ELSE upTo[n - 1] + SizeOf(s[n])
    IN  upTo[Len(s)]

OqTypeOK ==
    /\ cfg \in Versions /\ tree \in 0 .. MaxEvents
    /\ pending \in BOOLEAN /\ window \in BOOLEAN
    /\ q \in [lanes : [Lanes -> Seq(Msg)], bytes : [Lanes -> Nat], total : Nat,
              cfg : Nat \cup {Own}, tree : Nat \cup {Own}]
    /\ writing \in Msg \cup {None}
    /\ bw \in Nat
    /\ {linked, dead, pushed, push, lost} \subseteq BOOLEAN
    /\ socket \in Seq(Msg)
    /\ bot \in [cfg : Versions \cup {Own}, tree : 0 .. MaxEvents]
    /\ events \in 0 .. MaxEvents

OqInit ==
    /\ cfg = 0 /\ tree = 0
    /\ pending = FALSE /\ window = TRUE
    /\ q = NewQueue /\ writing = None /\ bw = 0
    /\ linked = TRUE /\ dead = FALSE /\ pushed = FALSE
    /\ socket = <<>>
    /\ bot = [cfg |-> Own, tree |-> 0]
    /\ push = TRUE
    /\ events = 0
    /\ lost = FALSE

Event == events < MaxEvents /\ events' = events + 1

-----------------------------------------------------------------------------
(* queue.rs                                                                *)

(* c with other frames queued, and with others standing as sent.           *)
Holding(c, lanes, bytes, total) ==
    [c EXCEPT !.lanes = lanes, !.bytes = bytes, !.total = total]
Standing(c, cfgSent, treeSent) ==
    [c EXCEPT !.cfg = cfgSent, !.tree = treeSent]

(* Mutant: a lost push still stands as sent.                               *)
cfg_push_lostForgets(c, cmds) == c

(* cfg_push_lost, for the commands of the frames lost.                     *)
cfg_push_lost(c, cmds) ==
    Standing(c, IF "cfg" \in cmds THEN Own ELSE c.cfg, IF "tree" \in cmds THEN Own ELSE c.tree)

Twin(c, m) == {i \in 1 .. Len(c.lanes[m.lane]) : Keyed(m) /\ c.lanes[m.lane][i].cmd = m.cmd}

Full(c, m) == Len(c.lanes[m.lane]) >= LaneCap \/ c.total + SizeOf(m) > ByteCap

(* enqueue returns false: the URGENT lane never drops.                     *)
Refused(c, m) == Twin(c, m) = {} /\ Full(c, m) /\ m.lane = Urgent

DropOldest(c, l) ==
    LET old == Head(c.lanes[l])
    IN  cfg_push_lost(Holding(c, [c.lanes EXCEPT ![l] = Tail(@)],
                                 [c.bytes EXCEPT ![l] = @ - SizeOf(old)],
                                 c.total - SizeOf(old)), {old.cmd})

Put(c, m) == Holding(c, [c.lanes EXCEPT ![m.lane] = Append(@, m)],
                        [c.bytes EXCEPT ![m.lane] = @ + SizeOf(m)],
                        c.total + SizeOf(m))

(* A queued frame of the same key is replaced where it stands; else a full *)
(* lane loses its oldest frame, one, to the new one.                       *)
enqueue(c, m) ==
    IF Twin(c, m) # {}
    THEN LET i   == CHOOSE i \in Twin(c, m) : TRUE
             more == SizeOf(m) - SizeOf(c.lanes[m.lane][i])
         IN  Holding(c, [c.lanes EXCEPT ![m.lane] = [@ EXCEPT ![i] = m]],
                        [c.bytes EXCEPT ![m.lane] = @ + more],
                        c.total + more)
    ELSE IF ~Full(c, m) THEN Put(c, m)
    ELSE IF m.lane = Urgent THEN c
    ELSE IF c.lanes[m.lane] # <<>> THEN Put(DropOldest(c, m.lane), m)
    ELSE Put(c, m)

LosesConfig(c, m) ==
    /\ Twin(c, m) = {} /\ Full(c, m) /\ m.lane # Urgent
    /\ c.lanes[m.lane] # <<>> /\ Head(c.lanes[m.lane]).cmd = "cfg"

has_pending_writes == writing # None \/ \E l \in Lanes : q.lanes[l] # <<>>

(* Everything queued, in the order a drain takes it.                       *)
Order  == q.lanes[Urgent] \o q.lanes[DeltaL] \o q.lanes[Bulk]
Fits(m) == SizeOf(m) <= WritingCap

(* The frames of s that can be sealed, in their order.                     *)
Sealable(s) ==
    LET upTo[n \in 0 .. Len(s)] ==
          IF n = 0 THEN <<>> ELSE IF Fits(s[n]) THEN Append(upTo[n - 1], s[n]) ELSE upTo[n - 1]
    IN  upTo[Len(s)]

(* The bytes the socket took before the k-th queued frame, in flight ones  *)
(* included, and whether the budgets of this second let it start.          *)
SentBefore(k) ==
    bw + (IF writing = None THEN 0 ELSE SizeOf(writing))
       + SumSize(Sealable(SubSeq(Order, 1, k - 1)))
MayStart(k) ==
    /\ k <= Len(Order)
    /\ Order[k].lane = Bulk => SentBefore(k) <= BulkBudget
    /\ Order[k].lane = DeltaL => SentBefore(k) <= DeltaBudget

(* drain_writable: n frames leave the lanes.  "all": the socket took them, *)
(* and the lanes are empty or out of budget; "blocked": it takes no more   *)
(* and the last one stays in flight; "error": the last one is gone with    *)
(* the socket.  A frame that cannot be sealed is dropped on the way.       *)
Taken(l, n) ==
    LET before == IF l = Urgent THEN 0
                  ELSE IF l = DeltaL THEN Len(q.lanes[Urgent])
                  ELSE Len(q.lanes[Urgent]) + Len(q.lanes[DeltaL])
    IN  IF n <= before THEN 0
        ELSE IF n - before >= Len(q.lanes[l]) THEN Len(q.lanes[l]) ELSE n - before
Drained(n) ==
    cfg_push_lost(
        Holding(q, [l \in Lanes |-> SubSeq(q.lanes[l], Taken(l, n) + 1, Len(q.lanes[l]))],
                   [l \in Lanes |-> q.bytes[l] - SumSize(SubSeq(q.lanes[l], 1, Taken(l, n)))],
                   q.total - SumSize(SubSeq(Order, 1, n))),
        {Order[k].cmd : k \in {k \in 1 .. n : ~Fits(Order[k])}})

drain_writable(n, how) ==
    LET out == (IF writing = None THEN <<>> ELSE <<writing>>)
                 \o Sealable(SubSeq(Order, 1, n))
    IN  /\ linked /\ has_pending_writes
        /\ n <= Len(Order)
        /\ \A k \in 1 .. n : MayStart(k)
        /\ dead => how = "error" /\ Len(out) = 1
        /\ how = "all" => ~MayStart(n + 1)
        /\ how = "blocked" => n > 0 /\ Fits(Order[n])
        /\ how = "error" => out # <<>> /\ (n > 0 => Fits(Order[n]))
        /\ q' = Drained(n)
        /\ socket' = socket \o IF how = "all" THEN out ELSE Front(out)
        /\ writing' = IF how = "blocked" THEN Last(out) ELSE None
        /\ dead' = (how = "error")
        /\ bw' = bw + SumSize(IF how = "all" THEN out ELSE Front(out))
        /\ lost' = (lost \/ \E k \in 1 .. n : ~Fits(Order[k]) /\ Order[k].cmd = "cfg")
        /\ UNCHANGED <<cfg, tree, pending, window, linked, pushed, bot, push>>

-----------------------------------------------------------------------------
(* Config pushes (client.rs)                                               *)

CfgMsg == [cmd |-> "cfg", lane |-> Bulk, val |-> cfg]

(* send_config_to_bot: skipped when this very config was already sent.     *)
send_config_to_bot(c, force) ==
    IF ~force /\ c.cfg = Content[cfg] THEN c
    ELSE LET d == enqueue(Standing(c, Own, c.tree), CfgMsg)
         IN  Standing(d, Content[cfg], d.tree)

Sends(c, force) == force \/ c.cfg # Content[cfg]

(* A change the bots must see, from a console or a peer.                   *)
ChangeConfig ==
    /\ cfg < MaxVersion
    /\ cfg' = cfg + 1
    /\ pending' = TRUE
    /\ UNCHANGED <<tree, window, q, writing, bw, linked, dead, pushed, socket, bot, push, events,
                   lost>>

flush_bot_config ==
    /\ pending /\ window
    /\ pending' = FALSE
    /\ window' = FALSE
    /\ q' = IF linked THEN send_config_to_bot(q, FALSE) ELSE q
    /\ lost' = (lost \/ (linked /\ Sends(q, FALSE) /\ LosesConfig(q, CfgMsg)))
    /\ UNCHANGED <<cfg, tree, writing, bw, linked, dead, pushed, socket, bot, push, events>>

(* CMD_CONFIG_PULL.                                                        *)
Pull ==
    /\ linked /\ ~dead
    /\ Event
    /\ q' = send_config_to_bot(q, TRUE)
    /\ lost' = (lost \/ LosesConfig(q, CfgMsg))
    /\ UNCHANGED <<cfg, tree, pending, window, writing, bw, linked, dead, pushed, socket, bot,
                   push>>

(* CMD_CONFIG_PUSH: the bot's tables may hold something it was not sent.   *)
(* An accepted line is a config change; the first push of a session that   *)
(* changes nothing is answered with the config.                            *)
process_bot_config_push(accepted) ==
    LET c == Standing(q, Own, q.tree)
    IN  /\ linked /\ push
        /\ push' = FALSE
        /\ pushed' = TRUE
        /\ accepted => cfg < MaxVersion
        /\ cfg' = IF accepted THEN cfg + 1 ELSE cfg
        /\ pending' = (pending \/ accepted)
        /\ q' = IF ~accepted /\ ~pushed THEN send_config_to_bot(c, TRUE) ELSE c
        /\ lost' = (lost \/ (~accepted /\ ~pushed /\ LosesConfig(c, CfgMsg)))
        /\ UNCHANGED <<tree, window, writing, bw, linked, dead, socket, bot, events>>

(* Mutant: the command jumps the queue.                                    *)
SendAfterConfigUrgent ==
    LET m == [cmd |-> "do", lane |-> Urgent, val |-> IF pushed THEN cfg ELSE 0]
        c == IF pending THEN send_config_to_bot(q, FALSE) ELSE q
    IN  /\ linked /\ ~dead
        /\ Event
        /\ pending' = FALSE /\ window' = (window /\ ~pending)
        /\ q' = enqueue(c, m)
        /\ UNCHANGED <<cfg, tree, writing, bw, linked, dead, pushed, socket, bot, push, lost>>

(* send_cmd_to_bot_after_config: a frame that acts on the config just      *)
(* stored.  The owed push goes now, and the frame behind it.  val 0: a bot *)
(* that has not pushed yet this session may be behind by any amount.       *)
send_cmd_to_bot_after_config ==
    LET c == IF pending THEN send_config_to_bot(q, FALSE) ELSE q
        idle == writing = None /\ \A l \in Lanes : c.lanes[l] = <<>>
        m == [cmd  |-> "do", lane |-> IF idle THEN Urgent ELSE Bulk,
              val  |-> IF pushed THEN cfg ELSE 0]
    IN  /\ linked /\ ~dead
        /\ Event
        /\ pending' = FALSE /\ window' = (window /\ ~pending)
        /\ q' = enqueue(c, m)
        /\ lost' = (lost \/ (pending /\ Sends(q, FALSE) /\ LosesConfig(q, CfgMsg))
                         \/ LosesConfig(c, m))
        /\ UNCHANGED <<cfg, tree, writing, bw, linked, dead, pushed, socket, bot, push>>

-----------------------------------------------------------------------------
(* Trees and the other frames                                              *)

TreeMsg(t) == [cmd |-> "tree", lane |-> Bulk, val |-> t]

(* push_tree_to_bots, after a roster change or (forced) as a refresh.      *)
push_tree_to_bots(t, force) ==
    LET same == ~force /\ q.tree = t
    IN  /\ t \in {tree, tree + 1} /\ t <= MaxEvents
        /\ force => t = tree
        /\ IF force \/ t # tree THEN Event ELSE events' = events
        /\ tree' = t
        /\ q' = IF linked /\ ~same THEN enqueue(Standing(q, q.cfg, t), TreeMsg(t)) ELSE q
        /\ lost' = (lost \/ (linked /\ ~same /\ LosesConfig(q, TreeMsg(t))))
        /\ UNCHANGED <<cfg, pending, window, writing, bw, linked, dead, pushed, socket, bot,
                       push>>

(* disconnect_client: the queue goes with the connection.                  *)
Gone ==
    /\ linked' = FALSE /\ dead' = FALSE
    /\ q' = NewQueue /\ writing' = None /\ socket' = <<>> /\ push' = FALSE

(* A ping, a reply, a relay: a full URGENT lane costs the bot its link.    *)
(* The drain client_send tries at once is Drain: it may find the socket    *)
(* blocked behind the frame in flight, so it is no part of this step.      *)
SendOther(l) ==
    LET m == [cmd |-> "other", lane |-> l, val |-> 0]
    IN  /\ linked /\ ~dead
        /\ Event
        /\ IF Refused(q, m)
           THEN Gone /\ lost' = lost
           ELSE /\ q' = enqueue(q, m)
                /\ lost' = (lost \/ LosesConfig(q, m))
                /\ UNCHANGED <<linked, dead, writing, socket, push>>
        /\ UNCHANGED <<cfg, tree, pending, window, bw, pushed, bot>>

-----------------------------------------------------------------------------
(* The socket, the bot and the clock                                       *)

(* The bot takes a frame; a config replaces its own tables.                *)
BotReceives ==
    /\ socket # <<>>
    /\ socket' = Tail(socket)
    /\ bot' = [cfg  |-> IF Head(socket).cmd = "cfg" THEN Head(socket).val ELSE bot.cfg,
               tree |-> IF Head(socket).cmd = "tree" THEN Head(socket).val ELSE bot.tree]
    /\ UNCHANGED <<cfg, tree, pending, window, q, writing, bw, linked, dead, pushed, push,
                   events, lost>>

(* The bot changes its tables and pushes them.                             *)
BotPushes ==
    /\ linked /\ ~push
    /\ Event
    /\ push' = TRUE
    /\ bot' = [cfg |-> Own, tree |-> bot.tree]
    /\ UNCHANGED <<cfg, tree, pending, window, q, writing, bw, linked, dead, pushed, socket,
                   lost>>

(* EOF, a timeout or a stalled write.                                      *)
disconnect_client ==
    /\ linked
    /\ IF dead THEN events' = events ELSE Event
    /\ Gone
    /\ UNCHANGED <<cfg, tree, pending, window, bw, pushed, bot, lost>>

(* Mutant: the new connection counts as one that has pushed before.        *)
ReconnectPushed ==
    /\ ~linked
    /\ linked' = TRUE /\ push' = TRUE /\ bw' = 0
    /\ lost' = FALSE
    /\ UNCHANGED <<cfg, tree, pending, window, q, writing, dead, pushed, socket, bot, events>>

(* The bot is back with a fresh connection and its first push.             *)
Reconnect ==
    /\ ~linked
    /\ linked' = TRUE /\ push' = TRUE /\ pushed' = FALSE /\ bw' = 0
    /\ lost' = FALSE
    /\ UNCHANGED <<cfg, tree, pending, window, q, writing, dead, socket, bot, events>>

(* The next second.                                                        *)
Second ==
    /\ bw > 0 \/ ~window
    /\ bw' = 0 /\ window' = TRUE
    /\ UNCHANGED <<cfg, tree, pending, q, writing, linked, dead, pushed, socket, bot, push,
                   events, lost>>

Drain ==
    /\ \E n \in 0 .. Len(Order), how \in {"all", "blocked"} : drain_writable(n, how)
    /\ UNCHANGED events
DrainFails ==
    /\ IF dead THEN events' = events ELSE Event
    /\ \E n \in 0 .. Len(Order) : drain_writable(n, "error")

OqNext ==
    \/ ChangeConfig \/ flush_bot_config \/ Pull
    \/ \E accepted \in BOOLEAN : process_bot_config_push(accepted)
    \/ send_cmd_to_bot_after_config
    \/ \E t \in 0 .. MaxEvents, force \in BOOLEAN : push_tree_to_bots(t, force)
    \/ \E l \in {Urgent, DeltaL} : SendOther(l)
    \/ Drain \/ DrainFails
    \/ BotReceives \/ BotPushes \/ disconnect_client \/ Reconnect \/ Second

(* The maintenance tick and the poll loop run for ever; a bot that does    *)
(* not read is cut off, and a healthy one comes back and pushes.           *)
OqFairness ==
    /\ WF_oqVars(flush_bot_config) /\ WF_oqVars(Second) /\ WF_oqVars(BotReceives)
    /\ WF_oqVars((\E n \in 0 .. Len(Order) : drain_writable(n, "all")) /\ UNCHANGED events)
    /\ WF_oqVars(dead /\ disconnect_client)
    /\ WF_oqVars(Reconnect)
    /\ WF_oqVars(\E accepted \in BOOLEAN : process_bot_config_push(accepted))

OqSpec == OqInit /\ [][OqNext]_oqVars /\ OqFairness

-----------------------------------------------------------------------------
(* Properties                                                              *)

InPipe == socket \o (IF writing = None THEN <<>> ELSE <<writing>>) \o Order
LastOf(s, cmd) == LET at == {i \in 1 .. Len(s) : s[i].cmd = cmd}
                  IN  IF at = {} THEN Own ELSE s[Max(at)].val
Newest(cmd) == LastOf(InPipe, cmd)

(* The byte counts are those of the frames queued: a count that drifted    *)
(* would wrap (they are unsigned) or throttle the lane for ever.           *)
BytesExact ==
    /\ \A l \in Lanes : q.bytes[l] = SumSize(q.lanes[l])
    /\ q.total = SumSize(Order)

(* A config or a tree stands as sent only if it is the newest one on its   *)
(* way, or what the bot already runs: a broadcast is never skipped for a   *)
(* bot left behind.                                                        *)
SentIsTrue ==
    dead \/ ~linked \/
    /\ q.cfg # Own => LET v == Newest("cfg")
                      IN  \/ push
                          \/ v # Own /\ Content[v] = q.cfg
                          \/ v = Own /\ bot.cfg # Own /\ Content[bot.cfg] = q.cfg
    /\ q.tree # Own => LET t == Newest("tree") IN IF t = Own THEN bot.tree = q.tree
                                                             ELSE t = q.tree

(* A command that needs a config finds it, or a later one, at the bot      *)
(* (unless a config of this session was dropped, or the bot changed its    *)
(* tables itself or has yet to push its first config).                     *)
ConfigFirst ==
    [][(socket # <<>> /\ socket' = Tail(socket) /\ Head(socket).cmd = "do" /\ ~lost)
         => bot.cfg = Own \/ \E w \in Versions : w >= Head(socket).val
                                   /\ Content[w] = Content[bot.cfg]]_oqVars

(* The bot ends up with the config of the hub, or with tables of its own   *)
(* the hub refused - unless a full lane dropped that config: nothing sends *)
(* it again before the next change, pull or session.                       *)
Delivered == <>[](lost \/ bot.cfg = Own \/ Content[bot.cfg] = Content[cfg])

(* The books of a connection are true: its byte counts, and what it counts *)
(* as sent (enqueue, cfg_push_lost).                                       *)
QueueTrue == OqTypeOK /\ BytesExact /\ SentIsTrue
=============================================================================
