-------------------------------- MODULE Elect --------------------------------
(***************************************************************************)
(* A channel request: one bot of the mesh is to act.  The origin hub asks  *)
(* its own bots and hands the action to one that said yes; when none can,  *)
(* it floods the question, every hub asks its bots and reports back along  *)
(* the path, and the origin hands it to one hub with a ready bot.          *)
(*                                                                         *)
(* One election; hubs exchange URGENT frames over links that may go away,  *)
(* bots may drop and come back.  A wait of consts.rs may run out at any    *)
(* moment it is running.                                                   *)
(***************************************************************************)
EXTENDS Integers, Sequences, FiniteSets

CONSTANTS
    Hubs, Links,    \* hubs, pairs of linked hubs at the start
    Origins,        \* hubs whose console may ask
    Helpers, At,    \* the bots that may be asked; At[b]: the hub bot b is connected to
    Crowded,        \* hubs whose table may be full
    Fragile,        \* Fragile[o]: links and bots that may go when hub o is asked
    MaxDrops        \* bound: how many do

None == "none"

ASSUME ElectAssumption ==
    /\ Origins \subseteq Hubs
    /\ \A l \in Links : \E g, h \in Hubs : g # h /\ l = {g, h}
    /\ Fragile \in [Origins -> SUBSET (Links \cup Helpers)] /\ Crowded \subseteq Hubs
    /\ At \in [Helpers -> Hubs] /\ MaxDrops \in Nat
    /\ IsFiniteSet(Helpers) /\ Helpers \cap Hubs = {} /\ None \notin Helpers \cup Hubs

VARIABLES
    origin,  \* the hub that is asked
    slot,    \* slot[h]: the ChanElect entry of h
    seen,    \* hubs whose forward_seen ring holds the id
    links, up,     \* links there are; bots connected
    wire,    \* wire[g][h]: frames from hub g to hub h
    tobot, frombot, \* frames between a bot and its hub
    acted,   \* history: bots that did it
    late,    \* history: bots and hubs whose wait, with the action in hand, ran out
    answers, \* history: what the console was told
    drops

elVars == <<origin, slot, seen, links, up, wire, tobot, frombot, acted, late, answers, drops>>
net  == <<wire, tobot, frombot>>

Phase == {"Probe", "LocalDo", "MeshWait", "MeshDo", "Acked"}
NoSlot == [active |-> FALSE, phase |-> "Probe", from |-> None, bots |-> <<>>, hubs |-> <<>>, doing |-> None]
Peers(h) == {g \in Hubs : {g, h} \in links /\ g # h}
Mine(h) == {b \in Helpers : At[b] = h}

(* Answers of bots (asked, yes, no, tried) and of hubs.                    *)
BotSt == {"a", "y", "n", "t"}
HubSt == [via : Hubs, ready : Nat, tried : BOOLEAN]

ElTypeOK ==
    /\ origin \in Origins
    /\ \A h \in Hubs :
         /\ slot[h].active \in BOOLEAN /\ slot[h].phase \in Phase
         /\ slot[h].from \in Hubs \cup {None}
         /\ DOMAIN slot[h].bots \subseteq Mine(h)
         /\ \A b \in DOMAIN slot[h].bots : slot[h].bots[b] \in BotSt
         /\ \A g \in DOMAIN slot[h].hubs : slot[h].hubs[g] \in HubSt
         /\ slot[h].doing \in Helpers \cup Hubs \cup {None}
    /\ seen \subseteq Hubs /\ links \subseteq Links /\ up \subseteq Helpers
    /\ acted \subseteq Helpers /\ late \subseteq Helpers \cup Hubs /\ drops \in 0 .. MaxDrops

ElInit ==
    /\ origin \in Origins
    /\ slot = [h \in Hubs |-> NoSlot]
    /\ seen = {} /\ links = Links /\ up = Helpers
    /\ wire = [g \in Hubs |-> [h \in Hubs |-> <<>>]]
    /\ tobot = [b \in Helpers |-> <<>>] /\ frombot = [b \in Helpers |-> <<>>]
    /\ acted = {} /\ late = {} /\ answers = <<>> /\ drops = 0

-----------------------------------------------------------------------------
(* Frames.  An action may consume one frame from hub g and send some: the  *)
(* wires after it are given as a whole.                                    *)

(* send_peer from h: lost when the link is gone.                           *)
SendTo(w, h, g, m) == IF g \in Peers(h) THEN [w EXCEPT ![h][g] = Append(@, m)] ELSE w
Flood(w, h, except, m) ==
    [w EXCEPT ![h] = [g \in Hubs |-> IF g \in Peers(h) \ {except} THEN Append(w[h][g], m) ELSE w[h][g]]]

(* probe_local: every connected bot is asked.                              *)
Asked(h) == Mine(h) \cap up
ProbeSlot(h, s) ==
    [s EXCEPT !.active = TRUE, !.phase = "Probe", !.bots = [b \in Asked(h) |-> "a"]]
Probes(h) == [b \in Helpers |-> IF b \in Asked(h) THEN Append(tobot[b], "probe") ELSE tobot[b]]

Count(s, st) == Cardinality({b \in DOMAIN s.bots : s.bots[b] = st})

(* Mutant: with nobody to name, the slot is freed and the console not told. *)
finishSilent(h, status, by) ==
    /\ answers' = IF by = None THEN answers ELSE Append(answers, [status |-> status, by |-> by])
    /\ slot' = [slot EXCEPT ![h].active = FALSE]

(* finish: the console is answered and the slot is free.                   *)
finish(h, status, by) ==
    /\ answers' = Append(answers, [status |-> status, by |-> by])
    /\ slot' = [slot EXCEPT ![h].active = FALSE]

(* The slot once bot b is handed the action; the ready bots that were      *)
(* drawn before it and could not be reached are tried as well.             *)
Handed(s, b, gone) ==
    [s EXCEPT !.doing = b, !.phase = "LocalDo",
              !.bots = [c \in DOMAIN @ |-> IF c = b \/ c \in gone THEN "t" ELSE @[c]]]

Ready(s) == {b \in DOMAIN s.bots : s.bots[b] = "y"}

(* The hubs drawn are tried, whether or not their link still stood.        *)
Tried(hubs, S) == [k \in DOMAIN hubs |-> [hubs[k] EXCEPT !.tried = @ \/ k \in S]]

(* try_hub at the origin with slot s: one ready hub over a link that still *)
(* stands, or nobody.                                                      *)
try_hub(s, w) ==
    LET cand == {g \in DOMAIN s.hubs : ~s.hubs[g].tried /\ s.hubs[g].ready > 0}
        reach == {g \in cand : s.hubs[g].via \in Peers(origin)}
    IN  \/ \E g \in reach : \E gone \in SUBSET (cand \ reach) :
             /\ slot' = [slot EXCEPT ![origin] =
                          [s EXCEPT !.doing = g, !.phase = "MeshDo", !.hubs = Tried(@, gone \cup {g})]]
             /\ wire' = SendTo(w, origin, s.hubs[g].via, [cmd |-> "do", hub |-> g])
             /\ UNCHANGED answers
        \/ reach = {} /\ finish(origin, "nobody", None) /\ wire' = w

(* local_exhausted: the origin asks the mesh, or the hubs that answered; a *)
(* relay reports that it could not.                                        *)
local_exhausted(h, s, w) ==
    IF h # origin
    THEN /\ slot' = [slot EXCEPT ![h] = [s EXCEPT !.phase = "Acked"]]
         /\ wire' = SendTo(w, h, s.from, [cmd |-> "done", hub |-> h, bot |-> None, status |-> "fail"])
         /\ UNCHANGED answers
    ELSE IF s.phase = "MeshDo" \/ DOMAIN s.hubs # {} \/ Peers(h) = {}
    THEN try_hub(s, w)
    ELSE /\ slot' = [slot EXCEPT ![h] = [s EXCEPT !.phase = "MeshWait"]]
         /\ wire' = Flood(w, h, None, [cmd |-> "fwd"])
         /\ UNCHANGED answers

(* try_local, and local_exhausted when no ready bot is left.               *)
try_local(h, s, w) ==
    \/ \E b \in Ready(s) \cap up : \E gone \in SUBSET (Ready(s) \ up) :
         /\ slot' = [slot EXCEPT ![h] = Handed(s, b, gone)]
         /\ tobot' = [tobot EXCEPT ![b] = Append(@, "do")]
         /\ wire' = w /\ UNCHANGED answers
    \/ /\ Ready(s) \cap up = {}
       /\ local_exhausted(h, [s EXCEPT !.bots = [c \in DOMAIN @ |-> IF @[c] = "y" THEN "t" ELSE @[c]]], w)
       /\ UNCHANGED tobot

-----------------------------------------------------------------------------
(* The origin's console asks.                                              *)
start ==
    /\ origin \notin seen
    /\ seen' = seen \cup {origin}
    /\ slot' = [slot EXCEPT ![origin] = ProbeSlot(origin, NoSlot)]
    /\ tobot' = Probes(origin)
    /\ UNCHANGED <<links, up, wire, frombot, acted, late, answers, drops>>

(* A frame of bot b at its hub.                                            *)
FromBot(b, h, m) ==
    /\ At[b] = h /\ frombot[b] # <<>> /\ Head(frombot[b]) = m
    /\ frombot' = [frombot EXCEPT ![b] = Tail(@)]
    /\ UNCHANGED <<seen, links, up, acted, late, drops>>

process_probe_ack(b, ok) ==
    LET h == At[b]
    IN  /\ FromBot(b, h, IF ok THEN "yes" ELSE "no")
        /\ slot' = IF slot[h].active /\ slot[h].phase = "Probe" /\ b \in DOMAIN slot[h].bots /\ slot[h].bots[b] = "a"
                   THEN [slot EXCEPT ![h].bots[b] = IF ok THEN "y" ELSE "n"] ELSE slot
        /\ UNCHANGED <<wire, tobot, answers>>

(* Mutant: any bot of the election may report, at work or not.             *)
ReportsAny(s, b) == s.active /\ b \in DOMAIN s.bots

(* The report is of the bot that has the action in hand.                   *)
Reports(s, b) == s.active /\ s.phase = "LocalDo" /\ s.doing = b

(* process_done: ok and the refusal for +bitch end it; a failure goes on   *)
(* to the next bot.                                                        *)
process_done(b, status) ==
    LET h == At[b]
        s == slot[h]
    IN  /\ FromBot(b, h, status)
        /\ IF ~Reports(s, b)
           THEN UNCHANGED <<slot, wire, tobot, answers>>
           ELSE IF status = "fail"
           THEN try_local(h, [s EXCEPT !.doing = None], wire)
           ELSE /\ UNCHANGED tobot
                /\ IF h = origin
                   THEN finish(h, status, b) /\ UNCHANGED wire
                   ELSE /\ slot' = [slot EXCEPT ![h].phase = "Acked"]
                        /\ wire' = SendTo(wire, h, s.from, [cmd |-> "done", hub |-> h, bot |-> b, status |-> status])
                        /\ UNCHANGED answers

(* A frame from hub g at hub h.                                            *)
FromHub(g, h, cmd) ==
    /\ wire[g][h] # <<>> /\ Head(wire[g][h]).cmd = cmd
    /\ UNCHANGED <<links, up, frombot, acted, late, drops>>
Rest(g, h) == [wire EXCEPT ![g][h] = Tail(@)]

(* process_elect_fwd: answered once, and only with room in the table.      *)
process_elect_fwd(g, h, room) ==
    /\ FromHub(g, h, "fwd") /\ (~room => h \in Crowded)
    /\ seen' = seen \cup {h}
    /\ IF h \in seen \/ ~room
       THEN wire' = Rest(g, h) /\ UNCHANGED <<slot, tobot>>
       ELSE /\ slot' = [slot EXCEPT ![h] = ProbeSlot(h, [NoSlot EXCEPT !.from = g])]
            /\ wire' = Flood(Rest(g, h), h, g, [cmd |-> "fwd"])
            /\ tobot' = Probes(h)
    /\ UNCHANGED answers

(* process_elect_ack: noted with the peer it came from, passed on by a     *)
(* relay; a second copy is dropped.                                        *)
process_elect_ack(g, h) ==
    LET m == Head(wire[g][h])
        s == slot[h]
    IN  /\ FromHub(g, h, "ack")
        /\ IF s.active /\ m.hub \notin DOMAIN s.hubs
           THEN /\ slot' = [slot EXCEPT ![h].hubs = [k \in DOMAIN @ \cup {m.hub} |->
                     IF k = m.hub THEN [via |-> g, ready |-> m.ready, tried |-> FALSE] ELSE @[k]]]
                /\ wire' = IF h = origin THEN Rest(g, h) ELSE SendTo(Rest(g, h), h, s.from, m)
           ELSE wire' = Rest(g, h) /\ UNCHANGED slot
        /\ UNCHANGED <<seen, tobot, answers>>

(* process_elect_do: ours, or on to the hub it names.                      *)
process_elect_do(g, h) ==
    LET m == Head(wire[g][h])
        s == slot[h]
    IN  /\ FromHub(g, h, "do")
        /\ IF ~s.active \/ h = origin \/ s.from # g
           THEN wire' = Rest(g, h) /\ UNCHANGED <<slot, tobot, answers>>
           ELSE IF m.hub = h THEN try_local(h, s, Rest(g, h))
           ELSE /\ wire' = IF m.hub \in DOMAIN s.hubs
                           THEN SendTo(Rest(g, h), h, s.hubs[m.hub].via, m) ELSE Rest(g, h)
                /\ UNCHANGED <<slot, tobot, answers>>
        /\ UNCHANGED seen

(* The report is of the hub the origin handed it to.                       *)
AtWork(s, m) == s.active /\ s.phase = "MeshDo" /\ s.doing = m.hub

process_elect_done(g, h) ==
    LET m == Head(wire[g][h])
        s == slot[h]
    IN  /\ FromHub(g, h, "done")
        /\ IF h # origin
           THEN /\ wire' = IF s.active THEN SendTo(Rest(g, h), h, s.from, m) ELSE Rest(g, h)
                /\ UNCHANGED <<slot, answers>>
           ELSE IF ~AtWork(s, m)
           THEN wire' = Rest(g, h) /\ UNCHANGED <<slot, answers>>
           ELSE IF m.status = "fail" THEN try_hub(s, Rest(g, h))
           ELSE finish(h, m.status, m.bot) /\ wire' = Rest(g, h)
        /\ UNCHANGED <<seen, tobot>>

(* tick: a bot that is still silent counts as a no.                        *)
NoAnswer(s) == [s EXCEPT !.bots = [b \in DOMAIN @ |-> IF @[b] = "a" THEN "n" ELSE @[b]]]

(* tick: one step of h's election.                                         *)
tick(h) ==
    LET s == slot[h]
    IN  /\ s.active
        /\ \/ /\ s.phase = "Probe"              \* all answered, or the wait is over
              /\ IF h # origin
                 THEN /\ slot' = [slot EXCEPT ![h] = [NoAnswer(s) EXCEPT !.phase = "Acked"]]
                      /\ wire' = SendTo(wire, h, s.from, [cmd |-> "ack", hub |-> h, ready |-> Count(s, "y")])
                      /\ UNCHANGED <<tobot, answers>>
                 ELSE try_local(h, NoAnswer(s), wire)
              /\ UNCHANGED late
           \/ /\ s.phase = "LocalDo"
              /\ try_local(h, [s EXCEPT !.doing = None], wire)
              /\ late' = late \cup {s.doing}
           \/ /\ s.phase = "MeshWait"
              /\ try_hub(s, wire) /\ UNCHANGED <<tobot, late>>
           \/ /\ s.phase = "MeshDo"
              /\ try_hub(s, wire) /\ UNCHANGED tobot
              /\ late' = late \cup {s.doing}
        /\ UNCHANGED <<seen, links, up, frombot, acted, drops>>

(* tick: CHAN_ELECT_TTL, many times CHAN_ELECT_PROBE_WAIT.                 *)
Expire(h) ==
    /\ slot[h].active /\ slot[h].phase # "Probe"
    /\ IF h = origin THEN finish(h, "timeout", None)
       ELSE slot' = [slot EXCEPT ![h].active = FALSE] /\ UNCHANGED answers
    /\ UNCHANGED <<seen, links, up, net, acted, late, drops>>

-----------------------------------------------------------------------------
(* Helpers: answer a probe, act on CHAN_DO and report.                        *)
BotAnswers(b) ==
    /\ b \in up /\ tobot[b] # <<>> /\ Head(tobot[b]) = "probe"
    /\ tobot' = [tobot EXCEPT ![b] = Tail(@)]
    /\ \E m \in {"yes", "no"} : frombot' = [frombot EXCEPT ![b] = Append(@, m)]
    /\ UNCHANGED <<slot, seen, links, up, wire, acted, late, answers, drops>>

BotActs(b, status) ==
    /\ b \in up /\ tobot[b] # <<>> /\ Head(tobot[b]) = "do"
    /\ tobot' = [tobot EXCEPT ![b] = Tail(@)]
    /\ frombot' = [frombot EXCEPT ![b] = Append(@, status)]
    /\ acted' = IF status = "ok" THEN acted \cup {b} ELSE acted
    /\ UNCHANGED <<slot, seen, links, up, wire, late, answers, drops>>

(* A bot loses its connection, with what is on the way, or is back.        *)
BotDrops(b) ==
    /\ b \in up \cap Fragile[origin] /\ drops < MaxDrops
    /\ drops' = drops + 1 /\ up' = up \ {b}
    /\ tobot' = [tobot EXCEPT ![b] = <<>>] /\ frombot' = [frombot EXCEPT ![b] = <<>>]
    /\ UNCHANGED <<slot, seen, links, wire, acted, late, answers>>

BotBack(b) == b \notin up /\ up' = up \cup {b}
              /\ UNCHANGED <<slot, seen, links, net, acted, late, answers, drops>>

LinkDrops(g, h) ==
    /\ {g, h} \in links \cap Fragile[origin] /\ g # h /\ drops < MaxDrops
    /\ drops' = drops + 1 /\ links' = links \ {{g, h}}
    /\ wire' = [wire EXCEPT ![g][h] = <<>>, ![h][g] = <<>>]
    /\ UNCHANGED <<slot, seen, up, tobot, frombot, acted, late, answers>>

HubStep(g, h) ==
    \/ \E room \in BOOLEAN : process_elect_fwd(g, h, room)
    \/ process_elect_ack(g, h) \/ process_elect_do(g, h) \/ process_elect_done(g, h)

BotStep(b) ==
    \/ BotAnswers(b)
    \/ \E status \in {"ok", "fail", "bitch"} : BotActs(b, status) \/ process_done(b, status)
    \/ \E ok \in BOOLEAN : process_probe_ack(b, ok)

ElStep ==
    \/ start
    \/ \E h \in Hubs : tick(h) \/ Expire(h)
    \/ \E g, h \in Hubs : HubStep(g, h) \/ LinkDrops(g, h)
    \/ \E b \in Helpers : BotStep(b) \/ BotDrops(b) \/ BotBack(b)

ElNext == ElStep /\ UNCHANGED origin

(* The maintenance loop runs and its clock moves on: a running wait ends.  *)
(* The TTL is relied on at the relays only: the origin's own waits must be *)
(* enough to answer.                                                       *)
ElFairness == \A h \in Hubs : /\ WF_elVars(tick(h) /\ UNCHANGED origin)
                            /\ WF_elVars(h # origin /\ Expire(h) /\ UNCHANGED origin)

ElSpec == ElInit /\ [][ElNext]_elVars /\ ElFairness

-----------------------------------------------------------------------------
(* Properties                                                              *)

(* The console hears one answer, whatever comes in late.                   *)
AnswersOnce == Len(answers) <= 1

(* Helpers that did it while their hub, and the origin, still waited for it.  *)
ActedInTime == {b \in acted : b \notin late /\ At[b] \notin late}

(* At most one bot acts within the waits, whatever the paths of the mesh,  *)
(* the links and bots that go, and the reports that come in too late.      *)
OneBotActs == Cardinality(ActedInTime) <= 1

(* An "ok" names a bot that did it; and "nobody" or a refusal means that   *)
(* no bot did, or will yet, other than one that was given up on.           *)
AnswerTrue == \A i \in 1 .. Len(answers) :
    /\ answers[i].status = "ok" => answers[i].by \in acted
    /\ answers[i].status \in {"nobody", "bitch"} => ActedInTime = {}

(* A console waiting for the answer always gets one, without the TTL; and  *)
(* every hub's slot is free again.                                         *)
Concludes == <>[](/\ origin \in seen => answers # <<>>
                  /\ \A h \in Hubs : ~slot[h].active)

(* One election: one bot acts, and the console hears one answer, a true    *)
(* one (try_hub, finish).                                                  *)
Elected == ElTypeOK /\ OneBotActs /\ AnswersOnce /\ AnswerTrue
=============================================================================
