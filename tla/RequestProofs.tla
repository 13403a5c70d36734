---------------------------- MODULE RequestProofs ---------------------------
(***************************************************************************)
(* Requests, for any mesh, any bots, any loss of links and bots and any    *)
(* order of frames.                                                        *)
(*                                                                         *)
(* One election: at most one bot acts within the waits, the console hears  *)
(* one answer, and the answer is true.                                     *)
(*                                                                         *)
(* The origin's slot names who has the action in hand, a bot of its own or *)
(* a hub; that hub's slot names the bot.  Whoever can still act within the *)
(* waits (Danger, Hot) is the one that is named, because the action is     *)
(* handed on only after the one before reported a failure, which he does   *)
(* when he can no longer act, or was given up on (late).  No hub is handed *)
(* it twice (Given), and the frame that hands it over is on the wires once *)
(* (Single): the mesh has no second copy that could arrive later.          *)
(*                                                                         *)
(* Routed requests: a hub acts on one once, a failure that is told is      *)
(* final, and a key is delivered once.  Whatever is under way is about a   *)
(* request that is in the ring of the hub it was made at (Out); only the   *)
(* hub of the bot asked for decides an op, when the id enters its ring.    *)
(***************************************************************************)
EXTENDS Elect, OpFlow, FiniteSetTheorems, TLAPS

-----------------------------------------------------------------------------
(* Shapes.                                                                 *)

Partial(S, T) == UNION {[D -> T] : D \in SUBSET S}
Slots == [active : BOOLEAN, phase : Phase, from : Hubs \cup {None}, bots : Partial(Helpers, BotSt),
          hubs : Partial(Hubs, HubSt), doing : Helpers \cup Hubs \cup {None}]

Statuses == {"ok", "fail", "bitch"}
Frames == [cmd : {"fwd"}] \cup [cmd : {"ack"}, hub : Hubs, ready : Nat] \cup [cmd : {"do"}, hub : Hubs]
          \cup [cmd : {"done"}, hub : Hubs, bot : Helpers \cup {None}, status : Statuses]
Wires == [Hubs -> [Hubs -> Seq(Frames)]]
ToBot == {"probe", "do"}
FromABot == {"yes", "no"} \cup Statuses
AnAnswer == [status : Statuses \cup {"nobody", "timeout"}, by : Helpers \cup {None}]

ShapesOK ==
    /\ origin \in Origins /\ slot \in [Hubs -> Slots] /\ wire \in Wires
    /\ tobot \in [Helpers -> Seq(ToBot)] /\ frombot \in [Helpers -> Seq(FromABot)]
    /\ answers \in Seq(AnAnswer)
    /\ seen \subseteq Hubs /\ links \subseteq Links /\ up \subseteq Helpers
    /\ acted \subseteq Helpers /\ late \subseteq Helpers \cup Hubs /\ drops \in 0 .. MaxDrops

(* Frame m is on the wires; it is there once.                              *)
In(w, m) == \E a, c \in Hubs : \E i \in DOMAIN w[a][c] : w[a][c][i] = m
Single(w, m) ==
    \A a, c, a2, c2 \in Hubs : \A i \in DOMAIN w[a][c], j \in DOMAIN w[a2][c2] :
        w[a][c][i] = m /\ w[a2][c2][j] = m => a = a2 /\ c = c2 /\ i = j

Do(g) == [cmd |-> "do", hub |-> g]
Has(q, x) == \E i \in DOMAIN q : q[i] = x

-----------------------------------------------------------------------------
(* The invariant.                                                          *)

(* A bot is handed the action once, after which it is marked as tried; it  *)
(* reports what it did.                                                    *)
DoIn(b) == Has(tobot[b], "do")
StatusIn(b) == \E st \in Statuses : Has(frombot[b], st)
HadIt(b) == DoIn(b) \/ b \in acted \/ StatusIn(b)
DoLast(q) == \A i \in 1 .. Len(q) - 1 : q[i] # "do"
QueuesOK(b) ==
    /\ DoLast(tobot[b])
    /\ DoIn(b) => b \notin acted /\ ~StatusIn(b)
    /\ Has(frombot[b], "ok") => b \in acted
    /\ Has(frombot[b], "fail") \/ Has(frombot[b], "bitch") => b \notin acted

(* A bot that did it or still can, and was not given up on, is the one its *)
(* hub's slot names; at the origin the slot is then local.                 *)
Danger(b) == b \notin late /\ (DoIn(b) \/ b \in acted)
BotOnce(b) ==
    /\ QueuesOK(b)
    /\ HadIt(b) => b \in DOMAIN slot[At[b]].bots /\ slot[At[b]].bots[b] = "t"
    /\ Danger(b) => slot[At[b]].doing = b
    /\ Danger(b) /\ At[b] = origin /\ slot[origin].active => slot[origin].phase = "LocalDo"

SlotOnce(h) ==
    /\ h \notin seen => slot[h] = NoSlot
    /\ DOMAIN slot[h].bots \subseteq Mine(h)
    /\ slot[h].phase = "Probe" => slot[h].doing = None
    /\ slot[h].active /\ slot[h].phase \in {"LocalDo", "MeshDo"} => slot[h].doing # None
    /\ slot[h].active /\ slot[h].phase \in {"MeshWait", "MeshDo"} => h = origin

(* A hub other than the origin from where the action can still be done.    *)
Hot(g) ==
    \/ In(wire, Do(g))
    \/ slot[g].active /\ slot[g].phase = "LocalDo"
    \/ \E b \in Mine(g) : Danger(b)
Given(g) == g \in DOMAIN slot[origin].hubs /\ slot[origin].hubs[g].tried
MeshWork == slot[origin].active => slot[origin].phase = "MeshDo"

(* It was handed the action once, and is named by the origin's slot.       *)
HubOnce(g) ==
    /\ Single(wire, Do(g))
    /\ In(wire, Do(g)) => slot[g].doing = None /\ Given(g)
    /\ slot[g].doing # None => Given(g)
    /\ g \notin late /\ Hot(g) => slot[origin].doing = g /\ MeshWork

(* A hub that reports a failure has nobody left that could act.            *)
Reported(m) ==
    /\ m.status = "ok" => m.bot \in acted
    /\ m.status # "ok" /\ m.hub # origin => ~Hot(m.hub) /\ Given(m.hub)

NobodyActs ==
    /\ \A g \in Hubs \ {origin} : g \notin late => ~Hot(g)
    /\ \A b \in Mine(origin) : ~Danger(b)
AnswerHolds(a) == (a.status = "ok" => a.by \in acted) /\ (a.status \in {"nobody", "bitch"} => NobodyActs)
Answered ==
    answers # <<>> => Len(answers) = 1 /\ ~slot[origin].active /\ origin \in seen /\ AnswerHolds(answers[1])

Quiet == origin \notin seen => seen = {} /\ (\A m \in Frames : ~In(wire, m))
Once ==
    /\ Quiet /\ Answered
    /\ \A h \in Hubs : SlotOnce(h)
    /\ \A b \in Helpers : BotOnce(b)
    /\ \A g \in Hubs \ {origin} : HubOnce(g)
    /\ \A m \in Frames : m.cmd = "done" /\ In(wire, m) => Reported(m)

ElInv == ShapesOK /\ Once

-----------------------------------------------------------------------------
(* Sequences and wires.                                                    *)

(* What is in a queue after one element is taken or added.                 *)
LEMMA QueueTail ==
    ASSUME NEW S, NEW q \in Seq(S), q # <<>>
    PROVE  /\ Tail(q) \in Seq(S) /\ Head(q) \in S /\ Has(q, Head(q))
           /\ \A x : Has(Tail(q), x) => Has(q, x)
  BY DEF Has

(* What is in a queue after an element is added.                           *)
LEMMA QueueAppend ==
    ASSUME NEW S, NEW q \in Seq(S), NEW y \in S
    PROVE  /\ Append(q, y) \in Seq(S)
           /\ \A x : Has(Append(q, y), x) <=> Has(q, x) \/ x = y
<1>1. Append(q, y) \in Seq(S) /\ Len(Append(q, y)) = Len(q) + 1 /\ Append(q, y)[Len(q) + 1] = y
      /\ \A i \in 1 .. Len(q) : Append(q, y)[i] = q[i]
  OBVIOUS
<1>2. DOMAIN q = 1 .. Len(q) /\ DOMAIN Append(q, y) = 1 .. Len(q) + 1 /\ Len(q) \in Nat  BY <1>1
<1>3. ASSUME NEW x PROVE Has(Append(q, y), x) <=> Has(q, x) \/ x = y
  <2>1. ASSUME Has(Append(q, y), x) PROVE Has(q, x) \/ x = y
    <3>1. PICK i \in DOMAIN Append(q, y) : Append(q, y)[i] = x  BY <2>1 DEF Has
    <3>2. CASE i = Len(q) + 1  BY <1>1, <3>1, <3>2
    <3>3. CASE i \in 1 .. Len(q)  BY <1>1, <1>2, <3>1, <3>3 DEF Has
    <3> QED BY <1>2, <3>1, <3>2, <3>3
  <2>2. ASSUME Has(q, x) PROVE Has(Append(q, y), x)
    <3>1. PICK i \in DOMAIN q : q[i] = x  BY <2>2 DEF Has
    <3> QED BY <1>1, <1>2, <3>1 DEF Has
  <2>3. ASSUME x = y PROVE Has(Append(q, y), x)
    <3>1. Len(q) + 1 \in DOMAIN Append(q, y)  BY <1>2
    <3> QED BY <1>1, <2>3, <3>1 DEF Has
  <2> QED BY <2>1, <2>2, <2>3
<1> QED BY <1>1, <1>3

(* A frame on a wire is a frame.                                           *)
LEMMA InTyped == ASSUME NEW w \in Wires, NEW m, In(w, m) PROVE m \in Frames
<1>1. PICK a, c \in Hubs : \E i \in DOMAIN w[a][c] : w[a][c][i] = m  BY DEF In
<1>2. w[a][c] \in Seq(Frames)  BY DEF Wires
<1> QED BY <1>1, <1>2

(* Taking the head of a queue.                                             *)
LEMMA RestIn ==
    ASSUME wire \in Wires, NEW g \in Hubs, NEW h \in Hubs, wire[g][h] # <<>>
    PROVE  /\ Rest(g, h) \in Wires /\ In(wire, Head(wire[g][h]))
           /\ \A k : In(Rest(g, h), k) => In(wire, k)
           /\ \A k : Single(wire, k) => Single(Rest(g, h), k)
           /\ \A k : Single(wire, k) /\ Head(wire[g][h]) = k => ~In(Rest(g, h), k)
<1> DEFINE q == wire[g][h]
           r == Rest(g, h)
<1>1. q \in Seq(Frames) /\ q # <<>>  BY DEF Wires
<1>2. /\ Tail(q) \in Seq(Frames) /\ DOMAIN Tail(q) = 1 .. Len(q) - 1 /\ DOMAIN q = 1 .. Len(q) /\ Len(q) \in Nat \ {0}
      /\ \A i \in 1 .. Len(q) - 1 : Tail(q)[i] = q[i + 1]
  <2> HIDE DEF q
  <2> QED BY <1>1
<1>3. r = [wire EXCEPT ![g][h] = Tail(q)]  BY DEF Rest, Wires
<1>4. /\ r \in Wires /\ r[g][h] = Tail(q)
      /\ \A x, y \in Hubs : x # g \/ y # h => r[x][y] = wire[x][y]
  <2> DEFINE t == Tail(q)
  <2>1. t \in Seq(Frames) /\ r = [wire EXCEPT ![g][h] = t]  BY <1>2, <1>3
  <2> HIDE DEF q, r, t
  <2>2. r \in Wires /\ r[g][h] = t /\ \A x, y \in Hubs : x # g \/ y # h => r[x][y] = wire[x][y]  BY <2>1 DEF Wires
  <2> QED BY <2>2 DEF t
<1>5. Head(q) = q[1] /\ 1 \in DOMAIN q  BY <1>2
<1>6. In(wire, Head(wire[g][h]))  BY <1>5 DEF In
<1> HIDE DEF r, q
<1>7. \A x, y \in Hubs : \A i \in DOMAIN r[x][y] :
         \E j \in DOMAIN wire[x][y] : wire[x][y][j] = r[x][y][i] /\ (x = g /\ y = h => j = i + 1) /\ (x # g \/ y # h => j = i)
  <2> SUFFICES ASSUME NEW x \in Hubs, NEW y \in Hubs, NEW i \in DOMAIN r[x][y]
               PROVE  \E j \in DOMAIN wire[x][y] : wire[x][y][j] = r[x][y][i] /\ (x = g /\ y = h => j = i + 1) /\ (x # g \/ y # h => j = i)
    OBVIOUS
  <2>1. CASE x = g /\ y = h
    <3>1. r[x][y] = Tail(q) /\ wire[x][y] = q  BY <1>4, <2>1 DEF q
    <3>2. i \in 1 .. Len(q) - 1  BY <1>2, <3>1
    <3>3. r[x][y][i] = q[i + 1] /\ i + 1 \in DOMAIN q  BY <1>2, <3>1, <3>2
    <3> QED BY <2>1, <3>1, <3>3
  <2>2. CASE x # g \/ y # h  BY <1>4, <2>2
  <2> QED BY <2>1, <2>2
<1>8. ASSUME NEW k, In(r, k) PROVE In(wire, k)  BY <1>7, <1>8 DEF In
<1>9. ASSUME NEW k, Single(wire, k) PROVE Single(r, k)
  <2> SUFFICES ASSUME NEW a \in Hubs, NEW c \in Hubs, NEW a2 \in Hubs, NEW c2 \in Hubs,
                      NEW i \in DOMAIN r[a][c], NEW j \in DOMAIN r[a2][c2], r[a][c][i] = k, r[a2][c2][j] = k
               PROVE  a = a2 /\ c = c2 /\ i = j
    BY DEF Single
  <2>1. PICK i1 \in DOMAIN wire[a][c] : wire[a][c][i1] = k /\ (a = g /\ c = h => i1 = i + 1) /\ (a # g \/ c # h => i1 = i)
    BY <1>7
  <2>2. PICK j1 \in DOMAIN wire[a2][c2] : wire[a2][c2][j1] = k /\ (a2 = g /\ c2 = h => j1 = j + 1) /\ (a2 # g \/ c2 # h => j1 = j)
    BY <1>7
  <2>3. a = a2 /\ c = c2 /\ i1 = j1  BY <1>9, <2>1, <2>2 DEF Single
  <2>4. CASE a = g /\ c = h
    <3>1. r[a][c] = Tail(q) /\ r[a2][c2] = Tail(q)  BY <1>4, <2>3, <2>4
    <3>2. i \in Int /\ j \in Int  BY <1>2, <3>1
    <3> QED BY <2>1, <2>2, <2>3, <2>4, <3>2
  <2> QED BY <2>1, <2>2, <2>3, <2>4
<1>10. ASSUME NEW k, Single(wire, k), Head(wire[g][h]) = k, In(r, k) PROVE FALSE
  <2>1. PICK x, y \in Hubs : \E i \in DOMAIN r[x][y] : r[x][y][i] = k  BY <1>10 DEF In
  <2>2. PICK i \in DOMAIN r[x][y] : r[x][y][i] = k  BY <2>1
  <2>3. PICK j \in DOMAIN wire[x][y] : wire[x][y][j] = k /\ (x = g /\ y = h => j = i + 1) /\ (x # g \/ y # h => j = i)
    BY <1>7, <2>2
  <2>4. x = g /\ y = h /\ j = 1  BY <1>5, <1>10, <2>3 DEF Single, q
  <2>5. r[x][y] = Tail(q)  BY <1>4, <2>4
  <2>6. i \in 1 .. Len(q) - 1  BY <1>2, <2>2, <2>5
  <2> QED BY <1>2, <2>3, <2>4, <2>6
<1> QED BY <1>4, <1>6, <1>8, <1>9, <1>10 DEF r

(* Wires after frame m was added to some of the queues out of hub h.       *)
Added(w, v, h, T, m) ==
    /\ v \in Wires
    /\ \A x, y \in Hubs : v[x][y] = IF x = h /\ y \in T THEN Append(w[x][y], m) ELSE w[x][y]

(* What is on the wires once a frame is added.                             *)
LEMMA AddedIn ==
    ASSUME NEW w \in Wires, NEW v, NEW h \in Hubs, NEW T, NEW m \in Frames, Added(w, v, h, T, m)
    PROVE  /\ \A k : In(v, k) => In(w, k) \/ k = m
           /\ \A k : Single(w, k) /\ k # m => Single(v, k)
<1>1. ASSUME NEW x \in Hubs, NEW y \in Hubs
      PROVE  /\ DOMAIN w[x][y] \subseteq DOMAIN v[x][y]
             /\ \A i \in DOMAIN v[x][y] : v[x][y][i] = m \/ (i \in DOMAIN w[x][y] /\ v[x][y][i] = w[x][y][i])
  <2>1. w[x][y] \in Seq(Frames)  BY DEF Wires
  <2>2. CASE x = h /\ y \in T
    <3>1. v[x][y] = Append(w[x][y], m)  BY <2>2 DEF Added
    <3> DEFINE q == w[x][y]
    <3> HIDE DEF q
    <3>2. q \in Seq(Frames) /\ v[x][y] = Append(q, m) /\ q = w[x][y]  BY <2>1, <3>1 DEF q
    <3>3. DOMAIN q = 1 .. Len(q) /\ DOMAIN v[x][y] = 1 .. Len(q) + 1 /\ Len(q) \in Nat /\ v[x][y][Len(q) + 1] = m
          /\ \A i \in 1 .. Len(q) : v[x][y][i] = q[i]
      BY <3>2
    <3>4. \A i \in 1 .. Len(q) + 1 : i = Len(q) + 1 \/ i \in 1 .. Len(q)  BY <3>3
    <3>5. \A i \in 1 .. Len(q) : i \in 1 .. Len(q) + 1  BY <3>3
    <3> QED BY <3>2, <3>3, <3>4, <3>5
  <2>3. CASE ~(x = h /\ y \in T)  BY <2>1, <2>3 DEF Added
  <2> QED BY <2>2, <2>3
<1>2. ASSUME NEW k, In(v, k) PROVE In(w, k) \/ k = m
  <2>1. PICK x, y \in Hubs : \E i \in DOMAIN v[x][y] : v[x][y][i] = k  BY <1>2 DEF In
  <2> QED BY <1>1, <2>1 DEF In
<1>3. ASSUME NEW k, Single(w, k), k # m PROVE Single(v, k)
  <2> SUFFICES ASSUME NEW a \in Hubs, NEW c \in Hubs, NEW a2 \in Hubs, NEW c2 \in Hubs,
                      NEW i \in DOMAIN v[a][c], NEW j \in DOMAIN v[a2][c2], v[a][c][i] = k, v[a2][c2][j] = k
               PROVE  a = a2 /\ c = c2 /\ i = j
    BY DEF Single
  <2>1. i \in DOMAIN w[a][c] /\ w[a][c][i] = k  BY <1>1, <1>3
  <2>2. j \in DOMAIN w[a2][c2] /\ w[a2][c2][j] = k  BY <1>1, <1>3
  <2> QED BY <1>3, <2>1, <2>2 DEF Single
<1> QED BY <1>2, <1>3

(* A frame that was nowhere is once on the wires when it is sent.          *)
LEMMA SentOnce ==
    ASSUME NEW w \in Wires, NEW v, NEW h \in Hubs, NEW g \in Hubs, NEW m \in Frames, Added(w, v, h, {g}, m), ~In(w, m)
    PROVE  Single(v, m)
<1>1. w[h][g] \in Seq(Frames)  BY DEF Wires
<1>2. ASSUME NEW x \in Hubs, NEW y \in Hubs, NEW i \in DOMAIN v[x][y], v[x][y][i] = m
      PROVE  x = h /\ y = g /\ i = Len(w[h][g]) + 1
  <2>1. CASE x = h /\ y = g
    <3>1. v[x][y] = Append(w[h][g], m)  BY <2>1 DEF Added
    <3>2. \A j \in DOMAIN w[h][g] : w[h][g][j] # m  BY DEF In
    <3> QED BY <1>1, <1>2, <2>1, <3>1, <3>2
  <2>2. CASE x # h \/ y # g
    <3>1. v[x][y] = w[x][y]  BY <2>2 DEF Added
    <3> QED BY <1>2, <3>1 DEF In
  <2> QED BY <2>1, <2>2
<1> QED BY <1>2 DEF Single

(* send_peer and the flood.                                                *)
LEMMA SendAdds ==
    ASSUME NEW w \in Wires, NEW h \in Hubs, NEW g, NEW m \in Frames
    PROVE  Added(w, SendTo(w, h, g, m), h, IF g \in Peers(h) THEN {g} ELSE {}, m)
<1>1. CASE g \in Peers(h)
  <2>1. g \in Hubs  BY <1>1 DEF Peers
  <2>2. w[h][g] \in Seq(Frames)  BY <2>1 DEF Wires
  <2>3. Append(w[h][g], m) \in Seq(Frames)  BY <2>2
  <2>4. SendTo(w, h, g, m) = [w EXCEPT ![h][g] = Append(w[h][g], m)]  BY <1>1, <2>1 DEF SendTo, Wires
  <2> DEFINE t == Append(w[h][g], m)
             v == SendTo(w, h, g, m)
  <2>5. v = [w EXCEPT ![h][g] = t] /\ t \in Seq(Frames)  BY <2>3, <2>4
  <2> HIDE DEF t, v
  <2>6. v \in Wires /\ v[h][g] = t /\ \A x, y \in Hubs : x # h \/ y # g => v[x][y] = w[x][y]
    BY <2>1, <2>5 DEF Wires
  <2> QED BY <1>1, <2>6 DEF Added, t, v
<1>2. CASE g \notin Peers(h)  BY <1>2 DEF SendTo, Added
<1> QED BY <1>1, <1>2

(* The flood adds the frame to every queue but one out of the hub.         *)
LEMMA FloodAdds ==
    ASSUME NEW w \in Wires, NEW h \in Hubs, NEW except, NEW m \in Frames
    PROVE  Added(w, Flood(w, h, except, m), h, Peers(h) \ {except}, m)
<1>1. \A g \in Hubs : w[h][g] \in Seq(Frames)  BY DEF Wires
<1>2. \A g \in Hubs : Append(w[h][g], m) \in Seq(Frames)  BY <1>1
<1> DEFINE f == [g \in Hubs |-> IF g \in Peers(h) \ {except} THEN Append(w[h][g], m) ELSE w[h][g]]
<1>3. f \in [Hubs -> Seq(Frames)]  BY <1>1, <1>2
<1>4. Flood(w, h, except, m) = [w EXCEPT ![h] = f]  BY DEF Flood
<1>5. Flood(w, h, except, m) \in Wires /\ Flood(w, h, except, m)[h] = f /\ \A x \in Hubs : x # h => Flood(w, h, except, m)[x] = w[x]
  <2> HIDE DEF f
  <2> QED BY <1>3, <1>4 DEF Wires
<1> QED BY <1>5 DEF Added

-----------------------------------------------------------------------------
(* Slots.                                                                  *)

(* Partial functions.                                                      *)
LEMMA PartialIn == ASSUME NEW S, NEW T, NEW D \in SUBSET S, NEW f \in [D -> T] PROVE f \in Partial(S, T)
  BY DEF Partial

(* What is known of a partial function.                                    *)
LEMMA PartialOut ==
    ASSUME NEW S, NEW T, NEW f \in Partial(S, T) PROVE DOMAIN f \subseteq S /\ f \in [DOMAIN f -> T]
<1>1. PICK D \in SUBSET S : f \in [D -> T]  BY DEF Partial
<1> QED BY <1>1

(* The free slot.                                                          *)
LEMMA FreeSlot ==
    /\ NoSlot \in Slots /\ ~NoSlot.active /\ NoSlot.phase = "Probe" /\ NoSlot.doing = None
    /\ DOMAIN NoSlot.bots = {} /\ DOMAIN NoSlot.hubs = {}
<1>1. <<>> \in [{} -> BotSt] /\ <<>> \in [{} -> HubSt]  OBVIOUS
<1>2. <<>> \in Partial(Helpers, BotSt) /\ <<>> \in Partial(Hubs, HubSt)  BY <1>1, PartialIn
<1>3. DOMAIN <<>> = {}  OBVIOUS
<1> QED BY <1>2, <1>3 DEF NoSlot, Slots, Phase, None

(* A slot's fields.                                                        *)
LEMMA SlotParts ==
    ASSUME NEW s \in Slots
    PROVE  /\ s.active \in BOOLEAN /\ s.phase \in Phase /\ s.from \in Hubs \cup {None}
           /\ DOMAIN s.bots \subseteq Helpers /\ s.bots \in [DOMAIN s.bots -> BotSt]
           /\ DOMAIN s.hubs \subseteq Hubs /\ s.hubs \in [DOMAIN s.hubs -> HubSt]
           /\ s.doing \in Helpers \cup Hubs \cup {None}
<1>1. s.bots \in Partial(Helpers, BotSt) /\ s.hubs \in Partial(Hubs, HubSt)  BY DEF Slots
<1> QED BY <1>1, PartialOut DEF Slots

(* The shapes and the invariant give the type invariant of the module.     *)
LEMMA Typed == ElInv => ElTypeOK
<1> SUFFICES ASSUME ElInv PROVE ElTypeOK  OBVIOUS
<1>1. ASSUME NEW h \in Hubs
      PROVE  /\ slot[h].active \in BOOLEAN /\ slot[h].phase \in Phase
             /\ slot[h].from \in Hubs \cup {None}
             /\ DOMAIN slot[h].bots \subseteq Mine(h)
             /\ \A b \in DOMAIN slot[h].bots : slot[h].bots[b] \in BotSt
             /\ \A g \in DOMAIN slot[h].hubs : slot[h].hubs[g] \in HubSt
             /\ slot[h].doing \in Helpers \cup Hubs \cup {None}
  <2>1. slot[h] \in Slots  BY DEF ElInv, ShapesOK
  <2>2. DOMAIN slot[h].bots \subseteq Mine(h)  BY DEF ElInv, Once, SlotOnce
  <2> QED BY <2>1, <2>2, SlotParts
<1> QED BY <1>1 DEF ElInv, ShapesOK, ElTypeOK

-----------------------------------------------------------------------------
(* Steps that hand the action to nobody.                                   *)

CalmSlot(h) ==
    \/ /\ \/ slot'[h].doing = slot[h].doing
          \/ h # origin /\ slot'[h].doing = None /\ slot'[h].phase = "Acked" /\ \A b \in Mine(h) : ~Danger(b)'
       /\ slot'[h].active => slot[h].active
                             /\ (slot'[h].phase = slot[h].phase \/ (h # origin /\ slot'[h].phase = "Acked"))
       /\ slot'[h].phase = "Probe" => slot[h].phase = "Probe"
       /\ DOMAIN slot'[h].bots = DOMAIN slot[h].bots
       /\ \A b \in DOMAIN slot[h].bots : slot[h].bots[b] = "t" => slot'[h].bots[b] = "t"
       /\ \A g \in DOMAIN slot[h].hubs :
             g \in DOMAIN slot'[h].hubs /\ (slot[h].hubs[g].tried => slot'[h].hubs[g].tried)
    \/ /\ h # origin /\ slot[h] = NoSlot
       /\ slot'[h].phase = "Probe" /\ slot'[h].doing = None /\ DOMAIN slot'[h].bots \subseteq Mine(h)

CalmBot(b) == QueuesOK(b)' /\ (HadIt(b)' => HadIt(b)) /\ (Danger(b)' => Danger(b))

CalmWire ==
    /\ \A g \in Hubs \ {origin} : Single(wire', Do(g)) /\ (In(wire', Do(g)) => In(wire, Do(g)))
    /\ \A m \in Frames : m.cmd = "done" /\ In(wire', m) => In(wire, m) \/ Reported(m)'

CalmSeen ==
    /\ seen \subseteq seen' /\ \A h \in Hubs : h \notin seen' => slot'[h] = slot[h]
    /\ origin \in seen \/ (seen' = seen /\ \A m \in Frames : In(wire', m) => In(wire, m))

NewAnswer == \E a \in AnAnswer : answers' = <<a>> /\ ~slot'[origin].active /\ origin \in seen /\ AnswerHolds(a)

Calm ==
    /\ origin' = origin /\ late \subseteq late' /\ acted \subseteq acted'
    /\ \A h \in Hubs : CalmSlot(h)
    /\ \A b \in Helpers : CalmBot(b)
    /\ CalmWire /\ CalmSeen
    /\ answers' = answers \/ NewAnswer \/ Answered'

(* NobodyActs becomes able to act in such a step.                              *)
LEMMA HotCalm ==
    ASSUME NEW g \in Hubs \ {origin}, CalmSlot(g), \A b \in Helpers : CalmBot(b), CalmWire, Hot(g)' PROVE Hot(g)
<1>1. CASE In(wire, Do(g))'  BY <1>1 DEF CalmWire, Hot, Do
<1>2. CASE (slot[g].active /\ slot[g].phase = "LocalDo")'  BY <1>2, FreeSlot DEF CalmSlot, Hot
<1>3. CASE (\E b \in Mine(g) : Danger(b))'  BY <1>3 DEF CalmBot, Hot, Mine
<1> QED BY <1>1, <1>2, <1>3 DEF Hot

(* Such a step keeps the invariant.                                        *)
LEMMA CalmKeeps == ASSUME ElInv, ShapesOK', Calm PROVE ElInv'
<1>1. origin \in Hubs /\ origin' = origin /\ late \subseteq late' /\ acted \subseteq acted'
  BY ElectAssumption DEF Calm, ElInv, ShapesOK
<1>2. CalmSlot(origin) /\ slot'[origin].doing = slot[origin].doing
      /\ (slot'[origin].active => slot[origin].active /\ slot'[origin].phase = slot[origin].phase)
  BY <1>1 DEF Calm, CalmSlot
<1>3. \A g : Given(g) => Given(g)'  BY <1>1, <1>2 DEF CalmSlot, Given
<1>4. MeshWork => MeshWork'  BY <1>1, <1>2 DEF MeshWork
<1>5. \A h \in Hubs : slot'[h].doing = slot[h].doing
                       \/ (slot'[h].doing = None /\ slot'[h].phase = "Acked" /\ \A b \in Mine(h) : ~Danger(b)')
  BY FreeSlot DEF Calm, CalmSlot
<1>6. \A h \in Hubs : SlotOnce(h)'
  <2> SUFFICES ASSUME NEW h \in Hubs PROVE SlotOnce(h)'  OBVIOUS
  <2>1. SlotOnce(h) /\ CalmSlot(h)  BY DEF ElInv, Once, Calm
  <2>2. h \notin seen' => slot'[h] = slot[h] /\ h \notin seen  BY DEF Calm, CalmSeen
  <2>3. CASE slot'[h].phase = "Probe" /\ slot'[h].doing = None /\ DOMAIN slot'[h].bots \subseteq Mine(h)
    BY <2>1, <2>2, <2>3 DEF SlotOnce, Mine
  <2>4. CASE ~(slot'[h].phase = "Probe" /\ slot'[h].doing = None /\ DOMAIN slot'[h].bots \subseteq Mine(h))
    <3>1. /\ slot'[h].doing = slot[h].doing \/ (slot'[h].doing = None /\ slot'[h].phase = "Acked")
          /\ slot'[h].active => slot[h].active /\ (slot'[h].phase = slot[h].phase \/ slot'[h].phase = "Acked")
          /\ slot'[h].phase = "Probe" => slot[h].phase = "Probe"
          /\ DOMAIN slot'[h].bots = DOMAIN slot[h].bots
      BY <2>1, <2>4 DEF CalmSlot
    <3>2. h \notin seen' => slot'[h] = NoSlot  BY <2>1, <2>2 DEF SlotOnce
    <3>3. DOMAIN slot'[h].bots \subseteq Mine(h)  BY <2>1, <3>1 DEF SlotOnce
    <3>4. slot'[h].phase = "Probe" => slot'[h].doing = None  BY <2>1, <3>1 DEF SlotOnce
    <3>5. slot'[h].active /\ slot'[h].phase \in {"LocalDo", "MeshDo"} => slot'[h].doing # None  BY <2>1, <3>1 DEF SlotOnce
    <3>6. slot'[h].active /\ slot'[h].phase \in {"MeshWait", "MeshDo"} => h = origin  BY <2>1, <3>1 DEF SlotOnce
    <3> QED BY <1>1, <3>2, <3>3, <3>4, <3>5, <3>6 DEF SlotOnce, Mine
  <2> QED BY <2>3, <2>4
<1>7. \A b \in Helpers : BotOnce(b)'
  <2> SUFFICES ASSUME NEW b \in Helpers PROVE BotOnce(b)'  OBVIOUS
  <2>1. BotOnce(b) /\ CalmBot(b) /\ At[b] \in Hubs  BY ElectAssumption DEF ElInv, Once, Calm
  <2>2. CalmSlot(At[b])  BY <2>1 DEF Calm
  <2>3. HadIt(b)' => b \in DOMAIN slot'[At[b]].bots /\ slot'[At[b]].bots[b] = "t"
    <3> SUFFICES ASSUME HadIt(b)' PROVE b \in DOMAIN slot'[At[b]].bots /\ slot'[At[b]].bots[b] = "t"  OBVIOUS
    <3>1. b \in DOMAIN slot[At[b]].bots /\ slot[At[b]].bots[b] = "t"  BY <2>1 DEF BotOnce, CalmBot
    <3> QED BY <2>2, <3>1, FreeSlot DEF CalmSlot
  <2>4. Danger(b)' => slot'[At[b]].doing = b  BY <1>5, <2>1 DEF BotOnce, CalmBot, Mine
  <2>5. Danger(b)' /\ At[b] = origin /\ slot'[origin].active => slot'[origin].phase = "LocalDo"
    BY <1>2, <2>1 DEF BotOnce, CalmBot
  <2> QED BY <1>1, <2>1, <2>3, <2>4, <2>5 DEF BotOnce, CalmBot
<1>8. \A g \in Hubs \ {origin} : Hot(g)' => Hot(g)  BY HotCalm DEF Calm
<1>9. \A g \in Hubs \ {origin} : HubOnce(g)'
  <2> SUFFICES ASSUME NEW g \in Hubs \ {origin} PROVE HubOnce(g)'  OBVIOUS
  <2>1. HubOnce(g) /\ Single(wire', Do(g)) /\ (In(wire', Do(g)) => In(wire, Do(g)))  BY DEF ElInv, Once, Calm, CalmWire
  <2> QED BY <1>1, <1>2, <1>3, <1>4, <1>5, <1>8, <2>1 DEF HubOnce, Do
<1>10. \A m \in Frames : Reported(m) => Reported(m)'
  <2> SUFFICES ASSUME NEW m \in Frames, Reported(m) PROVE Reported(m)'  OBVIOUS
  <2>1. m.status # "ok" /\ m.hub # origin => ~Hot(m.hub)' /\ Given(m.hub)'
    <3>1. CASE m.hub \in Hubs  BY <1>3, <1>8, <3>1 DEF Reported
    <3>2. CASE m.hub \notin Hubs
      <4>1. Given(m.hub) => m.hub \in Hubs
        <5>1. slot[origin] \in Slots  BY <1>1 DEF ElInv, ShapesOK
        <5> QED BY <5>1, SlotParts DEF Given
      <4> QED BY <3>2, <4>1 DEF Reported
    <3> QED BY <3>1, <3>2
  <2> QED BY <1>1, <2>1 DEF Reported
<1>11. \A m \in Frames : m.cmd = "done" /\ In(wire', m) => Reported(m)'
  BY <1>10 DEF Calm, CalmWire, ElInv, Once
<1>12. NobodyActs => NobodyActs'  BY <1>1, <1>8 DEF NobodyActs, Calm, CalmBot, Mine
<1>13. Answered'
  <2>1. \A a : AnswerHolds(a) => AnswerHolds(a)'  BY <1>1, <1>12 DEF AnswerHolds
  <2>2. origin \in seen => origin \in seen'  BY DEF Calm, CalmSeen
  <2>3. CASE answers' = answers
    BY <1>1, <1>2, <2>3, <2>1, <2>2 DEF Answered, ElInv, Once
  <2>4. CASE NewAnswer
    <3>1. PICK a \in AnAnswer : answers' = <<a>> /\ ~slot'[origin].active /\ origin \in seen /\ AnswerHolds(a)
      BY <2>4 DEF NewAnswer
    <3>2. Len(<<a>>) = 1 /\ <<a>>[1] = a  OBVIOUS
    <3> QED BY <1>1, <2>1, <2>2, <3>1, <3>2 DEF Answered
  <2> QED BY <2>3, <2>4 DEF Calm
<1>14. Quiet'  BY <1>1 DEF Calm, CalmSeen, ElInv, Once, Quiet
<1> QED BY <1>1, <1>6, <1>7, <1>9, <1>11, <1>13, <1>14 DEF ElInv, Once

(* The parts of a calm step that change nothing.                           *)
LEMMA SlotStill == ASSUME NEW h, slot'[h] = slot[h] PROVE CalmSlot(h)
  BY DEF CalmSlot

(* A bot from whose queues frames are only taken.                          *)
LEMMA BotShrinks ==
    ASSUME ElInv, NEW b \in Helpers, DoIn(b)' => DoIn(b), DoLast(tobot'[b]),
           \A st \in Statuses : Has(frombot'[b], st) => Has(frombot[b], st), b \in acted' <=> b \in acted, late \subseteq late'
    PROVE  CalmBot(b)
<1>1. QueuesOK(b)  BY DEF ElInv, Once, BotOnce
<1>2. StatusIn(b)' => StatusIn(b)  BY DEF StatusIn
<1>3. QueuesOK(b)'  BY <1>1, <1>2 DEF QueuesOK, Statuses
<1> QED BY <1>2, <1>3 DEF CalmBot, HadIt, Danger

(* A bot whose queues do not change.                                       *)
LEMMA BotStill ==
    ASSUME ElInv, NEW b \in Helpers, tobot'[b] = tobot[b], frombot'[b] = frombot[b], b \in acted' <=> b \in acted, late \subseteq late'
    PROVE  CalmBot(b)
<1>1. DoLast(tobot'[b])  BY DEF ElInv, Once, BotOnce, QueuesOK
<1> QED BY <1>1, BotShrinks DEF DoIn

(* Wires from which frames are only taken.                                 *)
LEMMA WireLess ==
    ASSUME ElInv, origin' = origin, \A m : In(wire', m) => In(wire, m),
           \A g \in Hubs \ {origin} : Single(wire', Do(g))
    PROVE  CalmWire
  BY DEF CalmWire

(* Wires that do not change.                                               *)
LEMMA WireStill == ASSUME ElInv, origin' = origin, wire' = wire PROVE CalmWire
<1>1. \A g \in Hubs \ {origin} : Single(wire', Do(g))  BY DEF ElInv, Once, HubOnce
<1> QED BY <1>1, WireLess

(* The rings do not change.                                                *)
LEMMA SeenStill ==
    ASSUME seen' = seen, \A h \in Hubs : h \notin seen => slot'[h] = slot[h],
           origin \in seen \/ \A m \in Frames : In(wire', m) => In(wire, m)
    PROVE  CalmSeen
  BY DEF CalmSeen

(* The end of a bot's queue.                                               *)
LEMMA DoTail ==
    ASSUME NEW q \in Seq(ToBot), q # <<>>, DoLast(q)
    PROVE  DoLast(Tail(q)) /\ (Head(q) = "do" => ~Has(Tail(q), "do"))
<1>1. /\ Len(q) \in Nat \ {0} /\ Len(Tail(q)) = Len(q) - 1 /\ DOMAIN Tail(q) = 1 .. Len(q) - 1
      /\ \A i \in 1 .. Len(q) - 1 : Tail(q)[i] = q[i + 1]
  OBVIOUS
<1>2. DoLast(Tail(q))
  <2> SUFFICES ASSUME NEW i \in 1 .. Len(Tail(q)) - 1 PROVE Tail(q)[i] # "do"  BY DEF DoLast
  <2>1. i \in 1 .. Len(q) - 1 /\ i + 1 \in 1 .. Len(q) - 1  BY <1>1
  <2> QED BY <1>1, <2>1 DEF DoLast
<1>3. ASSUME Head(q) = "do" PROVE ~Has(Tail(q), "do")
  <2>1. q[1] = "do"  BY <1>3
  <2>2. ~(1 \in 1 .. Len(q) - 1)  BY <2>1 DEF DoLast
  <2>3. Len(q) = 1  BY <1>1, <2>2
  <2> QED BY <1>1, <2>3 DEF Has
<1> QED BY <1>2, <1>3

(* The frame that hands over goes to the end of a queue without one.       *)
LEMMA DoAppend ==
    ASSUME NEW q \in Seq(ToBot), ~Has(q, "do"), NEW x \in ToBot
    PROVE  DoLast(Append(q, x))
<1> SUFFICES ASSUME NEW i \in 1 .. Len(Append(q, x)) - 1 PROVE Append(q, x)[i] # "do"  BY DEF DoLast
<1>1. Len(q) \in Nat /\ Len(Append(q, x)) = Len(q) + 1 /\ DOMAIN q = 1 .. Len(q)  OBVIOUS
<1>2. i \in 1 .. Len(q)  BY <1>1
<1>3. Append(q, x)[i] = q[i]  BY <1>1, <1>2
<1> QED BY <1>1, <1>2, <1>3 DEF Has

-----------------------------------------------------------------------------
(* Bots and links.                                                         *)

(* A bot answers a probe.                                                  *)
LEMMA AnswersKeeps == ASSUME ElInv, origin' = origin, NEW b \in Helpers, BotAnswers(b) PROVE ElInv'
<1>1. tobot[b] \in Seq(ToBot) /\ frombot[b] \in Seq(FromABot) /\ tobot[b] # <<>>  BY DEF ElInv, ShapesOK, BotAnswers
<1>2. PICK m \in {"yes", "no"} : frombot' = [frombot EXCEPT ![b] = Append(frombot[b], m)]  BY DEF BotAnswers, ElInv, ShapesOK
<1>3. tobot' = [tobot EXCEPT ![b] = Tail(tobot[b])]  BY DEF BotAnswers, ElInv, ShapesOK
<1>4. Tail(tobot[b]) \in Seq(ToBot) /\ \A x : Has(Tail(tobot[b]), x) => Has(tobot[b], x)  BY <1>1, QueueTail
<1>5. Append(frombot[b], m) \in Seq(FromABot) /\ \A x : Has(Append(frombot[b], m), x) <=> Has(frombot[b], x) \/ x = m
  <2>1. m \in FromABot  BY DEF FromABot
  <2> QED BY <1>1, <2>1, QueueAppend
<1>6. UNCHANGED <<origin, slot, seen, links, up, wire, acted, late, answers, drops>>  BY DEF BotAnswers
<1>7. /\ tobot'[b] = Tail(tobot[b]) /\ frombot'[b] = Append(frombot[b], m)
      /\ \A c \in Helpers \ {b} : tobot'[c] = tobot[c] /\ frombot'[c] = frombot[c]
      /\ tobot' \in [Helpers -> Seq(ToBot)] /\ frombot' \in [Helpers -> Seq(FromABot)]
  BY <1>2, <1>3, <1>4, <1>5 DEF ElInv, ShapesOK
<1>8. ShapesOK'  BY <1>6, <1>7 DEF ElInv, ShapesOK
<1>9. \A c \in Helpers : CalmBot(c)
  <2> SUFFICES ASSUME NEW c \in Helpers PROVE CalmBot(c)  OBVIOUS
  <2>1. CASE c = b
    <3>1. DoLast(tobot'[b])  BY <1>1, <1>7, DoTail DEF ElInv, Once, BotOnce, QueuesOK
    <3>2. DoIn(b)' => DoIn(b)  BY <1>4, <1>7 DEF DoIn
    <3>3. \A st \in Statuses : Has(frombot'[b], st) => Has(frombot[b], st)  BY <1>5, <1>7 DEF Statuses
    <3> QED BY <1>6, <2>1, <3>1, <3>2, <3>3, BotShrinks
  <2>2. CASE c # b  BY <1>6, <1>7, <2>2, BotStill
  <2> QED BY <2>1, <2>2
<1>10. CalmWire /\ CalmSeen /\ \A h \in Hubs : CalmSlot(h)  BY <1>6, WireStill, SeenStill, SlotStill
<1> QED BY <1>6, <1>8, <1>9, <1>10, CalmKeeps DEF Calm

(* A bot acts: the frame in its queue becomes what it did and reports.     *)
LEMMA ActsKeeps ==
    ASSUME ElInv, origin' = origin, NEW b \in Helpers, NEW status \in Statuses, BotActs(b, status) PROVE ElInv'
<1>1. tobot[b] \in Seq(ToBot) /\ frombot[b] \in Seq(FromABot) /\ tobot[b] # <<>> /\ Head(tobot[b]) = "do"
  BY DEF ElInv, ShapesOK, BotActs
<1>2. /\ frombot' = [frombot EXCEPT ![b] = Append(frombot[b], status)]
      /\ tobot' = [tobot EXCEPT ![b] = Tail(tobot[b])]
  BY DEF BotActs, ElInv, ShapesOK
<1>3. Tail(tobot[b]) \in Seq(ToBot) /\ Has(tobot[b], "do")  BY <1>1, QueueTail
<1>4. Append(frombot[b], status) \in Seq(FromABot) /\ \A x : Has(Append(frombot[b], status), x) <=> Has(frombot[b], x) \/ x = status
  <2>1. status \in FromABot  BY DEF FromABot
  <2> QED BY <1>1, <2>1, QueueAppend
<1>5. UNCHANGED <<origin, slot, seen, links, up, wire, late, answers, drops>> /\ acted' = (IF status = "ok" THEN acted \cup {b} ELSE acted)
  BY DEF BotActs
<1>6. /\ tobot'[b] = Tail(tobot[b]) /\ frombot'[b] = Append(frombot[b], status)
      /\ \A c \in Helpers \ {b} : tobot'[c] = tobot[c] /\ frombot'[c] = frombot[c]
      /\ tobot' \in [Helpers -> Seq(ToBot)] /\ frombot' \in [Helpers -> Seq(FromABot)]
  BY <1>2, <1>3, <1>4 DEF ElInv, ShapesOK
<1>7. ShapesOK'  BY <1>5, <1>6 DEF ElInv, ShapesOK
<1>8. \A c \in Helpers : CalmBot(c)
  <2> SUFFICES ASSUME NEW c \in Helpers PROVE CalmBot(c)  OBVIOUS
  <2>1. CASE c = b
    <3>1. QueuesOK(b) /\ DoIn(b)  BY <1>3 DEF ElInv, Once, BotOnce, DoIn
    <3>2. DoLast(tobot'[b]) /\ ~DoIn(b)'  BY <1>1, <1>6, <3>1, DoTail DEF QueuesOK, DoIn
    <3>3. b \notin acted /\ \A st \in Statuses : ~Has(frombot[b], st)  BY <3>1 DEF QueuesOK, StatusIn
    <3>4. \A st \in Statuses : Has(frombot'[b], st) <=> st = status  BY <1>4, <1>6, <3>3
    <3>5. b \in acted' <=> status = "ok"  BY <1>5, <3>3
    <3>6. QueuesOK(b)'  BY <3>2, <3>4, <3>5 DEF QueuesOK, Statuses
    <3>7. HadIt(b) /\ (Danger(b)' => Danger(b))  BY <1>5, <3>1, <3>2 DEF HadIt, Danger
    <3> QED BY <2>1, <3>6, <3>7 DEF CalmBot
  <2>2. CASE c # b
    <3>1. c \in acted' <=> c \in acted  BY <1>5, <2>2
    <3> QED BY <1>5, <1>6, <2>2, <3>1, BotStill
  <2> QED BY <2>1, <2>2
<1>9. CalmWire /\ CalmSeen /\ \A h \in Hubs : CalmSlot(h)  BY <1>5, WireStill, SeenStill, SlotStill
<1>10. acted \subseteq acted'  BY <1>5
<1> QED BY <1>5, <1>7, <1>8, <1>9, <1>10, CalmKeeps DEF Calm

(* The empty queue.                                                        *)
LEMMA EmptyQueue == ASSUME NEW S PROVE <<>> \in Seq(S) /\ (\A x : ~Has(<<>>, x)) /\ DoLast(<<>>)
<1>1. DOMAIN <<>> = {} /\ <<>> \in Seq(S)  OBVIOUS
<1>2. \A x : ~Has(<<>>, x)  BY <1>1 DEF Has
<1>3. 1 .. Len(<<>>) - 1 = {}  OBVIOUS
<1> QED BY <1>1, <1>2, <1>3 DEF DoLast

(* A bot drops with its queues; what it did stays done.                    *)
LEMMA DropsKeeps == ASSUME ElInv, origin' = origin, NEW b \in Helpers, BotDrops(b) PROVE ElInv'
<1>1. tobot' = [tobot EXCEPT ![b] = <<>>] /\ frombot' = [frombot EXCEPT ![b] = <<>>]  BY DEF BotDrops
<1>2. UNCHANGED <<origin, slot, seen, links, wire, acted, late, answers>> /\ up' \subseteq up /\ drops' = drops + 1 /\ drops < MaxDrops
  BY DEF BotDrops
<1>3. /\ tobot'[b] = <<>> /\ frombot'[b] = <<>>
      /\ \A c \in Helpers \ {b} : tobot'[c] = tobot[c] /\ frombot'[c] = frombot[c]
      /\ tobot' \in [Helpers -> Seq(ToBot)] /\ frombot' \in [Helpers -> Seq(FromABot)]
  BY <1>1, EmptyQueue DEF ElInv, ShapesOK
<1>4. drops' \in 0 .. MaxDrops  BY <1>2, ElectAssumption DEF ElInv, ShapesOK
<1>5. ShapesOK'  BY <1>2, <1>3, <1>4 DEF ElInv, ShapesOK
<1>6. \A c \in Helpers : CalmBot(c)
  <2> SUFFICES ASSUME NEW c \in Helpers PROVE CalmBot(c)  OBVIOUS
  <2>1. CASE c = b
    <3>1. DoLast(tobot'[b]) /\ ~DoIn(b)' /\ \A st \in Statuses : ~Has(frombot'[b], st)  BY <1>3, EmptyQueue DEF DoIn
    <3> QED BY <1>2, <2>1, <3>1, BotShrinks
  <2>2. CASE c # b  BY <1>2, <1>3, <2>2, BotStill
  <2> QED BY <2>1, <2>2
<1>7. CalmWire /\ CalmSeen /\ \A h \in Hubs : CalmSlot(h)  BY <1>2, WireStill, SeenStill, SlotStill
<1> QED BY <1>2, <1>5, <1>6, <1>7, CalmKeeps DEF Calm

(* A bot is back.                                                          *)
LEMMA BackKeeps == ASSUME ElInv, origin' = origin, NEW b \in Helpers, BotBack(b) PROVE ElInv'
<1>1. UNCHANGED <<origin, slot, seen, links, wire, tobot, frombot, acted, late, answers, drops>> /\ up' \subseteq Helpers
  BY DEF BotBack, net, ElInv, ShapesOK
<1>2. ShapesOK'  BY <1>1 DEF ElInv, ShapesOK
<1>3. \A c \in Helpers : CalmBot(c)  BY <1>1, BotStill
<1>4. CalmWire /\ CalmSeen /\ \A h \in Hubs : CalmSlot(h)  BY <1>1, WireStill, SeenStill, SlotStill
<1> QED BY <1>1, <1>2, <1>3, <1>4, CalmKeeps DEF Calm

(* A link goes with what is on it.                                         *)
LEMMA LinkKeeps == ASSUME ElInv, origin' = origin, NEW g \in Hubs, NEW h \in Hubs, LinkDrops(g, h) PROVE ElInv'
<1>1. /\ UNCHANGED <<origin, slot, seen, up, tobot, frombot, acted, late, answers>> /\ links' \subseteq links
      /\ drops' = drops + 1 /\ drops < MaxDrops /\ wire' = [wire EXCEPT ![g][h] = <<>>, ![h][g] = <<>>]
  BY DEF LinkDrops
<1>2. wire' \in Wires /\ \A x, y \in Hubs : wire'[x][y] = wire[x][y] \/ wire'[x][y] = <<>>
  BY <1>1, EmptyQueue DEF ElInv, ShapesOK, Wires
<1>3. drops' \in 0 .. MaxDrops  BY <1>1, ElectAssumption DEF ElInv, ShapesOK
<1>4. ShapesOK'  BY <1>1, <1>2, <1>3 DEF ElInv, ShapesOK
<1>5. \A x, y \in Hubs : \A i \in DOMAIN wire'[x][y] : i \in DOMAIN wire[x][y] /\ wire'[x][y][i] = wire[x][y][i]
  <2>1. DOMAIN <<>> = {}  OBVIOUS
  <2> QED BY <1>2, <2>1
<1>6. \A m : In(wire', m) => In(wire, m)  BY <1>5 DEF In
<1>7. ASSUME NEW k \in Hubs \ {origin} PROVE Single(wire', Do(k))
  <2>1. Single(wire, Do(k))  BY DEF ElInv, Once, HubOnce
  <2> QED BY <1>5, <2>1 DEF Single
<1>8. \A c \in Helpers : CalmBot(c)  BY <1>1, BotStill
<1>9. CalmWire /\ CalmSeen /\ \A k \in Hubs : CalmSlot(k)  BY <1>1, <1>6, <1>7, WireLess, SeenStill, SlotStill
<1> QED BY <1>1, <1>4, <1>8, <1>9, CalmKeeps DEF Calm

-----------------------------------------------------------------------------
(* Frames of bots at their hub, and waits.                                 *)

(* A slot is replaced.                                                     *)
LEMMA PutSlot ==
    ASSUME ElInv, NEW h \in Hubs, NEW t \in Slots, slot' = [slot EXCEPT ![h] = t]
    PROVE  slot' \in [Hubs -> Slots] /\ slot'[h] = t /\ \A k \in Hubs \ {h} : slot'[k] = slot[k]
  BY DEF ElInv, ShapesOK

(* A hub with an election under way has seen it.                           *)
LEMMA ActiveSeen == ASSUME ElInv, NEW h \in Hubs, slot[h].active PROVE h \in seen
  BY FreeSlot DEF ElInv, Once, SlotOnce

(* There are frames only once the origin was asked.                        *)
LEMMA OriginSeen == ASSUME ElInv, NEW m \in Frames, In(wire, m) PROVE origin \in seen
  BY DEF ElInv, Once, Quiet

(* A hub sees the election only after the origin.                          *)
LEMMA SomeSeen == ASSUME ElInv, NEW h \in seen PROVE origin \in seen
  BY DEF ElInv, Once, Quiet

(* A hub reads a frame of a bot.                                           *)
LEMMA Reads ==
    ASSUME ElInv, NEW b \in Helpers, NEW h, NEW m, FromBot(b, h, m)
    PROVE  /\ frombot' \in [Helpers -> Seq(FromABot)] /\ Has(frombot[b], m)
           /\ \A c \in Helpers : \A x : Has(frombot'[c], x) => Has(frombot[c], x)
           /\ UNCHANGED <<seen, links, up, acted, drops>>
<1>1. frombot[b] \in Seq(FromABot) /\ frombot[b] # <<>> /\ Head(frombot[b]) = m  BY DEF FromBot, ElInv, ShapesOK
<1>2. Tail(frombot[b]) \in Seq(FromABot) /\ Has(frombot[b], m) /\ \A x : Has(Tail(frombot[b]), x) => Has(frombot[b], x)
  BY <1>1, QueueTail
<1>3. frombot' = [frombot EXCEPT ![b] = Tail(frombot[b])]  BY DEF FromBot, ElInv, ShapesOK
<1>4. frombot' \in [Helpers -> Seq(FromABot)] /\ frombot'[b] = Tail(frombot[b]) /\ \A c \in Helpers \ {b} : frombot'[c] = frombot[c]
  BY <1>2, <1>3 DEF ElInv, ShapesOK
<1> QED BY <1>2, <1>4 DEF FromBot

(* Reading frames of bots is calm.                                         *)
LEMMA ReadsCalm ==
    ASSUME ElInv, tobot' = tobot, acted' = acted, late \subseteq late',
           \A c \in Helpers : \A x : Has(frombot'[c], x) => Has(frombot[c], x)
    PROVE  \A c \in Helpers : CalmBot(c)
<1> SUFFICES ASSUME NEW c \in Helpers PROVE CalmBot(c)  OBVIOUS
<1>1. DoLast(tobot'[c])  BY DEF ElInv, Once, BotOnce, QueuesOK
<1> QED BY <1>1, BotShrinks DEF DoIn

(* finish at the origin.                                                   *)
LEMMA Finishes ==
    ASSUME ElInv, origin' = origin, slot[origin].active, NEW status \in Statuses \cup {"nobody", "timeout"},
           NEW by \in Helpers \cup {None}, finish(origin, status, by)
    PROVE  /\ slot' \in [Hubs -> Slots] /\ answers' \in Seq(AnAnswer) /\ answers' = <<[status |-> status, by |-> by]>>
           /\ ~slot'[origin].active /\ [status |-> status, by |-> by] \in AnAnswer
           /\ \A h \in Hubs : CalmSlot(h)
           /\ \A h \in Hubs : h \notin seen => slot'[h] = slot[h]
<1> DEFINE a == [status |-> status, by |-> by]
           t == [slot[origin] EXCEPT !.active = FALSE]
<1>1. origin \in Hubs /\ slot[origin] \in Slots  BY ElectAssumption DEF ElInv, ShapesOK
<1>2. answers = <<>>  BY DEF ElInv, Once, Answered
<1>3. a \in AnAnswer  BY DEF AnAnswer
<1>4. answers' = Append(<<>>, a)  BY <1>2 DEF finish
<1> HIDE DEF a
<1>5. answers' = <<a>> /\ answers' \in Seq(AnAnswer)  BY <1>3, <1>4
<1>6. t \in Slots /\ ~t.active  BY <1>1 DEF Slots
<1>7. slot' = [slot EXCEPT ![origin] = t]  BY <1>1 DEF finish, ElInv, ShapesOK
<1>8. t.doing = slot[origin].doing /\ t.phase = slot[origin].phase /\ t.bots = slot[origin].bots /\ t.hubs = slot[origin].hubs
  BY <1>1 DEF Slots
<1> HIDE DEF t
<1>9. slot' \in [Hubs -> Slots] /\ slot'[origin] = t /\ \A k \in Hubs \ {origin} : slot'[k] = slot[k]
  BY <1>1, <1>6, <1>7, PutSlot
<1>10. \A h \in Hubs : CalmSlot(h)
  <2> SUFFICES ASSUME NEW h \in Hubs PROVE CalmSlot(h)  OBVIOUS
  <2>1. CASE h = origin  BY <1>6, <1>8, <1>9, <2>1 DEF CalmSlot
  <2>2. CASE h # origin  BY <1>9, <2>2, SlotStill
  <2> QED BY <2>1, <2>2
<1>11. origin \in seen  BY <1>1, ActiveSeen
<1> QED BY <1>3, <1>5, <1>6, <1>9, <1>10, <1>11 DEF a

(* process_probe_ack: only a bot that was asked and not yet heard.         *)
LEMMA ProbeAckKeeps ==
    ASSUME ElInv, origin' = origin, NEW b \in Helpers, NEW ok \in BOOLEAN, process_probe_ack(b, ok) PROVE ElInv'
<1> DEFINE h == At[b]
           v == IF ok THEN "y" ELSE "n"
           t == [slot[h] EXCEPT !.bots = [slot[h].bots EXCEPT ![b] = v]]
<1>1. h \in Hubs /\ slot[h] \in Slots  BY ElectAssumption DEF ElInv, ShapesOK
<1>2. FromBot(b, h, IF ok THEN "yes" ELSE "no") /\ UNCHANGED <<wire, tobot, answers>>  BY DEF process_probe_ack
<1>3. /\ frombot' \in [Helpers -> Seq(FromABot)] /\ \A c \in Helpers : \A x : Has(frombot'[c], x) => Has(frombot[c], x)
      /\ UNCHANGED <<seen, links, up, acted, drops>> /\ late' = late
  BY <1>2, Reads DEF FromBot
<1>4. CASE slot' = slot
  <2>1. ShapesOK'  BY <1>2, <1>3, <1>4 DEF ElInv, ShapesOK
  <2>2. \A k \in Hubs : CalmSlot(k)  BY <1>4, SlotStill
  <2>3. CalmWire /\ CalmSeen /\ \A c \in Helpers : CalmBot(c)  BY <1>2, <1>3, <1>4, WireStill, SeenStill, ReadsCalm
  <2> QED BY <1>2, <1>3, <2>1, <2>2, <2>3, CalmKeeps DEF Calm
<1>5. CASE slot[h].active /\ b \in DOMAIN slot[h].bots /\ slot[h].bots[b] = "a" /\ slot' = [slot EXCEPT ![h].bots[b] = v]
  <2>1. DOMAIN slot[h].bots \subseteq Helpers /\ slot[h].bots \in [DOMAIN slot[h].bots -> BotSt]  BY <1>1, SlotParts
  <2>2. v \in BotSt  BY DEF BotSt
  <2> HIDE DEF v
  <2> DEFINE f == [slot[h].bots EXCEPT ![b] = v]
  <2>3. f \in [DOMAIN slot[h].bots -> BotSt] /\ \A c \in DOMAIN slot[h].bots : slot[h].bots[c] = "t" => f[c] = "t"
    BY <1>5, <2>1, <2>2
  <2>4. f \in Partial(Helpers, BotSt) /\ DOMAIN f = DOMAIN slot[h].bots  BY <2>1, <2>3, PartialIn
  <2>5. slot' = [slot EXCEPT ![h] = t] /\ t = [slot[h] EXCEPT !.bots = f]  BY <1>1, <1>5 DEF ElInv, ShapesOK, Slots
  <2> HIDE DEF f, t
  <2>6. t \in Slots /\ t.bots = f /\ t.doing = slot[h].doing /\ t.active = slot[h].active /\ t.phase = slot[h].phase
        /\ t.hubs = slot[h].hubs
    BY <1>1, <2>4, <2>5 DEF Slots
  <2> HIDE DEF h
  <2>7. slot' \in [Hubs -> Slots] /\ slot'[h] = t /\ \A k \in Hubs \ {h} : slot'[k] = slot[k]  BY <1>1, <2>5, <2>6, PutSlot
  <2>8. ShapesOK'  BY <1>2, <1>3, <2>7 DEF ElInv, ShapesOK
  <2>9. CalmSlot(h)  BY <2>3, <2>4, <2>6, <2>7 DEF CalmSlot
  <2>10. \A k \in Hubs : CalmSlot(k)  BY <2>7, <2>9, SlotStill
  <2>11. h \in seen  BY <1>1, <1>5, ActiveSeen
  <2>12. CalmWire /\ CalmSeen /\ \A c \in Helpers : CalmBot(c)  BY <1>2, <1>3, <2>7, <2>11, WireStill, SeenStill, ReadsCalm
  <2> QED BY <1>2, <1>3, <2>8, <2>10, <2>12, CalmKeeps DEF Calm
<1> QED BY <1>4, <1>5 DEF process_probe_ack

(* The TTL ends an election.                                               *)
LEMMA ExpireKeeps == ASSUME ElInv, origin' = origin, NEW h \in Hubs, Expire(h) PROVE ElInv'
<1>1. UNCHANGED <<seen, links, up, wire, tobot, frombot, acted, late, drops>> /\ slot[h].active  BY DEF Expire, net
<1>2. h \in seen  BY <1>1, ActiveSeen
<1>3. CASE h = origin
  <2>1. finish(origin, "timeout", None)  BY <1>3 DEF Expire
  <2> DEFINE a == [status |-> "timeout", by |-> None]
  <2>2. /\ slot' \in [Hubs -> Slots] /\ answers' \in Seq(AnAnswer) /\ answers' = <<a>>
        /\ ~slot'[origin].active /\ a \in AnAnswer /\ \A k \in Hubs : CalmSlot(k)
        /\ \A k \in Hubs : k \notin seen => slot'[k] = slot[k]
    BY <1>1, <1>3, <2>1, Finishes
  <2>3. AnswerHolds(a)  BY DEF AnswerHolds
  <2> HIDE DEF a
  <2>4. NewAnswer  BY <1>2, <1>3, <2>2, <2>3 DEF NewAnswer
  <2>5. ShapesOK'  BY <1>1, <2>2 DEF ElInv, ShapesOK
  <2>6. CalmWire /\ CalmSeen /\ \A c \in Helpers : CalmBot(c)  BY <1>1, <2>2, WireStill, SeenStill, BotStill
  <2> QED BY <1>1, <2>2, <2>4, <2>5, <2>6, CalmKeeps DEF Calm
<1>4. CASE h # origin
  <2> DEFINE t == [slot[h] EXCEPT !.active = FALSE]
  <2>1. slot[h] \in Slots  BY DEF ElInv, ShapesOK
  <2>2. slot' = [slot EXCEPT ![h] = t] /\ answers' = answers  BY <1>4 DEF Expire, ElInv, ShapesOK
  <2>3. t \in Slots /\ ~t.active /\ t.doing = slot[h].doing /\ t.phase = slot[h].phase /\ t.bots = slot[h].bots /\ t.hubs = slot[h].hubs
    BY <2>1 DEF Slots
  <2> HIDE DEF t
  <2>4. slot' \in [Hubs -> Slots] /\ slot'[h] = t /\ \A k \in Hubs \ {h} : slot'[k] = slot[k]  BY <2>2, <2>3, PutSlot
  <2>5. ShapesOK'  BY <1>1, <2>2, <2>4 DEF ElInv, ShapesOK
  <2>6. CalmSlot(h)  BY <2>3, <2>4 DEF CalmSlot
  <2>7. \A k \in Hubs : CalmSlot(k)  BY <2>4, <2>6, SlotStill
  <2>8. CalmWire /\ CalmSeen /\ \A c \in Helpers : CalmBot(c)  BY <1>1, <1>2, <2>4, WireStill, SeenStill, BotStill
  <2> QED BY <1>1, <2>2, <2>5, <2>7, <2>8, CalmKeeps DEF Calm
<1> QED BY <1>3, <1>4

-----------------------------------------------------------------------------
(* Frames of hubs.                                                         *)

(* The fields of a frame.                                                  *)
LEMMA FrameParts ==
    ASSUME NEW m \in Frames
    PROVE  /\ m.cmd = "ack" => m.hub \in Hubs /\ m.ready \in Nat
           /\ m.cmd = "do" => m.hub \in Hubs /\ m = Do(m.hub)
           /\ m.cmd = "done" => m.hub \in Hubs /\ m.bot \in Helpers \cup {None} /\ m.status \in Statuses
<1>1. CASE m \in [cmd : {"fwd"}]  BY <1>1
<1>2. CASE m \in [cmd : {"ack"}, hub : Hubs, ready : Nat]  BY <1>2
<1>3. CASE m \in [cmd : {"do"}, hub : Hubs]  BY <1>3 DEF Do
<1>4. CASE m \in [cmd : {"done"}, hub : Hubs, bot : Helpers \cup {None}, status : Statuses]  BY <1>4
<1> QED BY <1>1, <1>2, <1>3, <1>4 DEF Frames

(* Wires an action starts from: nothing is on them that was not before.    *)
WireOK(v) == v \in Wires /\ (\A m : In(v, m) => In(wire, m)) /\ \A g \in Hubs \ {origin} : Single(v, Do(g))

(* The wires as they are.                                                  *)
LEMMA WireIsOK == ElInv => WireOK(wire)
  BY DEF ElInv, ShapesOK, Once, HubOnce, WireOK

(* A hub reads a frame: no copy of one that hands over is left.            *)
LEMMA HubReads ==
    ASSUME ElInv, NEW g \in Hubs, NEW h \in Hubs, NEW cmd, FromHub(g, h, cmd)
    PROVE  /\ Head(wire[g][h]) \in Frames /\ Head(wire[g][h]).cmd = cmd /\ In(wire, Head(wire[g][h]))
           /\ WireOK(Rest(g, h)) /\ origin \in seen
           /\ \A k \in Hubs \ {origin} : Head(wire[g][h]) = Do(k) => ~In(Rest(g, h), Do(k))
           /\ UNCHANGED <<links, up, frombot, acted, late, drops>>
<1>1. wire \in Wires /\ wire[g][h] # <<>> /\ Head(wire[g][h]).cmd = cmd  BY DEF ElInv, ShapesOK, FromHub
<1>2. /\ Rest(g, h) \in Wires /\ In(wire, Head(wire[g][h]))
      /\ \A k : In(Rest(g, h), k) => In(wire, k)
      /\ \A k : Single(wire, k) => Single(Rest(g, h), k)
      /\ \A k : Single(wire, k) /\ Head(wire[g][h]) = k => ~In(Rest(g, h), k)
  BY <1>1, RestIn
<1>3. \A k \in Hubs \ {origin} : Single(wire, Do(k))  BY DEF ElInv, Once, HubOnce
<1>4. WireOK(Rest(g, h))  BY <1>2, <1>3 DEF WireOK
<1>5. Head(wire[g][h]) \in Frames  BY <1>1, <1>2, InTyped
<1>6. origin \in seen  BY <1>2, <1>5, OriginSeen
<1> QED BY <1>1, <1>2, <1>3, <1>4, <1>5, <1>6 DEF FromHub

(* What is on the wires after the step, when one frame was added.          *)
LEMMA AddedWire ==
    ASSUME NEW v \in Wires, NEW h \in Hubs, NEW T, NEW m \in Frames, Added(v, wire', h, T, m)
    PROVE  /\ \A k : In(wire', k) => In(v, k) \/ k = m
           /\ \A k : Single(v, k) /\ k # m => Single(wire', k)
  BY AddedIn

(* Adding a frame other than one that hands over is calm.                  *)
LEMMA WireAdds ==
    ASSUME ElInv, origin' = origin, NEW v, WireOK(v), NEW h \in Hubs, NEW T, NEW m \in Frames, Added(v, wire', h, T, m),
           m.cmd # "do", m.cmd = "done" => In(wire, m) \/ Reported(m)'
    PROVE  wire' \in Wires /\ CalmWire
<1>1. v \in Wires /\ wire' \in Wires  BY DEF WireOK, Added
<1>2. (\A k : In(wire', k) => In(v, k) \/ k = m) /\ \A k : Single(v, k) /\ k # m => Single(wire', k)
  BY <1>1, AddedIn
<1>3. \A g : Do(g) # m  BY DEF Do
<1>4. \A g \in Hubs \ {origin} : Single(wire', Do(g)) /\ (In(wire', Do(g)) => In(wire, Do(g)))
  BY <1>2, <1>3 DEF WireOK
<1>5. \A k \in Frames : k.cmd = "done" /\ In(wire', k) => In(wire, k) \/ Reported(k)'  BY <1>2 DEF WireOK
<1> QED BY <1>1, <1>4, <1>5 DEF CalmWire

(* Only reading a frame is calm.                                           *)
LEMMA WireRest ==
    ASSUME ElInv, origin' = origin, NEW v, WireOK(v), wire' = v
    PROVE  wire' \in Wires /\ CalmWire
  BY WireLess DEF WireOK

(* The slot of a new election.                                             *)
LEMMA ProbeSlotOK ==
    ASSUME NEW h \in Hubs, NEW s \in Slots
    PROVE  /\ ProbeSlot(h, s) \in Slots /\ ProbeSlot(h, s).phase = "Probe" /\ ProbeSlot(h, s).doing = s.doing
           /\ DOMAIN ProbeSlot(h, s).bots \subseteq Mine(h) /\ ProbeSlot(h, s).hubs = s.hubs
<1> DEFINE f == [b \in Asked(h) |-> "a"]
<1>1. Asked(h) \subseteq Mine(h) /\ Mine(h) \subseteq Helpers  BY DEF Asked, Mine
<1>2. f \in [Asked(h) -> BotSt] /\ DOMAIN f = Asked(h)  BY DEF BotSt
<1>3. f \in Partial(Helpers, BotSt)  BY <1>1, <1>2, PartialIn
<1>4. ProbeSlot(h, s) = [s EXCEPT !.active = TRUE, !.phase = "Probe", !.bots = f]  BY DEF ProbeSlot
<1> HIDE DEF f
<1> QED BY <1>1, <1>2, <1>3, <1>4 DEF Slots, Phase

(* The probes reach bots that never had the action.                        *)
LEMMA Probing ==
    ASSUME ElInv, NEW h \in Hubs, h \notin seen, tobot' = Probes(h), frombot' = frombot, acted' = acted, late' = late
    PROVE  tobot' \in [Helpers -> Seq(ToBot)] /\ \A b \in Helpers : CalmBot(b)
<1>1. \A b \in Helpers : tobot[b] \in Seq(ToBot)  BY DEF ElInv, ShapesOK
<1>2. "probe" \in ToBot  BY DEF ToBot
<1>3. \A b \in Helpers : Append(tobot[b], "probe") \in Seq(ToBot)  BY <1>1, <1>2
<1>4. tobot' \in [Helpers -> Seq(ToBot)]  BY <1>1, <1>3 DEF Probes
<1>5. ASSUME NEW b \in Helpers PROVE CalmBot(b)
  <2>1. CASE b \in Asked(h)
    <3>1. tobot'[b] = Append(tobot[b], "probe")  BY <2>1 DEF Probes
    <3>2. At[b] = h /\ slot[h] = NoSlot  BY <2>1 DEF Asked, Mine, ElInv, Once, SlotOnce
    <3>3. ~HadIt(b)  BY <3>2, FreeSlot DEF ElInv, Once, BotOnce
    <3>4. ~Has(tobot[b], "do")  BY <3>3 DEF HadIt, DoIn
    <3>5. \A x : Has(tobot'[b], x) <=> Has(tobot[b], x) \/ x = "probe"  BY <1>1, <1>2, <3>1, QueueAppend
    <3>6. DoLast(tobot'[b])  BY <1>1, <1>2, <3>1, <3>4, DoAppend
    <3>7. DoIn(b)' => DoIn(b)  BY <3>5 DEF DoIn
    <3> QED BY <3>6, <3>7, BotShrinks
  <2>2. CASE b \notin Asked(h)
    <3>1. tobot'[b] = tobot[b]  BY <2>2 DEF Probes
    <3> QED BY <3>1, BotStill
  <2> QED BY <2>1, <2>2
<1> QED BY <1>4, <1>5

(* process_elect_fwd: a new slot, the first time only.                     *)
LEMMA FwdKeeps ==
    ASSUME ElInv, origin' = origin, NEW g \in Hubs, NEW h \in Hubs, NEW room \in BOOLEAN, process_elect_fwd(g, h, room)
    PROVE  ElInv'
<1>1. FromHub(g, h, "fwd") /\ seen' = seen \cup {h} /\ answers' = answers  BY DEF process_elect_fwd
<1>2. WireOK(Rest(g, h)) /\ origin \in seen /\ UNCHANGED <<links, up, frombot, acted, late, drops>>  BY <1>1, HubReads
<1>3. CASE h \in seen \/ ~room
  <2>1. wire' = Rest(g, h) /\ UNCHANGED <<slot, tobot>>  BY <1>3 DEF process_elect_fwd
  <2>2. wire' \in Wires /\ CalmWire  BY <1>2, <2>1, WireRest
  <2>3. ShapesOK'  BY <1>1, <1>2, <2>1, <2>2 DEF ElInv, ShapesOK
  <2>4. CalmSeen  BY <1>1, <1>2, <2>1 DEF CalmSeen
  <2>5. (\A k \in Hubs : CalmSlot(k)) /\ \A c \in Helpers : CalmBot(c)  BY <1>2, <2>1, SlotStill, BotStill
  <2> QED BY <1>1, <1>2, <2>2, <2>3, <2>4, <2>5, CalmKeeps DEF Calm
<1>4. CASE ~(h \in seen \/ ~room)
  <2> DEFINE s == [NoSlot EXCEPT !.from = g]
             t == ProbeSlot(h, s)
             m == [cmd |-> "fwd"]
  <2>1. slot' = [slot EXCEPT ![h] = t] /\ wire' = Flood(Rest(g, h), h, g, m) /\ tobot' = Probes(h)
    BY <1>4 DEF process_elect_fwd
  <2>2. s \in Slots /\ s.doing = None  BY FreeSlot DEF Slots
  <2>3. t \in Slots /\ t.phase = "Probe" /\ t.doing = None /\ DOMAIN t.bots \subseteq Mine(h)
    <3> HIDE DEF s
    <3> QED BY <2>2, ProbeSlotOK
  <2> HIDE DEF t
  <2>4. slot' \in [Hubs -> Slots] /\ slot'[h] = t /\ \A k \in Hubs \ {h} : slot'[k] = slot[k]  BY <2>1, <2>3, PutSlot
  <2>5. h # origin /\ slot[h] = NoSlot  BY <1>2, <1>4 DEF ElInv, Once, SlotOnce
  <2>6. CalmSlot(h)  BY <2>3, <2>4, <2>5 DEF CalmSlot
  <2>7. \A k \in Hubs : CalmSlot(k)  BY <2>4, <2>6, SlotStill
  <2>8. m \in Frames /\ m.cmd = "fwd"  BY DEF Frames
  <2> HIDE DEF m
  <2>9. Added(Rest(g, h), wire', h, Peers(h) \ {g}, m)  BY <1>2, <2>1, <2>8, FloodAdds DEF WireOK
  <2>10. wire' \in Wires /\ CalmWire  BY <1>2, <2>8, <2>9, WireAdds
  <2>11. tobot' \in [Helpers -> Seq(ToBot)] /\ \A b \in Helpers : CalmBot(b)  BY <1>2, <1>4, <2>1, Probing
  <2>12. ShapesOK'  BY <1>1, <1>2, <2>4, <2>10, <2>11 DEF ElInv, ShapesOK
  <2>13. CalmSeen  BY <1>1, <1>2, <2>4 DEF CalmSeen
  <2> QED BY <1>1, <1>2, <2>7, <2>10, <2>11, <2>12, <2>13, CalmKeeps DEF Calm
<1> QED BY <1>3, <1>4

(* process_elect_ack: a hub is noted as not tried, the first time only.    *)
LEMMA AckKeeps ==
    ASSUME ElInv, origin' = origin, NEW g \in Hubs, NEW h \in Hubs, process_elect_ack(g, h) PROVE ElInv'
<1> DEFINE m == Head(wire[g][h])
           s == slot[h]
           rec == [via |-> g, ready |-> m.ready, tried |-> FALSE]
           f == [k \in DOMAIN s.hubs \cup {m.hub} |-> IF k = m.hub THEN rec ELSE s.hubs[k]]
           t == [s EXCEPT !.hubs = f]
<1>1. FromHub(g, h, "ack") /\ UNCHANGED <<seen, tobot, answers>>  BY DEF process_elect_ack
<1>2. /\ m \in Frames /\ m.cmd = "ack" /\ In(wire, m) /\ WireOK(Rest(g, h)) /\ origin \in seen
      /\ UNCHANGED <<links, up, frombot, acted, late, drops>>
  BY <1>1, HubReads
<1>3. m.hub \in Hubs /\ m.ready \in Nat  BY <1>2, FrameParts
<1>4. CASE s.active /\ m.hub \notin DOMAIN s.hubs
  <2>1. /\ slot' = [slot EXCEPT ![h].hubs = [k \in DOMAIN @ \cup {m.hub} |-> IF k = m.hub THEN rec ELSE @[k]]]
        /\ wire' = IF h = origin THEN Rest(g, h) ELSE SendTo(Rest(g, h), h, s.from, m)
    BY <1>4 DEF process_elect_ack
  <2>2. s \in Slots /\ h \in seen  BY <1>4, ActiveSeen DEF ElInv, ShapesOK
  <2>3. slot' = [slot EXCEPT ![h] = t]  BY <2>1, <2>2 DEF ElInv, ShapesOK, Slots
  <2>4. DOMAIN s.hubs \subseteq Hubs /\ s.hubs \in [DOMAIN s.hubs -> HubSt]  BY <2>2, SlotParts
  <2>5. rec \in HubSt  BY <1>3 DEF HubSt
  <2> HIDE DEF rec, s, m
  <2>6. f \in [DOMAIN s.hubs \cup {m.hub} -> HubSt] /\ \A k \in DOMAIN s.hubs : k \in DOMAIN f /\ f[k] = s.hubs[k]
    BY <1>4, <2>4, <2>5
  <2>7. f \in Partial(Hubs, HubSt)  BY <1>3, <2>4, <2>6, PartialIn
  <2> HIDE DEF f
  <2>8. t \in Slots /\ t.hubs = f /\ t.doing = s.doing /\ t.active = s.active /\ t.phase = s.phase /\ t.bots = s.bots
    BY <2>2, <2>7 DEF Slots
  <2> HIDE DEF t
  <2>9. slot' \in [Hubs -> Slots] /\ slot'[h] = t /\ \A k \in Hubs \ {h} : slot'[k] = slot[k]  BY <2>3, <2>8, PutSlot
  <2>10. CalmSlot(h)  BY <2>6, <2>8, <2>9 DEF CalmSlot, s
  <2>11. \A k \in Hubs : CalmSlot(k)  BY <2>9, <2>10, SlotStill
  <2>12. wire' \in Wires /\ CalmWire
    <3>1. CASE h = origin  BY <1>2, <2>1, <3>1, WireRest
    <3>2. CASE h # origin
      <4>1. Added(Rest(g, h), wire', h, IF s.from \in Peers(h) THEN {s.from} ELSE {}, m)
        BY <1>2, <2>1, <3>2, SendAdds DEF WireOK
      <4> QED BY <1>2, <4>1, WireAdds
    <3> QED BY <3>1, <3>2
  <2>13. ShapesOK'  BY <1>1, <1>2, <2>9, <2>12 DEF ElInv, ShapesOK
  <2>14. CalmSeen /\ \A c \in Helpers : CalmBot(c)  BY <1>1, <1>2, <2>2, <2>9, SeenStill, BotStill
  <2> QED BY <1>1, <1>2, <2>11, <2>12, <2>13, <2>14, CalmKeeps DEF Calm
<1>5. CASE ~(s.active /\ m.hub \notin DOMAIN s.hubs)
  <2>1. wire' = Rest(g, h) /\ slot' = slot  BY <1>5 DEF process_elect_ack
  <2>2. wire' \in Wires /\ CalmWire  BY <1>2, <2>1, WireRest
  <2>3. ShapesOK'  BY <1>1, <1>2, <2>1, <2>2 DEF ElInv, ShapesOK
  <2>4. CalmSeen /\ (\A k \in Hubs : CalmSlot(k)) /\ \A c \in Helpers : CalmBot(c)
    BY <1>1, <1>2, <2>1, SlotStill, BotStill, SeenStill
  <2> QED BY <1>1, <1>2, <2>2, <2>3, <2>4, CalmKeeps DEF Calm
<1> QED BY <1>4, <1>5

-----------------------------------------------------------------------------
(* The action is handed over.                                              *)

(* The origin turns to the mesh when nobody it named before can act.       *)
LEMMA OriginMoves ==
    ASSUME ElInv, ShapesOK', origin' = origin, seen' = seen, UNCHANGED <<acted, tobot, answers>>, late \subseteq late',
           \A c \in Helpers : \A x : Has(frombot'[c], x) => Has(frombot[c], x),
           slot[origin].active, \A k \in Hubs \ {origin} : slot'[k] = slot[k],
           slot'[origin].phase \in {"MeshWait", "MeshDo"}, slot'[origin].phase = "MeshDo" => slot'[origin].doing # None,
           DOMAIN slot'[origin].bots = DOMAIN slot[origin].bots,
           \A b \in DOMAIN slot[origin].bots : slot[origin].bots[b] = "t" => slot'[origin].bots[b] = "t",
           \A g \in DOMAIN slot[origin].hubs :
               g \in DOMAIN slot'[origin].hubs /\ (slot[origin].hubs[g].tried => slot'[origin].hubs[g].tried),
           \A g \in Hubs \ {origin} :
               /\ Single(wire', Do(g))
               /\ In(wire', Do(g)) => In(wire, Do(g))
                                      \/ (slot'[origin].doing = g /\ slot'[origin].phase = "MeshDo" /\ ~Given(g) /\ Given(g)'),
           \A m \in Frames : m.cmd = "done" /\ In(wire', m) => In(wire, m),
           \A g \in Hubs \ {origin} : g \notin late' => ~Hot(g),
           \A b \in Mine(origin) : b \in late' \/ ~Danger(b)
    PROVE  ElInv'
<1>1. origin \in Hubs  BY ElectAssumption DEF ElInv, ShapesOK
<1>2. \A c \in Helpers : CalmBot(c)  BY ReadsCalm
<1>3. \A g : Given(g) => Given(g)'  BY <1>1 DEF Given
<1>4. origin \in seen /\ answers = <<>>  BY <1>1, ActiveSeen DEF ElInv, Once, Answered
<1>5. \A h \in Hubs : SlotOnce(h)'
  <2> SUFFICES ASSUME NEW h \in Hubs PROVE SlotOnce(h)'  OBVIOUS
  <2>1. SlotOnce(h)  BY DEF ElInv, Once
  <2>2. CASE h = origin  BY <1>4, <2>1, <2>2 DEF SlotOnce, Mine
  <2>3. CASE h # origin  BY <2>1, <2>3 DEF SlotOnce, Mine
  <2> QED BY <2>2, <2>3
<1>6. \A b \in Helpers : Danger(b)' => At[b] # origin /\ Danger(b)
  <2> SUFFICES ASSUME NEW b \in Helpers, Danger(b)' PROVE At[b] # origin /\ Danger(b)  OBVIOUS
  <2>1. Danger(b) /\ b \notin late'  BY <1>2 DEF CalmBot, Danger
  <2> QED BY <2>1 DEF Mine
<1>7. \A b \in Helpers : BotOnce(b)'
  <2> SUFFICES ASSUME NEW b \in Helpers PROVE BotOnce(b)'  OBVIOUS
  <2>1. BotOnce(b) /\ CalmBot(b) /\ At[b] \in Hubs  BY <1>2, ElectAssumption DEF ElInv, Once
  <2>2. HadIt(b)' => b \in DOMAIN slot'[At[b]].bots /\ slot'[At[b]].bots[b] = "t"
    <3> SUFFICES ASSUME HadIt(b)' PROVE b \in DOMAIN slot'[At[b]].bots /\ slot'[At[b]].bots[b] = "t"  OBVIOUS
    <3>1. b \in DOMAIN slot[At[b]].bots /\ slot[At[b]].bots[b] = "t"  BY <2>1 DEF BotOnce, CalmBot
    <3>2. CASE At[b] = origin  BY <3>1, <3>2
    <3>3. CASE At[b] # origin  BY <2>1, <3>1, <3>3
    <3> QED BY <3>2, <3>3
  <2>3. Danger(b)' => slot'[At[b]].doing = b /\ At[b] # origin  BY <1>6, <2>1 DEF BotOnce
  <2> QED BY <2>1, <2>2, <2>3 DEF BotOnce, CalmBot
<1>8. ASSUME NEW g \in Hubs \ {origin}, Hot(g)'
      PROVE  Hot(g) \/ (slot'[origin].doing = g /\ slot'[origin].phase = "MeshDo" /\ ~Given(g))
  <2>1. CASE In(wire, Do(g))'  BY <2>1 DEF Hot, Do
  <2>2. CASE (slot[g].active /\ slot[g].phase = "LocalDo")'  BY <2>2 DEF Hot
  <2>3. CASE (\E b \in Mine(g) : Danger(b))'  BY <1>6, <2>3 DEF Hot, Mine
  <2> QED BY <1>8, <2>1, <2>2, <2>3 DEF Hot
<1>9. \A g \in Hubs \ {origin} : HubOnce(g)'
  <2> SUFFICES ASSUME NEW g \in Hubs \ {origin} PROVE HubOnce(g)'  OBVIOUS
  <2>1. HubOnce(g) /\ Single(wire', Do(g)) /\ slot'[g] = slot[g]  BY DEF ElInv, Once
  <2>2. Single(wire, Do(g))'  BY <2>1 DEF Do
  <2>3. In(wire, Do(g))' => slot'[g].doing = None /\ Given(g)'
    <3>1. In(wire', Do(g)) => slot'[g].doing = None /\ Given(g)'  BY <1>3, <2>1 DEF HubOnce
    <3> QED BY <3>1 DEF Do
  <2>4. slot'[g].doing # None => Given(g)'  BY <1>3, <2>1 DEF HubOnce
  <2>5. g \notin late' /\ Hot(g)' => slot'[origin].doing = g /\ MeshWork'  BY <1>8 DEF MeshWork
  <2> QED BY <2>2, <2>3, <2>4, <2>5 DEF HubOnce
<1>10. \A m \in Frames : m.cmd = "done" /\ In(wire', m) => Reported(m)'
  <2> SUFFICES ASSUME NEW m \in Frames, m.cmd = "done", In(wire', m) PROVE Reported(m)'  OBVIOUS
  <2>1. Reported(m) /\ m.hub \in Hubs  BY FrameParts DEF ElInv, Once
  <2> QED BY <1>3, <1>8, <2>1 DEF Reported
<1>11. Quiet' /\ Answered'  BY <1>4 DEF Quiet, Answered
<1> QED BY <1>5, <1>7, <1>9, <1>10, <1>11 DEF ElInv, Once

(* Marking hubs as tried.                                                  *)
LEMMA TriedOK ==
    ASSUME NEW D, NEW hubs \in [D -> HubSt], NEW S
    PROVE  /\ Tried(hubs, S) \in [D -> HubSt]
           /\ \A k \in D : (hubs[k].tried => Tried(hubs, S)[k].tried) /\ (k \in S => Tried(hubs, S)[k].tried)
<1>1. ASSUME NEW k \in D
      PROVE  /\ Tried(hubs, S)[k] \in HubSt
             /\ hubs[k].tried => Tried(hubs, S)[k].tried
             /\ k \in S => Tried(hubs, S)[k].tried
  <2> DEFINE r == hubs[k]
             v == r.tried \/ k \in S
             n == [r EXCEPT !.tried = v]
  <2>1. r \in HubSt /\ Tried(hubs, S)[k] = n  BY DEF Tried
  <2>2. v \in BOOLEAN  OBVIOUS
  <2>3. (r.tried => v) /\ (k \in S => v)  OBVIOUS
  <2> HIDE DEF v, r
  <2>4. n \in HubSt /\ n.tried = v  BY <2>1, <2>2 DEF HubSt
  <2> HIDE DEF n
  <2> QED BY <2>1, <2>3, <2>4 DEF r
<1>2. Tried(hubs, S) \in [D -> HubSt]  BY <1>1 DEF Tried
<1> QED BY <1>1, <1>2

(* try_hub, once nobody that was named can act: the hub it picks was not   *)
(* handed the action before, or the console hears that nobody can.         *)
LEMMA TryHub ==
    ASSUME ElInv, origin' = origin, seen' = seen, UNCHANGED <<links, up, acted, tobot, drops>>,
           late \subseteq late', late' \subseteq Helpers \cup Hubs, frombot' \in [Helpers -> Seq(FromABot)],
           \A c \in Helpers : \A x : Has(frombot'[c], x) => Has(frombot[c], x),
           slot[origin].active, NEW s \in Slots, s.hubs = slot[origin].hubs,
           DOMAIN s.bots = DOMAIN slot[origin].bots,
           \A b \in DOMAIN slot[origin].bots : slot[origin].bots[b] = "t" => s.bots[b] = "t",
           NEW w, WireOK(w), try_hub(s, w),
           \A g \in Hubs \ {origin} : g \notin late' => ~Hot(g),
           \A b \in Mine(origin) : b \in late' \/ ~Danger(b)
    PROVE  ElInv'
<1> DEFINE cand == {g \in DOMAIN s.hubs : ~s.hubs[g].tried /\ s.hubs[g].ready > 0}
           reach == {g \in cand : s.hubs[g].via \in Peers(origin)}
<1>1. origin \in Hubs /\ w \in Wires /\ answers \in Seq(AnAnswer)  BY ElectAssumption DEF ElInv, ShapesOK, WireOK
<1>2. \A c \in Helpers : CalmBot(c)  BY ReadsCalm
<1>3. origin \in seen  BY <1>1, ActiveSeen
<1>4. ASSUME NEW g \in reach, NEW gone \in SUBSET (cand \ reach),
             slot' = [slot EXCEPT ![origin] =
                          [s EXCEPT !.doing = g, !.phase = "MeshDo", !.hubs = Tried(@, gone \cup {g})]],
             wire' = SendTo(w, origin, s.hubs[g].via, [cmd |-> "do", hub |-> g]), answers' = answers
      PROVE  ElInv'
  <2> DEFINE f == Tried(s.hubs, gone \cup {g})
             t == [s EXCEPT !.doing = g, !.phase = "MeshDo", !.hubs = f]
             v == s.hubs[g].via
  <2>1. DOMAIN s.hubs \subseteq Hubs /\ s.hubs \in [DOMAIN s.hubs -> HubSt] /\ g \in DOMAIN s.hubs /\ ~s.hubs[g].tried
        /\ v \in Peers(origin) /\ v \in Hubs
    BY SlotParts DEF Peers
  <2>2. f \in [DOMAIN s.hubs -> HubSt] /\ f[g].tried /\ \A k \in DOMAIN s.hubs : s.hubs[k].tried => f[k].tried
    BY <2>1, TriedOK
  <2>3. f \in Partial(Hubs, HubSt) /\ DOMAIN f = DOMAIN s.hubs  BY <2>1, <2>2, PartialIn
  <2>4. slot' = [slot EXCEPT ![origin] = t]
    BY <1>4
  <2>5. wire' = SendTo(w, origin, v, Do(g))  BY <1>4 DEF Do
  <2>6. Do(g) \in Frames  BY <2>1 DEF Do, Frames
  <2> HIDE DEF f, v, cand, reach
  <2>7. t \in Slots /\ t.doing = g /\ t.phase = "MeshDo" /\ t.hubs = f /\ t.bots = s.bots
    BY <2>1, <2>3 DEF Slots, Phase
  <2> HIDE DEF t
  <2>8. slot' \in [Hubs -> Slots] /\ slot'[origin] = t /\ \A k \in Hubs \ {origin} : slot'[k] = slot[k]
    BY <1>1, <2>4, <2>7, PutSlot
  <2>9. Added(w, wire', origin, {v}, Do(g))  BY <1>1, <2>1, <2>5, <2>6, SendAdds
  <2>10. wire' \in Wires /\ (\A k : In(wire', k) => In(w, k) \/ k = Do(g)) /\ \A k : Single(w, k) /\ k # Do(g) => Single(wire', k)
    <3>1. wire' \in Wires  BY <2>9 DEF Added
    <3> QED BY <1>1, <2>6, <2>9, <3>1, AddedIn
  <2>11. ShapesOK'  BY <1>4, <2>8, <2>10 DEF ElInv, ShapesOK
  <2>12. ~Given(g) /\ Given(g)'  BY <2>1, <2>2, <2>3, <2>7, <2>8 DEF Given
  <2>13. g # origin => ~In(w, Do(g))  BY <2>1, <2>12 DEF ElInv, Once, HubOnce, WireOK
  <2>14. ASSUME NEW k \in Hubs \ {origin}
         PROVE  /\ Single(wire', Do(k))
                /\ In(wire', Do(k)) => In(wire, Do(k))
                                       \/ (slot'[origin].doing = k /\ slot'[origin].phase = "MeshDo" /\ ~Given(k) /\ Given(k)')
    <3>1. CASE k = g
      <4>1. Single(wire', Do(g))  BY <1>1, <2>1, <2>6, <2>9, <2>13, <3>1, SentOnce
      <4> QED BY <2>7, <2>8, <2>12, <3>1, <4>1
    <3>2. CASE k # g
      <4>1. Do(k) # Do(g)  BY <3>2 DEF Do
      <4> QED BY <2>10, <4>1 DEF WireOK
    <3> QED BY <3>1, <3>2
  <2>15. \A m \in Frames : m.cmd = "done" /\ In(wire', m) => In(wire, m)
    <3>1. \A m : m = Do(g) => m.cmd # "done"  BY DEF Do
    <3> QED BY <2>10, <3>1 DEF WireOK
  <2>16. g # None  BY <2>1, ElectAssumption
  <2>17. /\ slot'[origin].phase = "MeshDo" /\ slot'[origin].doing # None
         /\ DOMAIN slot'[origin].bots = DOMAIN slot[origin].bots
         /\ \A b \in DOMAIN slot[origin].bots : slot[origin].bots[b] = "t" => slot'[origin].bots[b] = "t"
         /\ \A k \in DOMAIN slot[origin].hubs :
               k \in DOMAIN slot'[origin].hubs /\ (slot[origin].hubs[k].tried => slot'[origin].hubs[k].tried)
    BY <2>2, <2>3, <2>7, <2>8, <2>16
  <2>18. \A k \in Hubs \ {origin} : slot'[k] = slot[k]  BY <2>8
  <2> QED BY <1>4, <2>11, <2>14, <2>15, <2>17, <2>18, OriginMoves
<1>5. CASE finish(origin, "nobody", None) /\ wire' = w
  <2> DEFINE a == [status |-> "nobody", by |-> None]
  <2>1. /\ slot' \in [Hubs -> Slots] /\ answers' \in Seq(AnAnswer) /\ answers' = <<a>>
        /\ ~slot'[origin].active /\ a \in AnAnswer /\ \A k \in Hubs : CalmSlot(k)
        /\ \A k \in Hubs : k \notin seen => slot'[k] = slot[k]
    BY <1>5, Finishes
  <2>2. wire' \in Wires /\ CalmWire  BY <1>5, WireRest
  <2>3. ShapesOK'  BY <2>1, <2>2 DEF ElInv, ShapesOK
  <2>4. \A g \in Hubs \ {origin} : Hot(g)' => Hot(g)  BY <1>2, <2>1, <2>2, HotCalm
  <2>5. \A b \in Mine(origin) : ~Danger(b)'  BY <1>2 DEF CalmBot, Danger, Mine
  <2>6. NobodyActs'  BY <2>4, <2>5 DEF NobodyActs, Mine
  <2>7. Len(<<a>>) = 1 /\ <<a>>[1] = a /\ a.status = "nobody"  OBVIOUS
  <2>8. Answered'  BY <1>3, <2>1, <2>6, <2>7 DEF Answered, AnswerHolds
  <2>9. CalmSeen  BY <1>3, <2>1, SeenStill
  <2> QED BY <1>2, <2>1, <2>2, <2>3, <2>8, <2>9, CalmKeeps DEF Calm
<1> QED BY <1>4, <1>5 DEF try_hub

(* A bot of hub h is handed the action when nobody h named before can act, *)
(* and h, other than the origin, is the hub the origin named.              *)
LEMMA HandsOver ==
    ASSUME ElInv, ShapesOK', origin' = origin, seen' = seen, UNCHANGED <<acted, answers>>, late \subseteq late',
           \A c \in Helpers : \A x : Has(frombot'[c], x) => Has(frombot[c], x),
           NEW h \in Hubs, slot[h].active, \A k \in Hubs \ {h} : slot'[k] = slot[k],
           NEW b \in Mine(h), ~HadIt(b), slot'[h].doing = b, slot'[h].phase = "LocalDo",
           slot'[h].hubs = slot[h].hubs, DOMAIN slot'[h].bots = DOMAIN slot[h].bots, b \in DOMAIN slot[h].bots,
           slot'[h].bots[b] = "t", \A c \in DOMAIN slot[h].bots : slot[h].bots[c] = "t" => slot'[h].bots[c] = "t",
           tobot'[b] = Append(tobot[b], "do"), \A c \in Helpers \ {b} : tobot'[c] = tobot[c],
           WireOK(wire'), h # origin => ~In(wire', Do(h)) /\ Given(h) /\ Hot(h),
           \A c \in Mine(h) : c \in late' \/ ~Danger(c),
           h = origin => \A g \in Hubs \ {origin} : g \notin late' => ~Hot(g)
    PROVE  ElInv'
<1>1. origin \in Hubs /\ b \in Helpers /\ At[b] = h /\ b # None /\ h \in seen
  BY ElectAssumption, ActiveSeen DEF ElInv, ShapesOK, Mine
<1>2. origin \in seen  BY <1>1, SomeSeen
<1>3. \A g : Given(g)' <=> Given(g)  BY <1>1 DEF Given
<1>4. ASSUME NEW c \in Helpers \ {b} PROVE CalmBot(c)
  <2>1. DoLast(tobot'[c]) /\ (DoIn(c)' => DoIn(c))  BY DEF ElInv, Once, BotOnce, QueuesOK, DoIn
  <2> QED BY <2>1, BotShrinks
<1>5. QueuesOK(b)'
  <2>1. ~Has(tobot[b], "do") /\ b \notin acted /\ ~StatusIn(b)  BY DEF HadIt, DoIn
  <2>2. ~StatusIn(b)'  BY <1>1, <2>1 DEF StatusIn
  <2>3. tobot[b] \in Seq(ToBot) /\ "do" \in ToBot  BY <1>1 DEF ElInv, ShapesOK, ToBot
  <2>4. DoLast(tobot'[b])  BY <2>1, <2>3, DoAppend
  <2> QED BY <2>1, <2>2, <2>4 DEF QueuesOK, StatusIn, Statuses
<1>6. ASSUME NEW k \in Hubs PROVE SlotOnce(k)'
  <2>1. SlotOnce(k)  BY DEF ElInv, Once
  <2>2. CASE k = h  BY <1>1, <2>1, <2>2 DEF SlotOnce, Mine
  <2>3. CASE k # h  BY <2>1, <2>3 DEF SlotOnce, Mine
  <2> QED BY <2>2, <2>3
<1>7. ASSUME NEW c \in Helpers, c # b, Danger(c)' PROVE At[c] # h /\ Danger(c)
  <2>1. Danger(c) /\ c \notin late'  BY <1>4, <1>7 DEF CalmBot, Danger
  <2> QED BY <2>1 DEF Mine
<1>8. ASSUME NEW c \in Helpers PROVE BotOnce(c)'
  <2>1. CASE c = b  BY <1>1, <1>5, <2>1 DEF BotOnce
  <2>2. CASE c # b
    <3>1. BotOnce(c) /\ CalmBot(c) /\ At[c] \in Hubs  BY <1>4, <2>2, ElectAssumption DEF ElInv, Once
    <3>2. HadIt(c)' => c \in DOMAIN slot'[At[c]].bots /\ slot'[At[c]].bots[c] = "t"
      <4> SUFFICES ASSUME HadIt(c)' PROVE c \in DOMAIN slot'[At[c]].bots /\ slot'[At[c]].bots[c] = "t"  OBVIOUS
      <4>1. c \in DOMAIN slot[At[c]].bots /\ slot[At[c]].bots[c] = "t"  BY <3>1 DEF BotOnce, CalmBot
      <4>2. CASE At[c] = h  BY <4>1, <4>2
      <4>3. CASE At[c] # h  BY <3>1, <4>1, <4>3
      <4> QED BY <4>2, <4>3
    <3>3. Danger(c)' => slot'[At[c]].doing = c  BY <1>7, <2>2, <3>1 DEF BotOnce
    <3>4. Danger(c)' /\ At[c] = origin /\ slot'[origin].active => slot'[origin].phase = "LocalDo"
      BY <1>1, <1>7, <2>2, <3>1 DEF BotOnce
    <3> QED BY <3>1, <3>2, <3>3, <3>4 DEF BotOnce, CalmBot
  <2> QED BY <2>1, <2>2
<1>9. ASSUME NEW g \in Hubs \ {origin}, g # h, Hot(g)' PROVE Hot(g)
  <2>1. CASE In(wire, Do(g))'  BY <2>1 DEF Hot, Do, WireOK
  <2>2. CASE (slot[g].active /\ slot[g].phase = "LocalDo")'  BY <1>9, <2>2 DEF Hot
  <2>3. CASE (\E c \in Mine(g) : Danger(c))'  BY <1>1, <1>7, <1>9, <2>3 DEF Hot, Mine
  <2> QED BY <1>9, <2>1, <2>2, <2>3 DEF Hot
<1>10. ASSUME NEW g \in Hubs \ {origin} PROVE HubOnce(g)'
  <2>1. HubOnce(g)  BY DEF ElInv, Once
  <2>2. Single(wire', Do(g)) /\ (In(wire', Do(g)) => In(wire, Do(g)) /\ g # h)  BY DEF WireOK
  <2>3. Single(wire, Do(g))'  BY <2>2 DEF Do
  <2>4. In(wire, Do(g))' => slot'[g].doing = None /\ Given(g)'
    <3>1. In(wire', Do(g)) => slot'[g].doing = None /\ Given(g)'  BY <1>3, <2>1, <2>2 DEF HubOnce
    <3> QED BY <3>1 DEF Do
  <2>5. slot'[g].doing # None => Given(g)'
    <3>1. CASE g = h  BY <1>3, <3>1
    <3>2. CASE g # h  BY <1>3, <2>1, <3>2 DEF HubOnce
    <3> QED BY <3>1, <3>2
  <2>6. g \notin late' /\ Hot(g)' => slot'[origin].doing = g /\ MeshWork'
    <3> SUFFICES ASSUME g \notin late', Hot(g)' PROVE slot'[origin].doing = g /\ MeshWork'  OBVIOUS
    <3>1. Hot(g) /\ g \notin late  BY <1>9
    <3>2. h # origin  BY <3>1
    <3>3. slot'[origin] = slot[origin]  BY <1>1, <3>2
    <3> QED BY <2>1, <3>1, <3>3 DEF HubOnce, MeshWork
  <2> QED BY <2>3, <2>4, <2>5, <2>6 DEF HubOnce
<1>11. ASSUME NEW m \in Frames, m.cmd = "done", In(wire', m) PROVE Reported(m)'
  <2>1. Reported(m) /\ m.hub \in Hubs  BY <1>11, FrameParts DEF ElInv, Once, WireOK
  <2>2. m.status # "ok" /\ m.hub # origin => m.hub # h /\ ~Hot(m.hub) /\ Given(m.hub)  BY <2>1 DEF Reported
  <2>3. m.status # "ok" /\ m.hub # origin => ~Hot(m.hub)' /\ Given(m.hub)'  BY <1>3, <1>9, <2>1, <2>2
  <2> QED BY <2>1, <2>3 DEF Reported
<1>12. Answered'
  <2>1. CASE answers = <<>>  BY <2>1 DEF Answered
  <2>2. CASE answers # <<>>
    <3>1. Len(answers) = 1 /\ ~slot[origin].active /\ AnswerHolds(answers[1])  BY <2>2 DEF ElInv, Once, Answered
    <3>2. h # origin /\ slot'[origin] = slot[origin]  BY <1>1, <3>1
    <3>3. ASSUME NobodyActs PROVE NobodyActs'
      <4>1. h \in late  BY <3>2, <3>3 DEF NobodyActs
      <4>2. ASSUME NEW g \in Hubs \ {origin}, g \notin late' PROVE ~Hot(g)'
        <5>1. g # h /\ g \notin late  BY <4>1, <4>2
        <5> QED BY <1>9, <3>3, <4>2, <5>1 DEF NobodyActs
      <4>3. \A c \in Mine(origin) : ~Danger(c)'  BY <1>1, <1>7, <3>2, <3>3 DEF NobodyActs, Mine
      <4> QED BY <4>2, <4>3 DEF NobodyActs, Mine
    <3>4. AnswerHolds(answers[1])'  BY <3>1, <3>3 DEF AnswerHolds
    <3> QED BY <1>2, <3>1, <3>2, <3>4 DEF Answered
  <2> QED BY <2>1, <2>2
<1>13. Quiet'  BY <1>2 DEF Quiet
<1> QED BY <1>6, <1>8, <1>10, <1>11, <1>12, <1>13 DEF ElInv, Once

(* try_local and local_exhausted, under the same conditions.               *)
LEMMA TryLocal ==
    ASSUME ElInv, origin' = origin, seen' = seen, UNCHANGED <<links, up, acted, drops>>,
           late \subseteq late', late' \subseteq Helpers \cup Hubs, frombot' \in [Helpers -> Seq(FromABot)],
           \A c \in Helpers : \A x : Has(frombot'[c], x) => Has(frombot[c], x),
           NEW h \in Hubs, slot[h].active, NEW s \in Slots, s.active, s.hubs = slot[h].hubs, s.doing = None,
           DOMAIN s.bots = DOMAIN slot[h].bots,
           \A b \in DOMAIN slot[h].bots : slot[h].bots[b] = "t" => s.bots[b] = "t",
           NEW w, WireOK(w), try_local(h, s, w),
           h # origin => ~In(w, Do(h)) /\ Given(h) /\ Hot(h),
           \A c \in Mine(h) : c \in late' \/ ~Danger(c),
           h = origin => \A g \in Hubs \ {origin} : g \notin late' => ~Hot(g)
    PROVE  ElInv'
<1>1. /\ DOMAIN s.bots \subseteq Helpers /\ s.bots \in [DOMAIN s.bots -> BotSt]
      /\ DOMAIN s.bots \subseteq Mine(h) /\ w \in Wires /\ h \in seen
  BY SlotParts, ActiveSeen DEF ElInv, Once, SlotOnce, WireOK
<1>2. origin \in seen  BY <1>1, SomeSeen
<1>3. ASSUME NEW b \in Ready(s) \cap up, NEW gone \in SUBSET (Ready(s) \ up),
             slot' = [slot EXCEPT ![h] = Handed(s, b, gone)],
             tobot' = [tobot EXCEPT ![b] = Append(@, "do")], wire' = w, answers' = answers
      PROVE  ElInv'
  <2> DEFINE f == [c \in DOMAIN s.bots |-> IF c = b \/ c \in gone THEN "t" ELSE s.bots[c]]
             t == Handed(s, b, gone)
  <2>1. b \in DOMAIN s.bots /\ s.bots[b] = "y" /\ b \in Mine(h) /\ b \in Helpers /\ At[b] = h  BY <1>1 DEF Ready, Mine
  <2>2. f \in [DOMAIN s.bots -> BotSt] /\ f[b] = "t" /\ \A c \in DOMAIN s.bots : s.bots[c] = "t" => f[c] = "t"
    BY <1>1, <2>1 DEF BotSt
  <2>3. f \in Partial(Helpers, BotSt) /\ DOMAIN f = DOMAIN s.bots  BY <1>1, <2>2, PartialIn
  <2>4. t = [s EXCEPT !.doing = b, !.phase = "LocalDo", !.bots = f]  BY DEF Handed
  <2> HIDE DEF f, t
  <2>5. t \in Slots /\ t.doing = b /\ t.phase = "LocalDo" /\ t.bots = f /\ t.hubs = s.hubs
    BY <2>1, <2>3, <2>4 DEF Slots, Phase
  <2>6. slot' \in [Hubs -> Slots] /\ slot'[h] = t /\ \A k \in Hubs \ {h} : slot'[k] = slot[k]
    BY <1>3, <2>5, PutSlot DEF t
  <2>7. tobot[b] \in Seq(ToBot) /\ "do" \in ToBot  BY <2>1 DEF ElInv, ShapesOK, ToBot
  <2>8. Append(tobot[b], "do") \in Seq(ToBot)  BY <2>7
  <2>9. tobot' \in [Helpers -> Seq(ToBot)] /\ tobot'[b] = Append(tobot[b], "do") /\ \A c \in Helpers \ {b} : tobot'[c] = tobot[c]
    BY <1>3, <2>1, <2>8 DEF ElInv, ShapesOK
  <2>10. ShapesOK'  BY <1>1, <1>3, <2>6, <2>9 DEF ElInv, ShapesOK
  <2>11. ~HadIt(b)
    <3>1. BotOnce(b)  BY <2>1 DEF ElInv, Once
    <3> QED BY <2>1, <3>1 DEF BotOnce
  <2>12. DOMAIN slot'[h].bots = DOMAIN slot[h].bots /\ b \in DOMAIN slot[h].bots /\ slot'[h].bots[b] = "t"
         /\ \A c \in DOMAIN slot[h].bots : slot[h].bots[c] = "t" => slot'[h].bots[c] = "t"
    BY <2>1, <2>2, <2>3, <2>5, <2>6
  <2>13. slot'[h].doing = b /\ slot'[h].phase = "LocalDo" /\ slot'[h].hubs = slot[h].hubs  BY <2>5, <2>6
  <2>14. WireOK(wire') /\ (h # origin => ~In(wire', Do(h)))  BY <1>3
  <2> QED BY <1>3, <2>1, <2>6, <2>9, <2>10, <2>11, <2>12, <2>13, <2>14, HandsOver
<1> DEFINE f == [c \in DOMAIN s.bots |-> IF s.bots[c] = "y" THEN "t" ELSE s.bots[c]]
           s2 == [s EXCEPT !.bots = f]
<1>4. f \in [DOMAIN s.bots -> BotSt] /\ \A c \in DOMAIN s.bots : s.bots[c] = "t" => f[c] = "t"  BY <1>1 DEF BotSt
<1>5. f \in Partial(Helpers, BotSt) /\ DOMAIN f = DOMAIN s.bots  BY <1>1, <1>4, PartialIn
<1> HIDE DEF f
<1>6. s2 \in Slots /\ s2.active /\ s2.doing = None /\ s2.hubs = s.hubs /\ s2.bots = f /\ s2.from = s.from  BY <1>5 DEF Slots
<1> HIDE DEF s2
<1>7. ASSUME local_exhausted(h, s2, w), tobot' = tobot PROVE ElInv'
  <2>1. \A c \in Helpers : CalmBot(c)  BY <1>7, ReadsCalm
  <2>2. \A c \in Mine(h) : ~Danger(c)'  BY <2>1 DEF CalmBot, Danger, Mine
  <2>3. DOMAIN s2.bots = DOMAIN slot[h].bots /\ \A b \in DOMAIN slot[h].bots : slot[h].bots[b] = "t" => s2.bots[b] = "t"
    BY <1>4, <1>5, <1>6
  <2>4. CASE h # origin
    <3> DEFINE t == [s2 EXCEPT !.phase = "Acked"]
               m == [cmd |-> "done", hub |-> h, bot |-> None, status |-> "fail"]
    <3>1. slot' = [slot EXCEPT ![h] = t] /\ wire' = SendTo(w, h, s2.from, m) /\ answers' = answers
      BY <1>7, <2>4 DEF local_exhausted
    <3>2. t \in Slots /\ t.phase = "Acked" /\ t.doing = None /\ t.bots = s2.bots /\ t.hubs = slot[h].hubs
      BY <1>6 DEF Slots, Phase
    <3>3. m \in Frames /\ m.cmd = "done" /\ m.hub = h /\ m.status = "fail"  BY DEF Frames, Statuses
    <3> HIDE DEF t, m
    <3>4. slot' \in [Hubs -> Slots] /\ slot'[h] = t /\ \A k \in Hubs \ {h} : slot'[k] = slot[k]  BY <3>1, <3>2, PutSlot
    <3>5. CalmSlot(h)  BY <2>2, <2>3, <2>4, <3>2, <3>4 DEF CalmSlot
    <3>6. \A k \in Hubs : CalmSlot(k)  BY <3>4, <3>5, SlotStill
    <3>7. Added(w, wire', h, IF s2.from \in Peers(h) THEN {s2.from} ELSE {}, m)  BY <1>1, <3>1, <3>3, SendAdds
    <3>8. ~In(wire', Do(h))
      <4> DEFINE T == IF s2.from \in Peers(h) THEN {s2.from} ELSE {}
      <4>1. Added(w, wire', h, T, m)   BY <3>7
      <4> HIDE DEF T
      <4>2. In(wire', Do(h)) => In(w, Do(h)) \/ Do(h) = m  BY <1>1, <3>3, <4>1, AddedWire
      <4>3. Do(h) # m  BY <3>3 DEF Do
      <4> QED BY <2>4, <4>2, <4>3
    <3>9. Reported(m)'
      <4>1. slot'[origin] = slot[origin]  BY <2>4, <3>4, ElectAssumption DEF ElInv, ShapesOK
      <4>2. Given(h)'  BY <2>4, <4>1 DEF Given
      <4>3. ~In(wire, Do(h))'  BY <3>8 DEF Do
      <4>4. ~Hot(h)'  BY <2>2, <3>2, <3>4, <4>3 DEF Hot, Mine
      <4> QED BY <3>3, <4>2, <4>4 DEF Reported
    <3>10. wire' \in Wires /\ CalmWire  BY <3>3, <3>7, <3>9, WireAdds
    <3>11. ShapesOK'  BY <1>7, <3>1, <3>4, <3>10 DEF ElInv, ShapesOK
    <3>12. CalmSeen  BY <1>1, <1>2, <3>4, SeenStill
    <3> QED BY <2>1, <3>1, <3>6, <3>10, <3>11, <3>12, CalmKeeps DEF Calm
  <2>5. CASE h = origin /\ try_hub(s2, w)  BY <1>6, <1>7, <2>3, <2>5, TryHub
  <2>6. ASSUME h = origin, slot' = [slot EXCEPT ![h] = [s2 EXCEPT !.phase = "MeshWait"]],
               wire' = Flood(w, h, None, [cmd |-> "fwd"]), answers' = answers
        PROVE  ElInv'
    <3> DEFINE t == [s2 EXCEPT !.phase = "MeshWait"]
               m == [cmd |-> "fwd"]
    <3>1. t \in Slots /\ t.phase = "MeshWait" /\ t.bots = s2.bots /\ t.hubs = slot[h].hubs  BY <1>6 DEF Slots, Phase
    <3>2. m \in Frames /\ m.cmd = "fwd"  BY DEF Frames
    <3>3. slot' = [slot EXCEPT ![h] = t] /\ wire' = Flood(w, h, None, m)  BY <2>6
    <3> HIDE DEF t, m
    <3>4. slot' \in [Hubs -> Slots] /\ slot'[h] = t /\ \A k \in Hubs \ {h} : slot'[k] = slot[k]  BY <3>1, <3>3, PutSlot
    <3>5. Added(w, wire', h, Peers(h) \ {None}, m)  BY <1>1, <3>2, <3>3, FloodAdds
    <3>6. wire' \in Wires  BY <3>5 DEF Added
    <3>7. (\A k : In(wire', k) => In(w, k) \/ k = m) /\ \A k : Single(w, k) /\ k # m => Single(wire', k)
      BY <1>1, <3>2, <3>5, AddedWire
    <3>8. \A g : Do(g) # m  BY <3>2 DEF Do
    <3>9. \A g \in Hubs \ {origin} : Single(wire', Do(g)) /\ (In(wire', Do(g)) => In(wire, Do(g)))  BY <3>7, <3>8 DEF WireOK
    <3>10. \A k \in Frames : k.cmd = "done" /\ In(wire', k) => In(wire, k)  BY <3>2, <3>7 DEF WireOK
    <3>11. ShapesOK'  BY <1>7, <2>6, <3>4, <3>6 DEF ElInv, ShapesOK
    <3>12. /\ slot'[origin].phase = "MeshWait" /\ DOMAIN slot'[origin].bots = DOMAIN slot[origin].bots
           /\ \A b \in DOMAIN slot[origin].bots : slot[origin].bots[b] = "t" => slot'[origin].bots[b] = "t"
           /\ slot'[origin].hubs = slot[origin].hubs /\ \A k \in Hubs \ {origin} : slot'[k] = slot[k]
      BY <2>3, <2>6, <3>1, <3>4
    <3> QED BY <1>7, <2>6, <3>9, <3>10, <3>11, <3>12, OriginMoves
  <2> QED BY <1>7, <2>4, <2>5, <2>6 DEF local_exhausted
<1>8. CASE /\ Ready(s) \cap up = {}
           /\ local_exhausted(h, [s EXCEPT !.bots = [c \in DOMAIN @ |-> IF @[c] = "y" THEN "t" ELSE @[c]]], w)
           /\ UNCHANGED tobot
  <2>1. [s EXCEPT !.bots = [c \in DOMAIN @ |-> IF @[c] = "y" THEN "t" ELSE @[c]]] = s2  BY DEF s2, f
  <2> QED BY <1>7, <1>8, <2>1
<1> QED BY <1>3, <1>8 DEF try_local

-----------------------------------------------------------------------------
(* Reports, the frame that hands over, and the waits.                      *)

(* A hub at work: whoever of its bots can act is the one it names.         *)
LEMMA AtHand ==
    ASSUME ElInv, NEW h \in Hubs, slot[h].active, slot[h].phase = "LocalDo"
    PROVE  /\ h # origin => ~In(wire, Do(h)) /\ Given(h) /\ Hot(h)
           /\ h = origin => \A g \in Hubs \ {origin} : g \notin late => ~Hot(g)
           /\ \A c \in Mine(h) : Danger(c) => c = slot[h].doing
           /\ slot[h].doing \in Helpers \cup Hubs
<1>1. slot[h].doing # None  BY DEF ElInv, Once, SlotOnce
<1>2. h # origin => ~In(wire, Do(h)) /\ Given(h) /\ Hot(h)  BY <1>1 DEF ElInv, Once, HubOnce, Hot
<1>3. h = origin => \A g \in Hubs \ {origin} : g \notin late => ~Hot(g)  BY DEF ElInv, Once, HubOnce, MeshWork
<1>4. \A c \in Mine(h) : Danger(c) => c = slot[h].doing  BY DEF ElInv, Once, BotOnce, Mine
<1>5. slot[h] \in Slots  BY DEF ElInv, ShapesOK
<1>6. slot[h].doing \in Helpers \cup Hubs  BY <1>1, <1>5, SlotParts
<1> QED BY <1>2, <1>3, <1>4, <1>6

(* A bot that reports that it did not can no longer act.                   *)
LEMMA ReportsFailure ==
    ASSUME ElInv, NEW b \in Helpers, NEW status \in {"fail", "bitch"}, Has(frombot[b], status)
    PROVE  ~Danger(b)
<1>1. QueuesOK(b) /\ StatusIn(b)  BY DEF ElInv, Once, BotOnce, StatusIn, Statuses
<1> QED BY <1>1 DEF QueuesOK, Danger

(* A slot that names nobody.                                               *)
LEMMA NothingDoing ==
    ASSUME NEW s \in Slots
    PROVE  LET t == [s EXCEPT !.doing = None]
           IN  t \in Slots /\ t.doing = None /\ t.active = s.active /\ t.phase = s.phase /\ t.hubs = s.hubs /\ t.bots = s.bots
  BY DEF Slots

(* process_done: a failure goes on to the next bot, the rest ends it.      *)
LEMMA DoneKeeps ==
    ASSUME ElInv, origin' = origin, NEW b \in Helpers, NEW status \in Statuses, process_done(b, status) PROVE ElInv'
<1> DEFINE h == At[b]
           s == slot[h]
<1>1. h \in Hubs /\ s \in Slots /\ b \in Mine(h)  BY ElectAssumption DEF ElInv, ShapesOK, Mine
<1>2. FromBot(b, h, status)  BY DEF process_done
<1>3. /\ frombot' \in [Helpers -> Seq(FromABot)] /\ Has(frombot[b], status)
      /\ \A c \in Helpers : \A x : Has(frombot'[c], x) => Has(frombot[c], x)
      /\ UNCHANGED <<seen, links, up, acted, drops>> /\ late' = late
  BY <1>2, Reads DEF FromBot
<1>4. late' \subseteq Helpers \cup Hubs  BY <1>3 DEF ElInv, ShapesOK
<1>5. CASE ~Reports(s, b)
  <2>1. UNCHANGED <<slot, wire, tobot, answers>>  BY <1>5 DEF process_done
  <2>2. ShapesOK'  BY <1>3, <2>1 DEF ElInv, ShapesOK
  <2>3. CalmWire /\ CalmSeen /\ (\A k \in Hubs : CalmSlot(k)) /\ \A c \in Helpers : CalmBot(c)
    BY <1>3, <2>1, WireStill, SeenStill, SlotStill, ReadsCalm
  <2> QED BY <1>3, <2>1, <2>2, <2>3, CalmKeeps DEF Calm
<1>6. CASE Reports(s, b) /\ status = "fail"
  <2> DEFINE t == [s EXCEPT !.doing = None]
  <2>1. try_local(h, t, wire)  BY <1>6 DEF process_done
  <2>2. slot[h].active /\ slot[h].phase = "LocalDo" /\ slot[h].doing = b  BY <1>6 DEF Reports
  <2>3. /\ h # origin => ~In(wire, Do(h)) /\ Given(h) /\ Hot(h)
        /\ h = origin => \A g \in Hubs \ {origin} : g \notin late => ~Hot(g)
        /\ \A c \in Mine(h) : ~Danger(c)
    BY <1>1, <1>3, <1>6, <2>2, AtHand, ReportsFailure
  <2>4. t \in Slots /\ t.doing = None /\ t.active /\ t.hubs = slot[h].hubs /\ t.bots = slot[h].bots
    BY <1>1, <2>2, NothingDoing
  <2> HIDE DEF t, s, h
  <2>5. WireOK(wire)  BY WireIsOK
  <2> QED BY <1>1, <1>3, <1>4, <2>1, <2>2, <2>3, <2>4, <2>5, TryLocal
<1>7. CASE Reports(s, b) /\ status # "fail"
  <2>1. tobot' = tobot /\ slot[h].active /\ slot[h].phase = "LocalDo" /\ slot[h].doing = b  BY <1>7 DEF Reports, process_done
  <2>2. /\ h # origin => ~In(wire, Do(h)) /\ Given(h) /\ Hot(h)
        /\ h = origin => \A g \in Hubs \ {origin} : g \notin late => ~Hot(g)
        /\ \A c \in Mine(h) : Danger(c) => c = b
    BY <1>1, <2>1, AtHand
  <2>3. status = "ok" => b \in acted
    <3>1. QueuesOK(b)  BY DEF ElInv, Once, BotOnce
    <3> QED BY <1>3, <3>1 DEF QueuesOK
  <2>4. status # "ok" => \A c \in Mine(h) : ~Danger(c)
    <3> SUFFICES ASSUME status # "ok" PROVE \A c \in Mine(h) : ~Danger(c)  OBVIOUS
    <3>1. status = "bitch"  BY <1>7 DEF Statuses
    <3> QED BY <1>3, <2>2, <3>1, ReportsFailure
  <2>5. \A c \in Helpers : CalmBot(c)  BY <1>3, <2>1, ReadsCalm
  <2>6. h \in seen  BY <1>1, <2>1, ActiveSeen
  <2>7. origin \in seen  BY <2>6, SomeSeen
  <2>8. CASE h = origin
    <3>1. finish(origin, status, b) /\ wire' = wire  BY <1>7, <2>8 DEF process_done
    <3> DEFINE a == [status |-> status, by |-> b]
    <3>2. /\ slot' \in [Hubs -> Slots] /\ answers' \in Seq(AnAnswer) /\ answers' = <<a>>
          /\ ~slot'[origin].active /\ a \in AnAnswer /\ \A k \in Hubs : CalmSlot(k)
          /\ \A k \in Hubs : k \notin seen => slot'[k] = slot[k]
      BY <2>1, <2>8, <3>1, Finishes
    <3>3. a.status = status /\ a.by = b  OBVIOUS
    <3>4. AnswerHolds(a)  BY <2>2, <2>3, <2>4, <2>8, <3>3 DEF AnswerHolds, NobodyActs, Statuses
    <3> HIDE DEF a
    <3>5. NewAnswer  BY <2>7, <3>2, <3>4 DEF NewAnswer
    <3>6. ShapesOK'  BY <1>3, <2>1, <3>1, <3>2 DEF ElInv, ShapesOK
    <3>7. CalmWire /\ CalmSeen  BY <1>3, <3>1, <3>2, WireStill, SeenStill
    <3> QED BY <1>3, <2>5, <3>2, <3>5, <3>6, <3>7, CalmKeeps DEF Calm
  <2>9. CASE h # origin
    <3> DEFINE t == [s EXCEPT !.phase = "Acked"]
               m == [cmd |-> "done", hub |-> h, bot |-> b, status |-> status]
    <3>1. slot' = [slot EXCEPT ![h] = t] /\ wire' = SendTo(wire, h, s.from, m) /\ answers' = answers
      BY <1>1, <1>7, <2>9 DEF process_done, ElInv, ShapesOK
    <3>2. t \in Slots /\ t.phase = "Acked" /\ t.doing = slot[h].doing /\ t.active = slot[h].active /\ t.bots = slot[h].bots /\ t.hubs = slot[h].hubs
      BY <1>1 DEF Slots, Phase
    <3>3. m \in Frames /\ m.cmd = "done" /\ m.hub = h /\ m.status = status /\ m.bot = b  BY <1>1 DEF Frames
    <3> HIDE DEF t, m, h, s
    <3>4. slot' \in [Hubs -> Slots] /\ slot'[h] = t /\ \A k \in Hubs \ {h} : slot'[k] = slot[k]  BY <1>1, <3>1, <3>2, PutSlot
    <3>5. CalmSlot(h)  BY <2>1, <2>9, <3>2, <3>4 DEF CalmSlot
    <3>6. \A k \in Hubs : CalmSlot(k)  BY <3>4, <3>5, SlotStill
    <3> DEFINE T == IF s.from \in Peers(h) THEN {s.from} ELSE {}
    <3>7. Added(wire, wire', h, T, m) /\ wire \in Wires  BY <1>1, <3>1, <3>3, SendAdds DEF ElInv, ShapesOK
    <3> HIDE DEF T
    <3>8. ~In(wire', Do(h))
      <4>1. In(wire', Do(h)) => In(wire, Do(h)) \/ Do(h) = m  BY <1>1, <3>3, <3>7, AddedWire
      <4>2. Do(h) # m  BY <3>3 DEF Do
      <4> QED BY <2>2, <2>9, <4>1, <4>2
    <3>9. Reported(m)'
      <4>1. slot'[origin] = slot[origin]  BY <2>9, <3>4, ElectAssumption DEF ElInv, ShapesOK
      <4>2. Given(h)'  BY <2>2, <2>9, <4>1 DEF Given
      <4>3. ~In(wire, Do(h))'  BY <3>8 DEF Do
      <4>4. status # "ok" => \A c \in Mine(h) : ~Danger(c)'  BY <2>4, <2>5 DEF CalmBot, Mine
      <4>5. status # "ok" => ~Hot(h)'  BY <3>2, <3>4, <4>3, <4>4 DEF Hot, Mine
      <4> QED BY <1>3, <2>3, <3>3, <4>2, <4>5 DEF Reported
    <3>10. WireOK(wire)  BY WireIsOK
    <3>11. wire' \in Wires /\ CalmWire  BY <1>1, <3>3, <3>7, <3>9, <3>10, WireAdds
    <3>12. ShapesOK'  BY <1>3, <2>1, <3>1, <3>4, <3>11 DEF ElInv, ShapesOK
    <3>13. CalmSeen  BY <1>3, <2>6, <2>7, <3>4, SeenStill
    <3> QED BY <1>3, <2>5, <3>1, <3>6, <3>11, <3>12, <3>13, CalmKeeps DEF Calm
  <2> QED BY <2>8, <2>9
<1> QED BY <1>5, <1>6, <1>7

(* A relay passes on the frame that hands over: it is still there once.    *)
LEMMA DoPassed ==
    ASSUME ElInv, origin' = origin, NEW g \in Hubs, NEW h \in Hubs, FromHub(g, h, "do"), NEW v,
           wire' = SendTo(Rest(g, h), h, v, Head(wire[g][h]))
    PROVE  wire' \in Wires /\ CalmWire
<1> DEFINE m == Head(wire[g][h])
           r == Rest(g, h)
           T == IF v \in Peers(h) THEN {v} ELSE {}
<1>1. /\ m \in Frames /\ m.cmd = "do" /\ In(wire, m) /\ WireOK(r)
      /\ \A k \in Hubs \ {origin} : m = Do(k) => ~In(r, Do(k))
  BY HubReads
<1>2. m.hub \in Hubs /\ m = Do(m.hub) /\ r \in Wires  BY <1>1, FrameParts DEF WireOK
<1>3. wire' = SendTo(r, h, v, m)  OBVIOUS
<1> HIDE DEF m, r
<1>4. Added(r, wire', h, T, m)  BY <1>1, <1>2, <1>3, SendAdds
<1> HIDE DEF T
<1>5. wire' \in Wires  BY <1>4 DEF Added
<1>6. (\A k : In(wire', k) => In(r, k) \/ k = m) /\ \A k : Single(r, k) /\ k # m => Single(wire', k)
  BY <1>1, <1>2, <1>4, AddedWire
<1>7. \A k : In(wire', k) => In(wire, k)  BY <1>1, <1>6 DEF WireOK
<1>8. ASSUME NEW k \in Hubs \ {origin} PROVE Single(wire', Do(k))
  <2>1. CASE Do(k) # m  BY <1>1, <1>6, <2>1 DEF WireOK
  <2>2. CASE Do(k) = m
    <3>1. ~In(r, m)  BY <1>1, <2>2
    <3>2. CASE v \in Peers(h)
      <4>1. v \in Hubs /\ Added(r, wire', h, {v}, m)  BY <1>4, <3>2 DEF Peers, T
      <4>2. Single(wire', m)  BY <1>1, <1>2, <3>1, <4>1, SentOnce
      <4> QED BY <2>2, <4>2
    <3>3. CASE v \notin Peers(h)
      <4>1. wire' = r  BY <1>3, <3>3 DEF SendTo
      <4> QED BY <1>1, <4>1 DEF WireOK
    <3> QED BY <3>2, <3>3
  <2> QED BY <2>1, <2>2
<1> QED BY <1>5, <1>7, <1>8, WireLess

(* process_elect_do: dropped, passed on or handed to a bot.                *)
LEMMA DoKeeps ==
    ASSUME ElInv, origin' = origin, NEW g \in Hubs, NEW h \in Hubs, process_elect_do(g, h) PROVE ElInv'
<1> DEFINE m == Head(wire[g][h])
           s == slot[h]
<1>1. FromHub(g, h, "do") /\ seen' = seen /\ s \in Slots  BY DEF process_elect_do, ElInv, ShapesOK
<1>2. /\ m \in Frames /\ m.cmd = "do" /\ In(wire, m) /\ WireOK(Rest(g, h)) /\ origin \in seen
      /\ UNCHANGED <<links, up, frombot, acted, late, drops>>
      /\ \A k \in Hubs \ {origin} : m = Do(k) => ~In(Rest(g, h), Do(k))
  BY <1>1, HubReads
<1>3. m.hub \in Hubs /\ m = Do(m.hub)  BY <1>2, FrameParts
<1>4. CASE UNCHANGED <<slot, tobot, answers>> /\ wire' \in Wires /\ CalmWire
  <2>1. ShapesOK'  BY <1>1, <1>2, <1>4 DEF ElInv, ShapesOK
  <2>2. CalmSeen /\ (\A k \in Hubs : CalmSlot(k)) /\ \A c \in Helpers : CalmBot(c)
    BY <1>1, <1>2, <1>4, SlotStill, BotStill, SeenStill
  <2> QED BY <1>2, <1>4, <2>1, <2>2, CalmKeeps DEF Calm
<1>5. CASE ~s.active \/ h = origin \/ s.from # g
  <2>1. wire' = Rest(g, h) /\ UNCHANGED <<slot, tobot, answers>>  BY <1>5 DEF process_elect_do
  <2>2. wire' \in Wires /\ CalmWire  BY <1>2, <2>1, WireRest
  <2> QED BY <1>4, <2>1, <2>2
<1>6. CASE ~(~s.active \/ h = origin \/ s.from # g) /\ m.hub # h
  <2>1. /\ wire' = IF m.hub \in DOMAIN s.hubs THEN SendTo(Rest(g, h), h, s.hubs[m.hub].via, m) ELSE Rest(g, h)
        /\ UNCHANGED <<slot, tobot, answers>>
    BY <1>6 DEF process_elect_do
  <2>2. CASE m.hub \in DOMAIN s.hubs
    <3>1. wire' \in Wires /\ CalmWire  BY <1>1, <2>1, <2>2, DoPassed
    <3> QED BY <1>4, <2>1, <3>1
  <2>3. CASE m.hub \notin DOMAIN s.hubs
    <3>1. wire' \in Wires /\ CalmWire  BY <1>2, <2>1, <2>3, WireRest
    <3> QED BY <1>4, <2>1, <3>1
  <2> QED BY <2>2, <2>3
<1>7. CASE ~(~s.active \/ h = origin \/ s.from # g) /\ m.hub = h
  <2>1. try_local(h, s, Rest(g, h)) /\ h # origin /\ s.active  BY <1>7 DEF process_elect_do
  <2>2. In(wire, Do(h)) /\ ~In(Rest(g, h), Do(h))  BY <1>2, <1>3, <1>7, <2>1
  <2>3. s.doing = None /\ Given(h) /\ Hot(h)  BY <2>1, <2>2 DEF ElInv, Once, HubOnce, Hot
  <2>4. \A c \in Mine(h) : ~Danger(c)
    <3> SUFFICES ASSUME NEW c \in Mine(h), Danger(c) PROVE FALSE  OBVIOUS
    <3>1. c \in Helpers /\ At[c] = h /\ BotOnce(c)  BY DEF Mine, ElInv, Once
    <3> QED BY <2>3, <3>1, ElectAssumption DEF BotOnce
  <2>5. late' \subseteq Helpers \cup Hubs /\ frombot' \in [Helpers -> Seq(FromABot)]  BY <1>2 DEF ElInv, ShapesOK
  <2>6. \A c \in Helpers : \A x : Has(frombot'[c], x) => Has(frombot[c], x)  BY <1>2
  <2> DEFINE r == Rest(g, h)
  <2>7. WireOK(r) /\ try_local(h, s, r) /\ ~In(r, Do(h))  BY <1>2, <2>1, <2>2
  <2> HIDE DEF m, r
  <2> QED BY <1>1, <1>2, <2>1, <2>3, <2>4, <2>5, <2>6, <2>7, TryLocal
<1> QED BY <1>5, <1>6, <1>7

(* process_elect_done: passed on, or the origin goes on or ends it.        *)
LEMMA HubDoneKeeps ==
    ASSUME ElInv, origin' = origin, NEW g \in Hubs, NEW h \in Hubs, process_elect_done(g, h) PROVE ElInv'
<1> DEFINE m == Head(wire[g][h])
           s == slot[h]
           r == Rest(g, h)
<1>1. FromHub(g, h, "done") /\ UNCHANGED <<seen, tobot>> /\ s \in Slots  BY DEF process_elect_done, ElInv, ShapesOK
<1>2. /\ m \in Frames /\ m.cmd = "done" /\ In(wire, m) /\ WireOK(r) /\ origin \in seen
      /\ UNCHANGED <<links, up, frombot, acted, late, drops>>
  BY <1>1, HubReads
<1>3. m.hub \in Hubs /\ m.bot \in Helpers \cup {None} /\ m.status \in Statuses /\ Reported(m)
  BY <1>2, FrameParts DEF ElInv, Once
<1>4. \A c \in Helpers : CalmBot(c)  BY <1>1, <1>2, BotStill
<1>5. CASE UNCHANGED <<slot, answers>> /\ wire' \in Wires /\ CalmWire
  <2>1. ShapesOK'  BY <1>1, <1>2, <1>5 DEF ElInv, ShapesOK
  <2>2. CalmSeen /\ (\A k \in Hubs : CalmSlot(k))  BY <1>1, <1>2, <1>5, SlotStill, SeenStill
  <2> QED BY <1>2, <1>4, <1>5, <2>1, <2>2, CalmKeeps DEF Calm
<1>6. CASE h # origin
  <2>1. UNCHANGED <<slot, answers>> /\ wire' = IF s.active THEN SendTo(r, h, s.from, m) ELSE r
    BY <1>6 DEF process_elect_done
  <2>2. wire' \in Wires /\ CalmWire
    <3>1. CASE s.active
      <4>1. Added(r, wire', h, IF s.from \in Peers(h) THEN {s.from} ELSE {}, m)  BY <1>2, <2>1, <3>1, SendAdds DEF WireOK
      <4> HIDE DEF m, r
      <4> QED BY <1>2, <4>1, WireAdds
    <3>2. CASE ~s.active  BY <1>2, <2>1, <3>2, WireRest
    <3> QED BY <3>1, <3>2
  <2> QED BY <1>5, <2>1, <2>2
<1>7. CASE h = origin /\ ~AtWork(s, m)
  <2>1. wire' = r /\ UNCHANGED <<slot, answers>>  BY <1>7 DEF process_elect_done
  <2>2. wire' \in Wires /\ CalmWire  BY <1>2, <2>1, WireRest
  <2> QED BY <1>5, <2>1, <2>2
<1>8. ASSUME h = origin, AtWork(s, m), m.status # "ok" PROVE NobodyActs
  <2>1. slot[origin].active /\ slot[origin].phase = "MeshDo" /\ slot[origin].doing = m.hub  BY <1>8 DEF AtWork
  <2>2. ASSUME NEW k \in Hubs \ {origin}, k \notin late, Hot(k) PROVE FALSE
    <3>1. HubOnce(k)  BY DEF ElInv, Once
    <3>2. k = m.hub  BY <2>1, <2>2, <3>1 DEF HubOnce
    <3> QED BY <1>3, <1>8, <2>2, <3>2 DEF Reported
  <2>3. ASSUME NEW c \in Mine(origin), Danger(c) PROVE FALSE
    <3>1. BotOnce(c) /\ At[c] = origin  BY DEF Mine, ElInv, Once
    <3> QED BY <2>1, <2>3, <3>1 DEF BotOnce
  <2> QED BY <2>2, <2>3 DEF NobodyActs
<1>9. CASE h = origin /\ AtWork(s, m) /\ m.status = "fail"
  <2>1. try_hub(s, r)  BY <1>9 DEF process_elect_done
  <2>2. slot[origin].active /\ s.hubs = slot[origin].hubs /\ s.bots = slot[origin].bots  BY <1>9 DEF AtWork
  <2>3. NobodyActs  BY <1>8, <1>9
  <2>4. late' \subseteq Helpers \cup Hubs /\ frombot' \in [Helpers -> Seq(FromABot)]  BY <1>2 DEF ElInv, ShapesOK
  <2>5. \A c \in Helpers : \A x : Has(frombot'[c], x) => Has(frombot[c], x)  BY <1>2
  <2> HIDE DEF r, s, m
  <2> QED BY <1>1, <1>2, <2>1, <2>2, <2>3, <2>4, <2>5, TryHub DEF NobodyActs
<1>10. CASE h = origin /\ AtWork(s, m) /\ m.status # "fail"
  <2>1. finish(origin, m.status, m.bot) /\ wire' = r  BY <1>10 DEF process_elect_done
  <2>2. slot[origin].active  BY <1>10 DEF AtWork
  <2> DEFINE a == [status |-> m.status, by |-> m.bot]
  <2>3. /\ slot' \in [Hubs -> Slots] /\ answers' \in Seq(AnAnswer) /\ answers' = <<a>>
        /\ ~slot'[origin].active /\ a \in AnAnswer /\ \A k \in Hubs : CalmSlot(k)
        /\ \A k \in Hubs : k \notin seen => slot'[k] = slot[k]
    <3> HIDE DEF m
    <3> QED BY <1>3, <2>1, <2>2, Finishes
  <2>4. a.status = m.status /\ a.by = m.bot  OBVIOUS
  <2>5. AnswerHolds(a)  BY <1>3, <1>8, <1>10, <2>4 DEF AnswerHolds, Reported
  <2> HIDE DEF a
  <2>6. NewAnswer  BY <1>2, <2>3, <2>5 DEF NewAnswer
  <2>7. wire' \in Wires /\ CalmWire  BY <1>2, <2>1, WireRest
  <2>8. ShapesOK'  BY <1>1, <1>2, <2>3, <2>7 DEF ElInv, ShapesOK
  <2>9. CalmSeen  BY <1>1, <1>2, <2>3, SeenStill
  <2> QED BY <1>2, <1>4, <2>3, <2>6, <2>7, <2>8, <2>9, CalmKeeps DEF Calm
<1> QED BY <1>6, <1>7, <1>9, <1>10

(* tick: the bots that are still silent are counted as a no.               *)
LEMMA NoAnswerOK ==
    ASSUME NEW s \in Slots
    PROVE  /\ NoAnswer(s) \in Slots /\ NoAnswer(s).active = s.active /\ NoAnswer(s).doing = s.doing
           /\ NoAnswer(s).hubs = s.hubs /\ DOMAIN NoAnswer(s).bots = DOMAIN s.bots
           /\ \A b \in DOMAIN s.bots : s.bots[b] = "t" => NoAnswer(s).bots[b] = "t"
<1> DEFINE f == [b \in DOMAIN s.bots |-> IF s.bots[b] = "a" THEN "n" ELSE s.bots[b]]
<1>1. DOMAIN s.bots \subseteq Helpers /\ s.bots \in [DOMAIN s.bots -> BotSt]  BY SlotParts
<1>2. f \in [DOMAIN s.bots -> BotSt] /\ \A b \in DOMAIN s.bots : s.bots[b] = "t" => f[b] = "t"  BY <1>1 DEF BotSt
<1>3. f \in Partial(Helpers, BotSt) /\ DOMAIN f = DOMAIN s.bots  BY <1>1, <1>2, PartialIn
<1>4. NoAnswer(s) = [s EXCEPT !.bots = f]  BY DEF NoAnswer
<1> HIDE DEF f
<1>5. NoAnswer(s) \in Slots /\ NoAnswer(s).active = s.active /\ NoAnswer(s).doing = s.doing
      /\ NoAnswer(s).hubs = s.hubs /\ NoAnswer(s).bots = f
  BY <1>3, <1>4 DEF Slots
<1> QED BY <1>2, <1>3, <1>5

(* The number of ready bots.                                               *)
LEMMA CountIsNat == ASSUME NEW s \in Slots, NEW st PROVE Count(s, st) \in Nat
<1> DEFINE C == {b \in DOMAIN s.bots : s.bots[b] = st}
<1>1. C \subseteq Helpers  BY SlotParts
<1>2. IsFiniteSet(C)  BY <1>1, FS_Subset, ElectAssumption
<1> QED BY <1>2, FS_CardinalityType DEF Count

(* tick: a wait ends, and who was waited for is given up on.               *)
LEMMA TickKeeps == ASSUME ElInv, origin' = origin, NEW h \in Hubs, tick(h) PROVE ElInv'
<1> DEFINE s == slot[h]
<1>1. /\ s.active /\ s \in Slots /\ UNCHANGED <<seen, links, up, frombot, acted, drops>>
      /\ frombot' \in [Helpers -> Seq(FromABot)] /\ late \subseteq Helpers \cup Hubs
      /\ \A c \in Helpers : \A x : Has(frombot'[c], x) => Has(frombot[c], x)
  BY DEF tick, ElInv, ShapesOK
<1>2. h \in seen  BY <1>1, ActiveSeen
<1>3. origin \in seen  BY <1>2, SomeSeen
<1>4. WireOK(wire)  BY WireIsOK
<1>5. CASE s.phase = "Probe" /\ h # origin
  <2> DEFINE t == [NoAnswer(s) EXCEPT !.phase = "Acked"]
             m == [cmd |-> "ack", hub |-> h, ready |-> Count(s, "y")]
  <2>1. slot' = [slot EXCEPT ![h] = t] /\ wire' = SendTo(wire, h, s.from, m) /\ UNCHANGED <<tobot, answers, late>>
    BY <1>5 DEF tick
  <2>2. t \in Slots /\ t.phase = "Acked" /\ t.active = s.active /\ t.doing = s.doing /\ t.hubs = s.hubs /\ DOMAIN t.bots = DOMAIN s.bots
        /\ \A b \in DOMAIN s.bots : s.bots[b] = "t" => t.bots[b] = "t"
    <3> DEFINE n == NoAnswer(s)
    <3>1. n \in Slots /\ n.active = s.active /\ n.doing = s.doing /\ n.hubs = s.hubs /\ DOMAIN n.bots = DOMAIN s.bots
          /\ \A b \in DOMAIN s.bots : s.bots[b] = "t" => n.bots[b] = "t"
      BY <1>1, NoAnswerOK
    <3> HIDE DEF n, s
    <3>2. [n EXCEPT !.phase = "Acked"] \in Slots /\ [n EXCEPT !.phase = "Acked"].phase = "Acked"
          /\ [n EXCEPT !.phase = "Acked"].active = n.active /\ [n EXCEPT !.phase = "Acked"].doing = n.doing
          /\ [n EXCEPT !.phase = "Acked"].hubs = n.hubs /\ [n EXCEPT !.phase = "Acked"].bots = n.bots
      BY <3>1 DEF Slots, Phase
    <3>3. t = [n EXCEPT !.phase = "Acked"]  BY DEF n
    <3> QED BY <3>1, <3>2, <3>3
  <2>3. m \in Frames /\ m.cmd = "ack"  BY <1>1, CountIsNat DEF Frames
  <2> HIDE DEF t, m
  <2>4. slot' \in [Hubs -> Slots] /\ slot'[h] = t /\ \A k \in Hubs \ {h} : slot'[k] = slot[k]  BY <2>1, <2>2, PutSlot
  <2>5. CalmSlot(h)  BY <1>1, <1>5, <2>2, <2>4 DEF CalmSlot
  <2>6. \A k \in Hubs : CalmSlot(k)  BY <2>4, <2>5, SlotStill
  <2>7. Added(wire, wire', h, IF s.from \in Peers(h) THEN {s.from} ELSE {}, m)  BY <1>4, <2>1, <2>3, SendAdds DEF WireOK
  <2>8. wire' \in Wires /\ CalmWire  BY <1>4, <2>3, <2>7, WireAdds
  <2>9. ShapesOK'  BY <1>1, <2>1, <2>4, <2>8 DEF ElInv, ShapesOK
  <2>10. CalmSeen /\ \A c \in Helpers : CalmBot(c)  BY <1>1, <1>2, <1>3, <2>1, <2>4, SeenStill, BotStill
  <2> QED BY <1>1, <2>1, <2>6, <2>8, <2>9, <2>10, CalmKeeps DEF Calm
<1>6. ASSUME h = origin, s.phase # "LocalDo" PROVE \A c \in Mine(origin) : ~Danger(c)
  <2> SUFFICES ASSUME NEW c \in Mine(origin), Danger(c) PROVE FALSE  OBVIOUS
  <2>1. BotOnce(c) /\ At[c] = origin  BY DEF Mine, ElInv, Once
  <2> QED BY <1>1, <1>6, <2>1 DEF BotOnce
<1>7. ASSUME h = origin, s.phase # "MeshDo" PROVE \A g \in Hubs \ {origin} : g \notin late => ~Hot(g)
  BY <1>1, <1>7 DEF ElInv, Once, HubOnce, MeshWork
<1>8. CASE s.phase = "Probe" /\ h = origin
  <2> DEFINE n == NoAnswer(s)
  <2>1. try_local(h, n, wire) /\ late' = late  BY <1>8 DEF tick
  <2>2. s.doing = None  BY <1>8 DEF ElInv, Once, SlotOnce
  <2>3. n \in Slots /\ n.active /\ n.doing = None /\ n.hubs = slot[h].hubs /\ DOMAIN n.bots = DOMAIN slot[h].bots
        /\ \A b \in DOMAIN slot[h].bots : slot[h].bots[b] = "t" => n.bots[b] = "t"
    BY <1>1, <2>2, NoAnswerOK
  <2> HIDE DEF n
  <2>4. (\A c \in Mine(h) : ~Danger(c)) /\ \A g \in Hubs \ {origin} : g \notin late => ~Hot(g)  BY <1>6, <1>7, <1>8
  <2> QED BY <1>1, <1>4, <1>8, <2>1, <2>3, <2>4, TryLocal
<1>9. CASE s.phase = "LocalDo"
  <2> DEFINE t == [s EXCEPT !.doing = None]
  <2>1. try_local(h, t, wire) /\ late' = late \cup {s.doing}  BY <1>9 DEF tick
  <2>2. /\ h # origin => ~In(wire, Do(h)) /\ Given(h) /\ Hot(h)
        /\ h = origin => \A g \in Hubs \ {origin} : g \notin late => ~Hot(g)
        /\ \A c \in Mine(h) : Danger(c) => c = s.doing
        /\ s.doing \in Helpers \cup Hubs
    BY <1>1, <1>9, AtHand
  <2>3. t \in Slots /\ t.doing = None /\ t.active /\ t.hubs = slot[h].hubs /\ t.bots = slot[h].bots
    BY <1>1, NothingDoing
  <2>4. late \subseteq late' /\ late' \subseteq Helpers \cup Hubs /\ s.doing \in late'  BY <1>1, <2>1, <2>2
  <2>5. \A c \in Mine(h) : c \in late' \/ ~Danger(c)  BY <2>2, <2>4
  <2>6. h = origin => \A g \in Hubs \ {origin} : g \notin late' => ~Hot(g)  BY <2>2, <2>4
  <2> HIDE DEF t
  <2> QED BY <1>1, <1>4, <2>1, <2>2, <2>3, <2>4, <2>5, <2>6, TryLocal
<1>10. CASE s.phase = "MeshWait"
  <2>1. h = origin  BY <1>1, <1>10 DEF ElInv, Once, SlotOnce
  <2>2. try_hub(s, wire) /\ UNCHANGED <<tobot, late>>  BY <1>10 DEF tick
  <2>3. (\A c \in Mine(origin) : ~Danger(c)) /\ \A g \in Hubs \ {origin} : g \notin late => ~Hot(g)  BY <1>6, <1>7, <1>10, <2>1
  <2> QED BY <1>1, <1>4, <2>1, <2>2, <2>3, TryHub
<1>11. CASE s.phase = "MeshDo"
  <2>1. h = origin /\ s.doing # None  BY <1>1, <1>11 DEF ElInv, Once, SlotOnce
  <2>2. try_hub(s, wire) /\ tobot' = tobot /\ late' = late \cup {s.doing}  BY <1>11 DEF tick
  <2>3. s.doing \in Helpers \cup Hubs  BY <1>1, <2>1, SlotParts
  <2>4. late \subseteq late' /\ late' \subseteq Helpers \cup Hubs /\ s.doing \in late'  BY <1>1, <2>2, <2>3
  <2>5. \A c \in Mine(origin) : ~Danger(c)  BY <1>6, <1>11, <2>1
  <2>6. ASSUME NEW g \in Hubs \ {origin}, g \notin late' PROVE ~Hot(g)
    <3>1. HubOnce(g) /\ g \notin late  BY <2>4, <2>6 DEF ElInv, Once
    <3> QED BY <2>1, <2>4, <2>6, <3>1 DEF HubOnce
  <2> QED BY <1>1, <1>4, <2>1, <2>2, <2>4, <2>5, <2>6, TryHub
<1> QED BY <1>5, <1>8, <1>9, <1>10, <1>11 DEF tick

-----------------------------------------------------------------------------
(* The start, and the theorem.                                             *)

(* NobodyActs can act before the console asks.                                 *)
LEMMA StartKeeps == ASSUME ElInv, origin' = origin, start PROVE ElInv'
<1> DEFINE t == ProbeSlot(origin, NoSlot)
<1>1. origin \in Hubs /\ origin \notin seen /\ seen' = seen \cup {origin} /\ slot' = [slot EXCEPT ![origin] = t]
      /\ tobot' = Probes(origin) /\ UNCHANGED <<links, up, wire, frombot, acted, late, answers, drops>>
  BY ElectAssumption DEF start, ElInv, ShapesOK
<1>2. t \in Slots /\ t.phase = "Probe" /\ t.doing = None /\ DOMAIN t.bots \subseteq Mine(origin)
  BY <1>1, FreeSlot, ProbeSlotOK
<1> HIDE DEF t
<1>3. slot' \in [Hubs -> Slots] /\ slot'[origin] = t /\ \A k \in Hubs \ {origin} : slot'[k] = slot[k]
  BY <1>1, <1>2, PutSlot
<1>4. tobot' \in [Helpers -> Seq(ToBot)] /\ \A b \in Helpers : CalmBot(b)  BY <1>1, Probing
<1>5. ShapesOK'  BY <1>1, <1>3, <1>4 DEF ElInv, ShapesOK
<1>6. seen = {} /\ (\A m \in Frames : ~In(wire, m)) /\ answers = <<>>  BY <1>1 DEF ElInv, Once, Quiet, Answered
<1>7. \A h \in Hubs : slot[h] = NoSlot  BY <1>6 DEF ElInv, Once, SlotOnce
<1>8. ASSUME NEW b \in Helpers PROVE ~HadIt(b)' /\ ~Danger(b)' /\ QueuesOK(b)'
  <2>1. BotOnce(b) /\ At[b] \in Hubs /\ CalmBot(b) /\ b # None  BY <1>4, ElectAssumption DEF ElInv, Once
  <2>2. ~HadIt(b)  BY <1>7, <2>1, FreeSlot DEF BotOnce
  <2>3. ~Danger(b)  BY <1>7, <2>1, FreeSlot DEF BotOnce
  <2> QED BY <2>1, <2>2, <2>3 DEF CalmBot
<1>9. \A h \in Hubs : SlotOnce(h)'
  <2> SUFFICES ASSUME NEW h \in Hubs PROVE SlotOnce(h)'  OBVIOUS
  <2>1. CASE h = origin  BY <1>1, <1>2, <1>3, <2>1 DEF SlotOnce, Mine
  <2>2. CASE h # origin  BY <1>3, <1>7, <2>2, FreeSlot DEF SlotOnce, Mine
  <2> QED BY <2>1, <2>2
<1>10. \A b \in Helpers : BotOnce(b)'  BY <1>8 DEF BotOnce
<1>11. \A m : ~In(wire', m)  BY <1>1, <1>5, <1>6, InTyped DEF ShapesOK
<1>12. ASSUME NEW g \in Hubs \ {origin} PROVE HubOnce(g)'
  <2>1. HubOnce(g)  BY DEF ElInv, Once
  <2>2. Single(wire, Do(g))' /\ ~In(wire, Do(g))'  BY <1>1, <1>11, <2>1 DEF HubOnce, Do
  <2>3. slot'[g].doing = None /\ ~slot'[g].active  BY <1>3, <1>7, FreeSlot
  <2>4. ~Hot(g)'  BY <1>8, <2>2, <2>3 DEF Hot, Mine
  <2> QED BY <2>2, <2>3, <2>4 DEF HubOnce
<1>13. \A m \in Frames : m.cmd = "done" /\ In(wire', m) => Reported(m)'  BY <1>11
<1>14. Quiet' /\ Answered'  BY <1>1, <1>6 DEF Quiet, Answered
<1> QED BY <1>5, <1>9, <1>10, <1>12, <1>13, <1>14 DEF ElInv, Once

(* The initial states.                                                     *)
LEMMA ElStarts == ElInit => ElInv
<1> SUFFICES ASSUME ElInit PROVE ElInv  OBVIOUS
<1>1. origin \in Hubs /\ \A h \in Hubs : slot[h] = NoSlot  BY ElectAssumption DEF ElInit
<1>2. \A g, h \in Hubs : wire[g][h] = <<>>  BY DEF ElInit
<1>3. \A b \in Helpers : tobot[b] = <<>> /\ frombot[b] = <<>>  BY DEF ElInit
<1>4. ShapesOK
  <2>1. slot \in [Hubs -> Slots]  BY FreeSlot DEF ElInit
  <2>2. wire \in Wires /\ tobot \in [Helpers -> Seq(ToBot)] /\ frombot \in [Helpers -> Seq(FromABot)] /\ answers \in Seq(AnAnswer)
    BY EmptyQueue DEF ElInit, Wires
  <2>3. 0 \in 0 .. MaxDrops  BY ElectAssumption
  <2> QED BY <2>1, <2>2, <2>3 DEF ElInit, ShapesOK
<1>5. DOMAIN <<>> = {}  OBVIOUS
<1>6. (\A m : ~In(wire, m)) /\ \A m : Single(wire, m)  BY <1>2, <1>5 DEF In, Single
<1>7. ASSUME NEW b \in Helpers PROVE ~HadIt(b) /\ ~Danger(b) /\ QueuesOK(b)
  <2>1. ~DoIn(b) /\ ~StatusIn(b) /\ DoLast(tobot[b])  BY <1>3, EmptyQueue DEF DoIn, StatusIn
  <2>2. b \notin acted  BY DEF ElInit
  <2> QED BY <2>1, <2>2 DEF HadIt, Danger, QueuesOK, StatusIn, Statuses
<1>8. \A h \in Hubs : SlotOnce(h)  BY <1>1, FreeSlot DEF SlotOnce, Mine
<1>9. \A b \in Helpers : BotOnce(b)  BY <1>7 DEF BotOnce
<1>10. ASSUME NEW g \in Hubs \ {origin} PROVE HubOnce(g)
  <2>1. ~Hot(g)  BY <1>1, <1>6, <1>7, FreeSlot DEF Hot, Mine
  <2> QED BY <1>1, <1>6, <2>1, FreeSlot DEF HubOnce
<1>11. Quiet /\ Answered  BY <1>6 DEF ElInit, Quiet, Answered
<1> QED BY <1>4, <1>6, <1>8, <1>9, <1>10, <1>11 DEF ElInv, Once

(* What the invariant says of the bots that acted and of the answer.       *)
LEMMA InvElects == ElInv => Elected
<1> SUFFICES ASSUME ElInv PROVE Elected  OBVIOUS
<1>1. ElTypeOK  BY Typed
<1>2. ASSUME NEW b \in ActedInTime
      PROVE  /\ b \in Helpers /\ Danger(b) /\ At[b] \in Hubs /\ slot[At[b]].doing = b
             /\ At[b] # origin => slot[origin].doing = At[b]
  <2>1. b \in Helpers /\ Danger(b) /\ At[b] \in Hubs /\ At[b] \notin late  BY ElectAssumption DEF ActedInTime, Danger, ElInv, ShapesOK
  <2>2. BotOnce(b)  BY <2>1 DEF ElInv, Once
  <2>3. At[b] # origin => Hot(At[b]) /\ HubOnce(At[b])  BY <2>1 DEF Hot, Mine, ElInv, Once
  <2> QED BY <2>1, <2>2, <2>3 DEF BotOnce, HubOnce
<1>3. ASSUME NEW b \in ActedInTime, NEW c \in ActedInTime PROVE b = c
  <2>1. CASE At[b] = At[c]  BY <1>2, <2>1
  <2>2. CASE At[b] # At[c] /\ At[b] = origin  BY <1>2, <2>2, ElectAssumption
  <2>3. CASE At[b] # At[c] /\ At[c] = origin  BY <1>2, <2>3, ElectAssumption
  <2>4. CASE At[b] # At[c] /\ At[b] # origin /\ At[c] # origin  BY <1>2, <2>4
  <2> QED BY <2>1, <2>2, <2>3, <2>4
<1>4. OneBotActs
  <2>1. CASE ActedInTime = {}  BY <2>1, FS_EmptySet DEF OneBotActs
  <2>2. CASE ActedInTime # {}
    <3>1. PICK b : b \in ActedInTime  BY <2>2
    <3>2. ActedInTime = {b}  BY <1>3, <3>1
    <3>3. Cardinality({b}) = 1  BY FS_Singleton
    <3> QED BY <3>2, <3>3 DEF OneBotActs
  <2> QED BY <2>1, <2>2
<1>5. AnswersOnce
  <2>1. CASE answers = <<>>  BY <2>1 DEF AnswersOnce
  <2>2. CASE answers # <<>>
    <3>1. Len(answers) = 1  BY <2>2 DEF ElInv, Once, Answered
    <3> QED BY <3>1 DEF AnswersOnce
  <2> QED BY <2>1, <2>2
<1>6. AnswerTrue
  <2> SUFFICES ASSUME NEW i \in 1 .. Len(answers)
               PROVE  /\ answers[i].status = "ok" => answers[i].by \in acted
                      /\ answers[i].status \in {"nobody", "bitch"} => ActedInTime = {}
    BY DEF AnswerTrue
  <2>1. answers # <<>>  OBVIOUS
  <2>2. Len(answers) = 1 /\ AnswerHolds(answers[1])  BY <2>1 DEF ElInv, Once, Answered
  <2>3. i = 1  BY <2>2
  <2>4. ASSUME NobodyActs, NEW b \in ActedInTime PROVE FALSE
    <3>1. b \in Helpers /\ Danger(b) /\ At[b] \in Hubs /\ At[b] \notin late  BY <1>2 DEF ActedInTime
    <3>2. CASE At[b] = origin  BY <2>4, <3>1, <3>2 DEF NobodyActs, Mine
    <3>3. CASE At[b] # origin  BY <2>4, <3>1, <3>3 DEF NobodyActs, Mine, Hot
    <3> QED BY <3>2, <3>3
  <2>5. NobodyActs => ActedInTime = {}  BY <2>4
  <2> QED BY <2>2, <2>3, <2>5 DEF AnswerHolds
<1> QED BY <1>1, <1>4, <1>5, <1>6 DEF Elected

(* Every step keeps the invariant.                                         *)
LEMMA ElKeeps == ElInv /\ [ElNext]_elVars => ElInv'
<1> SUFFICES ASSUME ElInv, [ElNext]_elVars PROVE ElInv'  OBVIOUS
<1>1. CASE UNCHANGED elVars
  <2>1. UNCHANGED <<origin, slot, seen, links, up, wire, tobot, frombot, acted, late, answers, drops>>  BY <1>1 DEF elVars
  <2>2. ShapesOK'  BY <2>1 DEF ElInv, ShapesOK
  <2>3. CalmWire /\ CalmSeen /\ (\A h \in Hubs : CalmSlot(h)) /\ \A c \in Helpers : CalmBot(c)
    BY <2>1, WireStill, SeenStill, SlotStill, BotStill
  <2> QED BY <2>1, <2>2, <2>3, CalmKeeps DEF Calm
<1>2. CASE ElNext
  <2>1. origin' = origin /\ ElStep  BY <1>2 DEF ElNext
  <2>2. CASE start  BY <2>1, <2>2, StartKeeps
  <2>3. ASSUME NEW h \in Hubs, tick(h) \/ Expire(h) PROVE ElInv'  BY <2>1, <2>3, TickKeeps, ExpireKeeps
  <2>4. ASSUME NEW g \in Hubs, NEW h \in Hubs, HubStep(g, h) \/ LinkDrops(g, h) PROVE ElInv'
    BY <2>1, <2>4, FwdKeeps, AckKeeps, DoKeeps, HubDoneKeeps, LinkKeeps DEF HubStep
  <2>5. ASSUME NEW b \in Helpers, BotStep(b) \/ BotDrops(b) \/ BotBack(b) PROVE ElInv'
    BY <2>1, <2>5, AnswersKeeps, ActsKeeps, DoneKeeps, ProbeAckKeeps, DropsKeeps, BackKeeps DEF BotStep, Statuses
  <2> QED BY <2>1, <2>2, <2>3, <2>4, <2>5 DEF ElStep
<1> QED BY <1>1, <1>2

(* At most one bot acts within the waits, the console hears one answer and *)
(* it is true, in every mesh and whatever is lost (elect.rs).              *)
THEOREM ElectedAlways == ElSpec => []Elected
<1>1. ElInit => ElInv  BY ElStarts
<1>2. ElInv /\ [ElNext]_elVars => ElInv'  BY ElKeeps
<1>3. ElInv => Elected  BY InvElects
<1> QED BY <1>1, <1>2, <1>3, PTL DEF ElSpec
-----------------------------------------------------------------------------
(* Routed requests.  No behaviour makes more requests than the rings of    *)
(* seen ids hold (MAX_SEEN_FORWARD_IDS): beyond it the oldest id is        *)
(* forgotten and a copy that is still under way would be acted on again.   *)
RingHolds == \A s \in Sessions : IsFiniteSet(s) /\ Cardinality(s) <= RingSize

Msgs == [cmd : {"oreq"}, id : Ids, mask : BOOLEAN, flood : BOOLEAN]
        \cup [cmd : {"ogrant", "ofail", "creq", "crep"}, id : Ids]
Nets == [Nodes -> [Nodes -> Seq(Msgs)]]
ChSlots == [id : Ids, from : Nodes \cup {Nobody}, old : BOOLEAN]
Travels(w, m) == \E a, c \in Nodes : Has(w[a][c], m)
Failure(i) == [cmd |-> "ofail", id |-> i]

(* The request left the hub it was made at: its ring then has the id.      *)
Out(i) == ring_has(Req[i].at, i)
Granted(i) == \E b \in Bots : <<i, b>> \in granted
Failing(i) == i \in failed \/ Travels(frames, Failure(i))

FlowShapes ==
    /\ asked \subseteq Ids /\ stale \subseteq Ids /\ on \subseteq Bots /\ joined \subseteq Lines
    /\ ring \in [Nodes -> Seq(Ids)] /\ frames \in Nets
    /\ opPend \in [Nodes -> SUBSET [id : Ids, from : Bots]]
    /\ chPend \in [Nodes -> SUBSET ChSlots]
    /\ handled \in [Ids -> [Nodes -> Nat]] /\ keyed \in [Ids -> Nat]
    /\ granted \subseteq Ids \X Bots /\ failed \subseteq Ids /\ opFaults \in 0 .. MaxOpFaults

(* The tables hold what they can; a ring has an id once, and never has to  *)
(* forget one.                                                             *)
Distinct(q) == \A k, l \in DOMAIN q : q[k] = q[l] => k = l
TablesOK(h) ==
    /\ Distinct(ring[h]) /\ Len(ring[h]) <= RingSize
    /\ IsFiniteSet(opPend[h]) /\ Cardinality(opPend[h]) <= OpSlots
    /\ IsFiniteSet(chPend[h]) /\ Cardinality(chPend[h]) <= ChanSlots
Covered == asked = {} \/ \E s \in Sessions : asked \subseteq s

(* One request.  A hub that acted on it has it in its ring, or it never    *)
(* left the hub it was made at.  Only the hub of the bot asked for grants  *)
(* or refuses an op, and either puts the id into its ring, so it is one or *)
(* the other for good.  The slot that is owed the key is the requester's,  *)
(* at the hub it was made at, and is there until the key is delivered.     *)
SeenOK(i) == \A h \in Nodes : ring_has(h, i) => i \in asked /\ Out(i)
ActedOK(i) == \A h \in Nodes : handled[i][h] <= 1 /\ (handled[i][h] # 0 => i \in asked /\ (Out(i) => ring_has(h, i)))
FailOK(i) ==
    /\ Failing(i) => Req[i].kind = "op" /\ ~Granted(i)
    /\ Failing(i) \/ Granted(i) =>
         i \in asked /\ (Req[i].kind = "op" /\ Out(i) => ring_has(Home[Req[i].to], i))
KeyOK(i) ==
    /\ keyed[i] <= 1 /\ (keyed[i] # 0 => i \in asked)
    /\ \A h \in Nodes : \A p \in chPend[h] :
         p.id = i => Out(i) /\ (p.from = Nobody => h = Req[i].at /\ keyed[i] = 0)
RequestOK(i) == SeenOK(i) /\ ActedOK(i) /\ FailOK(i) /\ KeyOK(i)

(* What travels is about a request that left.                              *)
FlowInv ==
    /\ FlowShapes /\ Covered
    /\ \A h \in Nodes : TablesOK(h)
    /\ \A m \in Msgs : Travels(frames, m) => Out(m.id)
    /\ \A i \in Ids : RequestOK(i)

-----------------------------------------------------------------------------
(* What travels after frames were taken and sent.                          *)

(* A frame that travels is a frame about a known request.                  *)
LEMMA TravelsTyped == ASSUME NEW w \in Nets, NEW m, Travels(w, m) PROVE m \in Msgs /\ m.id \in Ids
<1>1. PICK a, c \in Nodes : Has(w[a][c], m)  BY DEF Travels
<1>2. w[a][c] \in Seq(Msgs)  BY DEF Nets
<1>3. m \in Msgs  BY <1>1, <1>2 DEF Has
<1> QED BY <1>3 DEF Msgs

(* Reading the next frame of a link.                                       *)
LEMMA TakenTravels ==
    ASSUME frames \in Nets, NEW g \in Nodes, NEW h \in Nodes, frames[g][h] # <<>>
    PROVE  /\ Taken(g, h) \in Nets /\ Head(frames[g][h]) \in Msgs /\ Travels(frames, Head(frames[g][h]))
           /\ \A m : Travels(Taken(g, h), m) => Travels(frames, m)
<1>1. frames[g][h] \in Seq(Msgs)  BY DEF Nets
<1> DEFINE t == Tail(frames[g][h])
<1>2. t \in Seq(Msgs) /\ Head(frames[g][h]) \in Msgs /\ Has(frames[g][h], Head(frames[g][h]))
      /\ \A m : Has(t, m) => Has(frames[g][h], m)
  BY <1>1, QueueTail
<1>3. Taken(g, h) = [frames EXCEPT ![g][h] = t]  BY DEF Taken, Nets
<1>4. Taken(g, h) \in Nets /\ \A a, c \in Nodes : Taken(g, h)[a][c] = IF a = g /\ c = h THEN t ELSE frames[a][c]
  <2> HIDE DEF t
  <2> QED BY <1>2, <1>3 DEF Nets
<1> HIDE DEF t
<1>5. ASSUME NEW m, Travels(Taken(g, h), m) PROVE Travels(frames, m)  BY <1>2, <1>4, <1>5 DEF Travels
<1> QED BY <1>2, <1>4, <1>5 DEF Travels

(* Sending a frame to some of the peers adds that frame and no other.      *)
LEMMA SendTravels ==
    ASSUME NEW w \in Nets, NEW h \in Nodes, NEW to, NEW m \in Msgs
    PROVE  /\ SendAll(w, h, to, m) \in Nets
           /\ \A k : Travels(SendAll(w, h, to, m), k) => Travels(w, k) \/ k = m
<1> DEFINE f == [g \in Nodes |-> IF g \in to THEN Append(w[h][g], m) ELSE w[h][g]]
<1>1. \A a, c \in Nodes : w[a][c] \in Seq(Msgs)  BY DEF Nets
<1>2. \A g \in Nodes : Append(w[h][g], m) \in Seq(Msgs) /\ \A x : Has(Append(w[h][g], m), x) <=> Has(w[h][g], x) \/ x = m
  BY <1>1, QueueAppend
<1>3. f \in [Nodes -> Seq(Msgs)] /\ \A g \in Nodes : \A x : Has(f[g], x) => Has(w[h][g], x) \/ x = m
  BY <1>1, <1>2
<1>4. SendAll(w, h, to, m) = [w EXCEPT ![h] = f]  BY DEF SendAll
<1> HIDE DEF f
<1>5. SendAll(w, h, to, m) \in Nets /\ \A a \in Nodes : SendAll(w, h, to, m)[a] = IF a = h THEN f ELSE w[a]
  BY <1>3, <1>4 DEF Nets
<1>6. ASSUME NEW k, Travels(SendAll(w, h, to, m), k) PROVE Travels(w, k) \/ k = m
  <2>1. PICK a, c \in Nodes : Has(SendAll(w, h, to, m)[a][c], k)  BY <1>6 DEF Travels
  <2> QED BY <1>3, <1>5, <2>1 DEF Travels
<1> QED BY <1>5, <1>6

(* forward_op_request_to_peers sends the request and nothing else.         *)
LEMMA ForwardTravels ==
    ASSUME NEW w \in Nets, NEW h \in Nodes, NEW i \in Ids, NEW mask \in BOOLEAN, NEW from, NEW split,
           forward_op_request_to_peers(w, h, i, mask, from, split)
    PROVE  frames' \in Nets /\ \A k : Travels(frames', k) => Travels(w, k) \/ (k.id = i /\ k.cmd = "oreq")
<1> DEFINE m(how) == [cmd |-> "oreq", id |-> i, mask |-> mask, flood |-> how]
<1>1. m(TRUE) \in Msgs /\ m(FALSE) \in Msgs  BY DEF Msgs
<1>2. \A how : m(how).id = i /\ m(how).cmd = "oreq"  OBVIOUS
<1>3. PICK to : frames' = SendAll(w, h, to, m(FALSE)) \/ frames' = SendAll(w, h, to, m(TRUE))
  BY DEF forward_op_request_to_peers
<1> HIDE DEF m
<1> QED BY <1>1, <1>2, <1>3, SendTravels

-----------------------------------------------------------------------------
(* The ring of seen ids.                                                   *)

(* A list without repetition is no longer than the set it is from.         *)
LEMMA DistinctFits ==
    ASSUME NEW S, IsFiniteSet(S), NEW q \in Seq(S), Distinct(q)
    PROVE  Len(q) <= Cardinality(S)
<1>1. q \in [1 .. Len(q) -> S] /\ DOMAIN q = 1 .. Len(q) /\ Len(q) \in Nat  OBVIOUS
<1>2. q \in Injection(1 .. Len(q), S)  BY <1>1 DEF Distinct, Injection, IsInjective
<1>3. Cardinality(1 .. Len(q)) <= Cardinality(S)  BY <1>2, FS_Injection
<1>4. Cardinality(1 .. Len(q)) = Len(q)
  <2> DEFINE n == Len(q)
  <2>1. n \in Nat  BY <1>1
  <2> HIDE DEF n
  <2>2. Cardinality(1 .. n) = IF 1 > n THEN 0 ELSE n - 1 + 1  BY <2>1, FS_Interval
  <2>3. Cardinality(1 .. n) = n  BY <2>1, <2>2
  <2> QED BY <2>3 DEF n
<1> QED BY <1>3, <1>4

(* forward_seen_check_and_add, with a ring that holds every id: the new id *)
(* is added and none is forgotten.                                         *)
LEMMA RingAdds ==
    ASSUME RingHolds, FlowInv, NEW h \in Nodes, NEW i \in Ids, ~ring_has(h, i), i \in asked', asked \subseteq asked',
           Covered', ring' = [ring EXCEPT ![h] = ring_add(h, i)]
    PROVE  /\ ring' \in [Nodes -> Seq(Ids)]
           /\ \A g \in Nodes : Distinct(ring'[g]) /\ Len(ring'[g]) <= RingSize
           /\ \A g \in Nodes, j \in Ids : ring_has(g, j)' <=> ring_has(g, j) \/ (g = h /\ j = i)
<1> DEFINE q == ring[h]
           r == Append(q, i)
<1>1. q \in Seq(Ids) /\ Distinct(q) /\ ring \in [Nodes -> Seq(Ids)]  BY DEF FlowInv, FlowShapes, TablesOK
<1>2. \A x : Has(q, x) <=> x \in Range(q)  BY DEF Has, Range
<1>3. \A x : Has(q, x) => x \in asked'
  <2>1. ASSUME NEW x, Has(q, x) PROVE x \in Ids  BY <1>1, <2>1 DEF Has
  <2> QED BY <1>2, <2>1 DEF FlowInv, RequestOK, SeenOK, ring_has
<1>4. PICK s \in Sessions : asked' \subseteq s /\ IsFiniteSet(s) /\ Cardinality(s) <= RingSize
  BY DEF Covered, RingHolds
<1>5. ~Has(q, i)  BY <1>2 DEF ring_has
<1>6. q \in Seq(s)
  <2> HIDE DEF q
  <2>1. q \in [1 .. Len(q) -> s] /\ Len(q) \in Nat  BY <1>1, <1>3, <1>4 DEF Has
  <2> QED BY <2>1
<1> HIDE DEF q
<1>7. r \in Seq(s) /\ r \in Seq(Ids) /\ \A x : Has(r, x) <=> Has(q, x) \/ x = i
  <2>1. i \in s  BY <1>4
  <2> QED BY <1>1, <1>6, <2>1, QueueAppend
<1>8. Distinct(r)
  <2>1. DOMAIN q = 1 .. Len(q) /\ DOMAIN r = 1 .. Len(q) + 1 /\ Len(q) \in Nat /\ r[Len(q) + 1] = i
        /\ \A k \in 1 .. Len(q) : r[k] = q[k]
    BY <1>1
  <2> SUFFICES ASSUME NEW k \in 1 .. Len(q) + 1, NEW l \in 1 .. Len(q) + 1, r[k] = r[l] PROVE k = l
    BY <2>1 DEF Distinct
  <2>2. CASE k = Len(q) + 1 /\ l # Len(q) + 1
    <3>1. l \in 1 .. Len(q)  BY <2>1, <2>2
    <3> QED BY <1>5, <2>1, <2>2, <3>1 DEF Has
  <2>3. CASE l = Len(q) + 1 /\ k # Len(q) + 1
    <3>1. k \in 1 .. Len(q)  BY <2>1, <2>3
    <3> QED BY <1>5, <2>1, <2>3, <3>1 DEF Has
  <2>4. CASE k # Len(q) + 1 /\ l # Len(q) + 1
    <3>1. k \in 1 .. Len(q) /\ l \in 1 .. Len(q)  BY <2>1, <2>4
    <3> QED BY <1>1, <2>1, <3>1 DEF Distinct
  <2> QED BY <2>2, <2>3, <2>4
<1>9. Len(r) <= RingSize /\ Len(r) \in Nat
  <2>1. Len(r) <= Cardinality(s)  BY <1>4, <1>7, <1>8, DistinctFits
  <2>2. Cardinality(s) \in Nat  BY <1>4, FS_CardinalityType
  <2>3. Len(r) \in Nat  BY <1>7
  <2> QED BY <1>4, <2>1, <2>2, <2>3, OpFlowAssumption
<1>10. ring_add(h, i) = r  BY <1>9, OpFlowAssumption DEF ring_add, q
<1>11. ring' \in [Nodes -> Seq(Ids)] /\ \A g \in Nodes : ring'[g] = IF g = h THEN r ELSE ring[g]
  <2> HIDE DEF r
  <2> QED BY <1>1, <1>7, <1>10
<1>12. ASSUME NEW g \in Nodes PROVE Distinct(ring'[g]) /\ Len(ring'[g]) <= RingSize
  BY <1>8, <1>9, <1>11 DEF FlowInv, TablesOK
<1>13. ASSUME NEW g \in Nodes, NEW j \in Ids PROVE ring_has(g, j)' <=> ring_has(g, j) \/ (g = h /\ j = i)
  <2>1. \A x : Has(r, x) <=> x \in Range(r)  BY DEF Has, Range
  <2>2. CASE g = h
    <3>1. ring'[g] = r  BY <1>11, <2>2
    <3>2. ring_has(g, j)' <=> Has(r, j)  BY <2>1, <3>1 DEF ring_has
    <3>3. ring_has(g, j) <=> Has(q, j)  BY <1>2, <2>2 DEF ring_has, q
    <3> QED BY <1>7, <2>2, <3>2, <3>3
  <2>3. CASE g # h
    <3>1. ring'[g] = ring[g]  BY <1>11, <2>3
    <3> QED BY <2>3, <3>1 DEF ring_has
  <2> QED BY <2>2, <2>3
<1> QED BY <1>11, <1>12, <1>13

-----------------------------------------------------------------------------
(* One step.                                                               *)

(* Nothing a step does concerns request j.                                 *)
CalmFor(j) ==
    /\ \A h \in Nodes : (ring_has(h, j)' <=> ring_has(h, j)) /\ handled'[j][h] = handled[j][h]
    /\ keyed'[j] = keyed[j]
    /\ Failing(j)' => Failing(j)
    /\ Granted(j)' => Granted(j)
    /\ \A h \in Nodes : \A p \in chPend'[h] : p.id = j => \E q \in chPend[h] : q.id = j /\ q.from = p.from

(* Where requests are made, and where the bot asked for is.                *)
LEMMA Places ==
    ASSUME NEW i \in Ids
    PROVE  /\ Req[i].at \in Nodes
           /\ Req[i].kind = "op" => Req[i].to \in Bots /\ Home[Req[i].to] \in Nodes
  BY OpFlowAssumption

(* A request a step does not concern stays as it was.                      *)
LEMMA CalmKeepsOK == ASSUME NEW j \in Ids, RequestOK(j), asked \subseteq asked', CalmFor(j) PROVE RequestOK(j)'
<1>1. Out(j)' <=> Out(j)  BY Places DEF CalmFor, Out
<1>2. SeenOK(j)'  BY <1>1 DEF CalmFor, RequestOK, SeenOK
<1>3. ActedOK(j)'  BY <1>1 DEF CalmFor, RequestOK, ActedOK
<1>4. FailOK(j)'
  <2>1. Req[j].kind = "op" => (ring_has(Home[Req[j].to], j)' <=> ring_has(Home[Req[j].to], j))  BY Places DEF CalmFor
  <2> QED BY <1>1, <2>1 DEF CalmFor, RequestOK, FailOK
<1>5. KeyOK(j)'  BY <1>1 DEF CalmFor, RequestOK, KeyOK
<1> QED BY <1>2, <1>3, <1>4, <1>5 DEF RequestOK

(* Acts counts one more for one hub and one request.                       *)
LEMMA ActsCounts ==
    ASSUME FlowShapes, NEW h \in Nodes, NEW i \in Ids, Acts(h, i)
    PROVE  /\ handled' \in [Ids -> [Nodes -> Nat]]
           /\ \A j \in Ids, g \in Nodes : handled'[j][g] = IF j = i /\ g = h THEN handled[j][g] + 1 ELSE handled[j][g]
<1>1. handled \in [Ids -> [Nodes -> Nat]] /\ handled' = [handled EXCEPT ![i][h] = @ + 1]  BY DEF FlowShapes, Acts
<1> QED BY <1>1

(* What a step has to show to keep the tables of every hub.                *)
PendOK(h) ==
    /\ IsFiniteSet(opPend[h]) /\ Cardinality(opPend[h]) <= OpSlots
    /\ IsFiniteSet(chPend[h]) /\ Cardinality(chPend[h]) <= ChanSlots

(* A step that moves at most request i, from a step that leaves everything *)
(* else calm.                                                              *)
LEMMA OneMoves ==
    ASSUME FlowInv, FlowShapes', Covered', asked \subseteq asked', \A h \in Nodes : TablesOK(h)',
           \A m \in Msgs : Travels(frames, m)' => Out(m.id)',
           NEW i, \A j \in Ids \ {i} : CalmFor(j), i \in Ids => RequestOK(i)'
    PROVE  FlowInv'
<1>1. ASSUME NEW j \in Ids PROVE RequestOK(j)'
  <2>1. CASE j = i  BY <2>1
  <2>2. CASE j # i  BY <2>2, CalmKeepsOK DEF FlowInv
  <2> QED BY <2>1, <2>2
<1> QED BY <1>1 DEF FlowInv

(* A step that moves no request, adds no frame and no ring entry.          *)
LEMMA AllCalm ==
    ASSUME FlowInv, FlowShapes', asked' = asked, ring' = ring, \A h \in Nodes : PendOK(h)',
           \A m \in Msgs : Travels(frames, m)' => Travels(frames, m),
           \A j \in Ids : CalmFor(j)
    PROVE  FlowInv'
<1>1. \A h \in Nodes : TablesOK(h)'  BY DEF FlowInv, TablesOK, PendOK
<1>2. \A m \in Msgs : Travels(frames, m)' => Out(m.id)'
  <2>1. \A j : Out(j)' <=> Out(j)  BY DEF Out, ring_has
  <2> QED BY <2>1 DEF FlowInv
<1>3. Covered'  BY DEF FlowInv, Covered
<1>4. \A j \in Ids : RequestOK(j)'  BY CalmKeepsOK DEF FlowInv
<1> QED BY <1>1, <1>2, <1>3, <1>4 DEF FlowInv

(* RequestAges and BotLost.                                                *)
LEMMA QuietKeeps ==
    ASSUME FlowInv, FlowShapes', asked' = asked, ring' = ring, handled' = handled, keyed' = keyed, opPend' = opPend,
           chPend' = chPend, failed' = failed, granted' = granted,
           \A m : Travels(frames, m)' => Travels(frames, m)
    PROVE  FlowInv'
<1>1. \A j \in Ids : CalmFor(j)  BY DEF CalmFor, Failing, Granted, ring_has
<1>2. \A h \in Nodes : PendOK(h)'  BY DEF FlowInv, TablesOK, PendOK
<1> QED BY <1>1, <1>2, AllCalm

(* A request outlives its time: nothing else changes.                      *)
LEMMA AgesKeeps == ASSUME FlowInv, NEW i \in Ids, RequestAges(i) PROVE FlowInv'
<1>1. FlowShapes'  BY OpFlowAssumption DEF FlowInv, FlowShapes, RequestAges
<1>2. \A m : Travels(frames, m)' => Travels(frames, m)  BY DEF RequestAges, Travels
<1> QED BY <1>1, <1>2, QuietKeeps DEF RequestAges

(* A bot is lost.                                                          *)
LEMMA BotLostKeeps == ASSUME FlowInv, NEW b \in Bots, BotLost(b) PROVE FlowInv'
<1>1. FlowShapes'  BY OpFlowAssumption DEF FlowInv, FlowShapes, BotLost
<1>2. \A m : Travels(frames, m)' => Travels(frames, m)  BY DEF BotLost, Travels
<1> QED BY <1>1, <1>2, QuietKeeps DEF BotLost

(* A link is lost with the frames on it.                                   *)
LEMMA PeerLostKeeps == ASSUME FlowInv, NEW g \in Nodes, NEW h \in Nodes, PeerLost(g, h) PROVE FlowInv'
<1>1. frames \in Nets /\ <<>> \in Seq(Msgs)  BY DEF FlowInv, FlowShapes
<1>2. frames' \in Nets /\ \A a, c \in Nodes : frames'[a][c] = <<>> \/ frames'[a][c] = frames[a][c]
  BY <1>1 DEF PeerLost, Nets
<1>3. FlowShapes'
  <2>1. joined' \subseteq joined /\ opFaults < MaxOpFaults /\ opFaults' = opFaults + 1  BY DEF PeerLost
  <2>2. joined' \subseteq Lines /\ opFaults' \in 0 .. MaxOpFaults  BY <2>1, OpFlowAssumption DEF FlowInv, FlowShapes
  <2> QED BY <1>2, <2>2 DEF FlowInv, FlowShapes, PeerLost
<1>4. \A m : Travels(frames, m)' => Travels(frames, m)  BY <1>2 DEF Travels, Has
<1> QED BY <1>3, <1>4, QuietKeeps DEF PeerLost

(* A slot of a key request passes its time.                                *)
LEMMA TimesOutKeeps == ASSUME FlowInv, NEW h \in Nodes, ReplyTimesOut(h) PROVE FlowInv'
<1>1. PICK p \in chPend[h] : chPend' = [chPend EXCEPT ![h] = (@ \ {p}) \cup {[p EXCEPT !.old = TRUE]}]
  BY DEF ReplyTimesOut
<1> DEFINE t == (chPend[h] \ {p}) \cup {[p EXCEPT !.old = TRUE]}
<1>2. chPend \in [Nodes -> SUBSET ChSlots] /\ p \in ChSlots  BY DEF FlowInv, FlowShapes
<1>3. [p EXCEPT !.old = TRUE] \in ChSlots /\ [p EXCEPT !.old = TRUE].id = p.id /\ [p EXCEPT !.old = TRUE].from = p.from
  BY <1>2 DEF ChSlots
<1>4. t \in SUBSET ChSlots  BY <1>2, <1>3
<1>5. chPend' \in [Nodes -> SUBSET ChSlots] /\ \A g \in Nodes : chPend'[g] = IF g = h THEN t ELSE chPend[g]
  BY <1>1, <1>2, <1>4
<1>6. IsFiniteSet(t) /\ Cardinality(t) <= ChanSlots
  <2> DEFINE S == chPend[h] \ {p}
             x == [p EXCEPT !.old = TRUE]
  <2>1. IsFiniteSet(chPend[h]) /\ Cardinality(chPend[h]) <= ChanSlots  BY DEF FlowInv, TablesOK
  <2>2. IsFiniteSet(S) /\ Cardinality(S) = Cardinality(chPend[h]) - 1  BY <2>1, FS_RemoveElement
  <2> HIDE DEF S, x
  <2>3. IsFiniteSet(S \cup {x}) /\ Cardinality(S \cup {x}) = IF x \in S THEN Cardinality(S) ELSE Cardinality(S) + 1
    BY <2>2, FS_AddElement
  <2>4. Cardinality(chPend[h]) \in Nat  BY <2>1, FS_CardinalityType
  <2>5. Cardinality(S \cup {x}) <= ChanSlots  BY <2>1, <2>2, <2>3, <2>4, OpFlowAssumption
  <2> QED BY <2>3, <2>5 DEF S, x
<1> HIDE DEF t
<1>7. \A g \in Nodes : PendOK(g)'  BY <1>5, <1>6 DEF FlowInv, TablesOK, PendOK, ReplyTimesOut
<1>8. FlowShapes'
  <2>1. opFaults' \in 0 .. MaxOpFaults  BY OpFlowAssumption DEF FlowInv, FlowShapes, ReplyTimesOut
  <2> QED BY <1>5, <2>1 DEF FlowInv, FlowShapes, ReplyTimesOut
<1>9. ASSUME NEW j \in Ids PROVE CalmFor(j)
  <2>1. ASSUME NEW g \in Nodes, NEW q \in chPend'[g], q.id = j PROVE \E r \in chPend[g] : r.id = j /\ r.from = q.from
    <3>1. CASE g = h  BY <1>3, <1>5, <2>1, <3>1 DEF t
    <3>2. CASE g # h  BY <1>5, <2>1, <3>2
    <3> QED BY <3>1, <3>2
  <2> QED BY <2>1 DEF CalmFor, Failing, Granted, ring_has, ReplyTimesOut
<1>10. \A m \in Msgs : Travels(frames, m)' => Travels(frames, m)  BY DEF ReplyTimesOut, Travels
<1> QED BY <1>7, <1>8, <1>9, <1>10, AllCalm DEF ReplyTimesOut

(* Slots are only given back: opPend[h] shrinks.                           *)
LEMMA PendShrinks ==
    ASSUME FlowInv, NEW h \in Nodes, NEW t \in SUBSET opPend[h], opPend' = [opPend EXCEPT ![h] = t], chPend' = chPend
    PROVE  opPend' \in [Nodes -> SUBSET [id : Ids, from : Bots]] /\ \A g \in Nodes : PendOK(g)'
<1>1. opPend \in [Nodes -> SUBSET [id : Ids, from : Bots]]  BY DEF FlowInv, FlowShapes
<1>2. opPend' \in [Nodes -> SUBSET [id : Ids, from : Bots]] /\ \A g \in Nodes : opPend'[g] = IF g = h THEN t ELSE opPend[g]
  BY <1>1
<1>3. IsFiniteSet(opPend[h]) /\ Cardinality(opPend[h]) <= OpSlots  BY DEF FlowInv, TablesOK
<1>4. IsFiniteSet(t) /\ Cardinality(t) <= Cardinality(opPend[h])  BY <1>3, FS_Subset
<1>5. Cardinality(t) \in Nat /\ Cardinality(opPend[h]) \in Nat  BY <1>3, <1>4, FS_CardinalityType
<1>6. Cardinality(t) <= OpSlots  BY <1>3, <1>4, <1>5, OpFlowAssumption
<1>7. ASSUME NEW g \in Nodes PROVE PendOK(g)'
  <2>1. CASE g = h  BY <1>2, <1>4, <1>6, <2>1 DEF FlowInv, TablesOK, PendOK
  <2>2. CASE g # h  BY <1>2, <2>2 DEF FlowInv, TablesOK, PendOK
  <2> QED BY <2>1, <2>2
<1> QED BY <1>2, <1>7

(* The confirmation of a grant frees the slot.                             *)
LEMMA GrantKeeps ==
    ASSUME FlowInv, NEW g \in Nodes, NEW h \in Nodes, process_forward_op_grant(g, h) PROVE FlowInv'
<1> DEFINE t == {p \in opPend[h] : p.id # Head(frames[g][h]).id}
<1>1. opPend' = [opPend EXCEPT ![h] = t] /\ chPend' = chPend /\ t \in SUBSET opPend[h]
  BY DEF process_forward_op_grant, FlowInv, FlowShapes
<1> HIDE DEF t
<1>2. opPend' \in [Nodes -> SUBSET [id : Ids, from : Bots]] /\ \A k \in Nodes : PendOK(k)'  BY <1>1, PendShrinks
<1>3. frames' \in Nets /\ \A m : Travels(frames', m) => Travels(frames, m)
  BY TakenTravels DEF process_forward_op_grant, Incoming, FlowInv, FlowShapes
<1>4. \A m : Travels(frames, m)' => Travels(frames, m)  BY <1>3 DEF Travels
<1>5. FlowShapes'  BY <1>2, <1>3 DEF process_forward_op_grant, Incoming, FlowInv, FlowShapes
<1>6. \A j \in Ids : CalmFor(j)  BY <1>4 DEF CalmFor, Failing, Granted, ring_has, process_forward_op_grant
<1> QED BY <1>2, <1>4, <1>5, <1>6, AllCalm DEF process_forward_op_grant, Incoming

(* The confirmation of a failure: the requester is told of a failure that  *)
(* travelled.                                                              *)
LEMMA FailedKeeps ==
    ASSUME FlowInv, NEW g \in Nodes, NEW h \in Nodes, process_forward_op_failed(g, h) PROVE FlowInv'
<1> DEFINE i == Head(frames[g][h]).id
           mine == {p \in opPend[h] : p.id = i}
           t == opPend[h] \ mine
<1>1. opPend' = [opPend EXCEPT ![h] = t] /\ chPend' = chPend /\ t \in SUBSET opPend[h]
  BY DEF process_forward_op_failed, FlowInv, FlowShapes
<1>2. failed' \subseteq failed \cup {i}  BY DEF process_forward_op_failed
<1> HIDE DEF t, mine
<1>3. opPend' \in [Nodes -> SUBSET [id : Ids, from : Bots]] /\ \A k \in Nodes : PendOK(k)'  BY <1>1, PendShrinks
<1>4. /\ frames' \in Nets /\ Head(frames[g][h]) \in Msgs /\ Travels(frames, Head(frames[g][h]))
      /\ \A m : Travels(frames', m) => Travels(frames, m)
  BY TakenTravels DEF process_forward_op_failed, Incoming, FlowInv, FlowShapes
<1>5. \A m : Travels(frames, m)' => Travels(frames, m)  BY <1>4 DEF Travels
<1>6. Head(frames[g][h]).cmd = "ofail"  BY DEF process_forward_op_failed, Incoming
<1>7. Head(frames[g][h]) = Failure(i) /\ i \in Ids  BY <1>4, <1>6 DEF Msgs, Failure
<1>8. Failing(i)  BY <1>4, <1>7 DEF Failing
<1> HIDE DEF i
<1>9. FlowShapes'  BY <1>2, <1>3, <1>4, <1>7 DEF process_forward_op_failed, Incoming, FlowInv, FlowShapes
<1>10. ASSUME NEW j \in Ids PROVE CalmFor(j)
  <2>1. Failing(j)' => Failing(j)  BY <1>2, <1>5, <1>8 DEF Failing
  <2> QED BY <2>1 DEF CalmFor, Granted, ring_has, process_forward_op_failed
<1> QED BY <1>3, <1>5, <1>9, <1>10, AllCalm DEF process_forward_op_failed, Incoming

-----------------------------------------------------------------------------
(* A hub sees a request for the first time, made there or passed on to it. *)

(* What such a step does: the id goes into the ring, and only the hub of   *)
(* the bot asked for decides an op, one way or the other.                  *)
Arrival(h, i) ==
    /\ ~ring_has(h, i) /\ ring' = [ring EXCEPT ![h] = ring_add(h, i)]
    /\ \/ Out(i) /\ asked' = asked
       \/ i \notin asked /\ h = Req[i].at /\ asked' = asked \cup {i}
    /\ \A k \in Msgs : Travels(frames', k) => Travels(frames, k) \/ k.id = i
    /\ \A j \in Ids, g \in Nodes :
         handled'[j][g] = handled[j][g] \/ (j = i /\ g = h /\ handled'[j][g] = handled[j][g] + 1)
    /\ granted' = granted \/ Req[i].kind # "op" \/ h = Home[Req[i].to]
    /\ granted' \subseteq granted \cup ({i} \X Bots) /\ failed' = failed /\ keyed' = keyed
    /\ Travels(frames', Failure(i)) =>
         Travels(frames, Failure(i)) \/ (Req[i].kind = "op" /\ h = Home[Req[i].to] /\ granted' = granted)
    /\ \A g \in Nodes : \A p \in chPend'[g] :
         \/ \E q \in chPend[g] : q.id = p.id /\ q.from = p.from
         \/ g = h /\ p.id = i /\ (p.from \in Nodes \/ i \notin asked)

(* The first sight of a request keeps the invariant.                       *)
LEMMA ArrivalKeeps ==
    ASSUME RingHolds, FlowInv, NEW h \in Nodes, NEW i \in Ids, Arrival(h, i), Covered',
           frames' \in Nets, handled' \in [Ids -> [Nodes -> Nat]],
           opPend' \in [Nodes -> SUBSET [id : Ids, from : Bots]], chPend' \in [Nodes -> SUBSET ChSlots],
           \A g \in Nodes : PendOK(g)', opFaults' \in 0 .. MaxOpFaults,
           UNCHANGED <<joined, on, stale>>
    PROVE  FlowInv'
<1>1. RequestOK(i)  BY DEF FlowInv
<1>2. asked' \subseteq Ids /\ asked \subseteq asked' /\ i \in asked'
  BY <1>1, Places DEF Arrival, FlowInv, FlowShapes, RequestOK, SeenOK, Out
<1>3. /\ ring' \in [Nodes -> Seq(Ids)]
      /\ \A g \in Nodes : Distinct(ring'[g]) /\ Len(ring'[g]) <= RingSize
      /\ \A g \in Nodes, j \in Ids : ring_has(g, j)' <=> ring_has(g, j) \/ (g = h /\ j = i)
  BY <1>2, RingAdds DEF Arrival
<1>4. FlowShapes'
  <2>1. granted' \subseteq Ids \X Bots  BY DEF Arrival, FlowInv, FlowShapes
  <2> QED BY <1>2, <1>3, <2>1 DEF Arrival, FlowInv, FlowShapes
<1>5. \A g \in Nodes : TablesOK(g)'  BY <1>3 DEF TablesOK, PendOK
<1>6. Out(i)' /\ \A j \in Ids : Out(j) => Out(j)'  BY <1>3, Places DEF Arrival, Out
<1>7. ASSUME NEW m \in Msgs, Travels(frames, m)' PROVE Out(m.id)'
  <2>1. Travels(frames', m) /\ m.id \in Ids  BY <1>7 DEF Travels, Msgs
  <2> QED BY <1>6, <2>1 DEF Arrival, FlowInv
<1>8. \A k : Travels(frames, k)' <=> Travels(frames', k)  BY DEF Travels
<1>9. \A j \in Ids : Failure(j) \in Msgs /\ Failure(j).id = j  BY DEF Failure, Msgs
<1>10. ASSUME NEW j \in Ids \ {i} PROVE CalmFor(j)
  <2>1. Failing(j)' => Failing(j)  BY <1>8, <1>9 DEF Failing, Arrival
  <2>2. Granted(j)' => Granted(j)  BY DEF Granted, Arrival
  <2>3. \A g \in Nodes : handled'[j][g] = handled[j][g]  BY DEF Arrival
  <2>4. \A g \in Nodes : \A p \in chPend'[g] : p.id = j => \E q \in chPend[g] : q.id = j /\ q.from = p.from  BY DEF Arrival
  <2>5. keyed'[j] = keyed[j]  BY DEF Arrival
  <2> QED BY <1>3, <2>1, <2>2, <2>3, <2>4, <2>5 DEF CalmFor
<1>11. i \in asked => Out(i)  BY DEF Arrival
<1>12. SeenOK(i)'  BY <1>2, <1>6 DEF SeenOK
<1>13. ActedOK(i)'
  <2> SUFFICES ASSUME NEW g \in Nodes
               PROVE  handled'[i][g] <= 1 /\ (handled'[i][g] # 0 => ring_has(g, i)')
    BY <1>2 DEF ActedOK
  <2>1. handled[i][g] \in Nat  BY DEF FlowInv, FlowShapes
  <2>2. handled[i][g] <= 1 /\ (handled[i][g] # 0 => ring_has(g, i))  BY <1>1, <1>11 DEF RequestOK, ActedOK
  <2>3. CASE handled'[i][g] = handled[i][g]  BY <1>3, <2>2, <2>3
  <2>4. CASE g = h /\ handled'[i][g] = handled[i][g] + 1  BY <1>3, <2>1, <2>2, <2>4 DEF Arrival
  <2> QED BY <2>3, <2>4 DEF Arrival
<1>14. FailOK(i)'
  <2> DEFINE home == Home[Req[i].to]
  <2>1. Failing(i) \/ Granted(i) => (Req[i].kind = "op" => ring_has(home, i))
    BY <1>1, <1>11 DEF RequestOK, FailOK
  <2>2. Failing(i) => Req[i].kind = "op" /\ ~Granted(i)  BY <1>1 DEF RequestOK, FailOK
  <2>3. Failing(i)' => Failing(i) \/ (Req[i].kind = "op" /\ h = home /\ granted' = granted)
    BY <1>8 DEF Failing, Arrival
  <2>4. Granted(i)' => Granted(i) \/ granted' # granted  BY DEF Granted
  <2>5. Req[i].kind = "op" => home \in Nodes  BY Places
  <2>6. Req[i].kind = "op" /\ granted' # granted => h = home  BY DEF Arrival
  <2>7. ~ring_has(h, i)  BY DEF Arrival
  <2> HIDE DEF home
  <2>8. Failing(i)' => Req[i].kind = "op" /\ ~Granted(i)'  BY <2>1, <2>2, <2>3, <2>4, <2>6, <2>7
  <2>9. (Failing(i)' \/ Granted(i)') /\ Req[i].kind = "op" => ring_has(home, i)'
    BY <1>3, <2>1, <2>3, <2>4, <2>5, <2>6
  <2> QED BY <1>2, <2>8, <2>9 DEF FailOK, home
<1>15. KeyOK(i)'
  <2>1. keyed'[i] = keyed[i] /\ KeyOK(i)  BY <1>1 DEF RequestOK, Arrival
  <2>2. ASSUME NEW g \in Nodes, NEW p \in chPend'[g], p.id = i, p.from = Nobody PROVE g = Req[i].at /\ keyed[i] = 0
    <3>1. CASE \E q \in chPend[g] : q.id = p.id /\ q.from = p.from  BY <2>1, <2>2, <3>1 DEF KeyOK
    <3>2. CASE g = h /\ (p.from \in Nodes \/ i \notin asked)
      <4>1. i \notin asked  BY <2>2, <3>2, OpFlowAssumption
      <4>2. ~Out(i)  BY <1>1, <4>1, Places DEF RequestOK, SeenOK, Out
      <4>3. h = Req[i].at  BY <4>2 DEF Arrival
      <4> QED BY <2>1, <3>2, <4>1, <4>3 DEF KeyOK
    <3> QED BY <2>2, <3>1, <3>2 DEF Arrival
  <2> QED BY <1>2, <1>6, <2>1, <2>2 DEF KeyOK
<1>16. RequestOK(i)'  BY <1>12, <1>13, <1>14, <1>15 DEF RequestOK
<1> QED BY <1>2, <1>4, <1>5, <1>7, <1>10, <1>16, OneMoves

-----------------------------------------------------------------------------
(* Op requests.                                                            *)

(* A frame is read: it is about a request that left its hub.               *)
LEMMA FrameRead ==
    ASSUME FlowInv, NEW g \in Nodes, NEW h \in Nodes, frames[g][h] # <<>>
    PROVE  /\ Head(frames[g][h]) \in Msgs /\ Head(frames[g][h]).id \in Ids
           /\ Out(Head(frames[g][h]).id) /\ Head(frames[g][h]).id \in asked
           /\ Taken(g, h) \in Nets /\ \A m : Travels(Taken(g, h), m) => Travels(frames, m)
<1> DEFINE m == Head(frames[g][h])
<1>1. /\ Taken(g, h) \in Nets /\ m \in Msgs /\ Travels(frames, m)
      /\ \A k : Travels(Taken(g, h), k) => Travels(frames, k)
  BY TakenTravels DEF FlowInv, FlowShapes
<1>2. m.id \in Ids  BY <1>1, TravelsTyped DEF FlowInv, FlowShapes
<1>3. Out(m.id)  BY <1>1 DEF FlowInv
<1>4. m.id \in asked  BY <1>2, <1>3, Places DEF FlowInv, RequestOK, SeenOK, Out
<1> QED BY <1>1, <1>2, <1>3, <1>4

(* A frame is dropped.                                                     *)
LEMMA DropKeeps ==
    ASSUME FlowInv, NEW g \in Nodes, NEW h \in Nodes, frames[g][h] # <<>>, frames' = Taken(g, h),
           UNCHANGED <<asked, ring, opPend, chPend, joined, on, stale, handled, granted, failed, keyed, opFaults>>
    PROVE  FlowInv'
<1>1. frames' \in Nets /\ \A m : Travels(frames', m) => Travels(frames, m)  BY FrameRead
<1>2. \A m : Travels(frames, m)' => Travels(frames, m)  BY <1>1 DEF Travels
<1>3. FlowShapes'  BY <1>1 DEF FlowInv, FlowShapes
<1> QED BY <1>2, <1>3, QuietKeeps

(* Tables a step leaves alone.                                             *)
LEMMA PendStill == ASSUME FlowInv, opPend' = opPend, chPend' = chPend PROVE \A h \in Nodes : PendOK(h)'
  BY DEF FlowInv, TablesOK, PendOK

(* One fault more, or none.                                                *)
LEMMA FaultCounts ==
    ASSUME FlowInv, opFaults' = opFaults \/ (opFaults < MaxOpFaults /\ opFaults' = opFaults + 1)
    PROVE  opFaults' \in 0 .. MaxOpFaults
  BY OpFlowAssumption DEF FlowInv, FlowShapes

(* A bot's op request answered at its own hub: granted, refused or not     *)
(* queued, and it never leaves.                                            *)
LEMMA LocalKeeps ==
    ASSUME FlowInv, NEW i \in Ids, Req[i].kind = "op", Made(i),
           \/ /\ Req[i].to \in Bots /\ granted' = granted \cup {<<i, Req[i].to>>}
              /\ Acts(Req[i].at, i) /\ failed' = failed
           \/ failed' \in {failed, failed \cup {i}} /\ granted' = granted /\ handled' = handled,
           opFaults' \in 0 .. MaxOpFaults,
           UNCHANGED <<ring, opPend, chPend, frames, joined, on, stale, keyed>>
    PROVE  FlowInv'
<1>1. Req[i].at \in Nodes  BY Places
<1>2. i \notin asked /\ asked' = asked \cup {i} /\ Covered' /\ asked \subseteq asked'  BY DEF Made, Covered
<1>3. RequestOK(i)  BY DEF FlowInv
<1>4. /\ ~Out(i) /\ ~Failing(i) /\ ~Granted(i) /\ keyed[i] = 0
      /\ \A h \in Nodes : ~ring_has(h, i) /\ handled[i][h] = 0
      /\ \A h \in Nodes : \A p \in chPend[h] : p.id # i
  BY <1>1, <1>2, <1>3 DEF RequestOK, SeenOK, ActedOK, FailOK, KeyOK, Out
<1>5. \A j : (Out(j)' <=> Out(j)) /\ \A h : ring_has(h, j)' <=> ring_has(h, j)  BY DEF Out, ring_has
<1>6. \A m : Travels(frames, m)' <=> Travels(frames, m)  BY DEF Travels
<1>7. handled' \in [Ids -> [Nodes -> Nat]]
      /\ \A j \in Ids, g \in Nodes : handled'[j][g] = handled[j][g] \/ (j = i /\ handled'[j][g] = handled[j][g] + 1)
  <2>1. CASE Acts(Req[i].at, i)  BY <1>1, <2>1, ActsCounts DEF FlowInv
  <2>2. CASE handled' = handled  BY <2>2 DEF FlowInv, FlowShapes
  <2> QED BY <2>1, <2>2
<1>8. FlowShapes'
  <2>1. granted' \subseteq Ids \X Bots /\ failed' \subseteq Ids  BY DEF FlowInv, FlowShapes
  <2> QED BY <1>2, <1>7, <2>1 DEF FlowInv, FlowShapes
<1>9. \A h \in Nodes : TablesOK(h)'  BY DEF FlowInv, TablesOK
<1>10. \A m \in Msgs : Travels(frames, m)' => Out(m.id)'  BY <1>5, <1>6 DEF FlowInv
<1>11. ASSUME NEW j \in Ids \ {i} PROVE CalmFor(j)
  <2>1. Failing(j)' => Failing(j)  BY <1>6 DEF Failing
  <2>2. Granted(j)' => Granted(j)  BY DEF Granted
  <2> QED BY <1>5, <1>7, <2>1, <2>2 DEF CalmFor
<1>12. RequestOK(i)'
  <2>1. SeenOK(i)' /\ KeyOK(i)'  BY <1>4, <1>5 DEF SeenOK, KeyOK
  <2>2. ActedOK(i)'  BY <1>2, <1>4, <1>5, <1>7 DEF ActedOK
  <2>3. FailOK(i)'
    <3>1. ~Out(i)' /\ i \in asked'  BY <1>2, <1>4, <1>5
    <3>2. CASE granted' = granted
      <4>1. ~Granted(i)'  BY <1>4, <3>2 DEF Granted
      <4> QED BY <3>1, <4>1 DEF FailOK
    <3>3. CASE failed' = failed
      <4>1. ~Failing(i)'  BY <1>4, <1>6, <3>3 DEF Failing
      <4> QED BY <3>1, <4>1 DEF FailOK
    <3> QED BY <3>2, <3>3
  <2> QED BY <2>1, <2>2, <2>3 DEF RequestOK
<1> QED BY <1>2, <1>8, <1>9, <1>10, <1>11, <1>12, OneMoves

(* A bot asks for an op.                                                   *)
LEMMA OpRequestKeeps == ASSUME RingHolds, FlowInv, NEW i \in Ids, process_op_request(i) PROVE FlowInv'
<1> DEFINE h == Req[i].at
           b == Req[i].by
<1>1. h \in Nodes /\ Req[i].kind = "op" /\ b \in Bots /\ Req[i].to \in Bots
  BY OpFlowAssumption DEF process_op_request
<1>2. Made(i) /\ i \notin asked /\ asked' = asked \cup {i} /\ Covered'  BY DEF process_op_request, Made, Covered
<1>3. UNCHANGED <<chPend, joined, on, stale, keyed>>  BY DEF process_op_request
<1>10. opFaults' = opFaults \/ (opFaults < MaxOpFaults /\ opFaults' = opFaults + 1)
  BY DEF process_op_request, GrantSent, GrantRefused
<1>11. opFaults' \in 0 .. MaxOpFaults  BY <1>10, FaultCounts
<1>4. CASE /\ opPend' = [opPend EXCEPT ![h] = @ \cup {[id |-> i, from |-> b]}]
           /\ ring' = [ring EXCEPT ![h] = ring_add(h, i)]
           /\ forward_op_request_to_peers(frames, h, i, h \notin Elder, Nobody, FALSE)
           /\ UNCHANGED <<granted, handled, failed>> /\ Cardinality(opPend[h]) < OpSlots
  <2>1. frames \in Nets /\ RequestOK(i)  BY DEF FlowInv, FlowShapes
  <2>2. frames' \in Nets /\ \A k : Travels(frames', k) => Travels(frames, k) \/ (k.id = i /\ k.cmd = "oreq")
    BY <1>1, <1>4, <2>1, ForwardTravels
  <2>3. Failure(i).cmd = "ofail"  BY DEF Failure
  <2>4. ~ring_has(h, i)  BY <1>1, <1>2, <2>1 DEF RequestOK, SeenOK
  <2>5. Arrival(h, i)
    <3>1. \A k \in Msgs : Travels(frames', k) => Travels(frames, k) \/ k.id = i  BY <2>2
    <3>2. Travels(frames', Failure(i)) => Travels(frames, Failure(i))  BY <2>2, <2>3
    <3> QED BY <1>2, <1>3, <1>4, <2>4, <3>1, <3>2 DEF Arrival
  <2> DEFINE x == [id |-> i, from |-> b]
             t == opPend[h] \cup {x}
  <2>6. opPend \in [Nodes -> SUBSET [id : Ids, from : Bots]] /\ x \in [id : Ids, from : Bots]
    BY <1>1 DEF FlowInv, FlowShapes
  <2>7. IsFiniteSet(opPend[h]) /\ Cardinality(opPend[h]) \in Nat  BY <1>1, FS_CardinalityType DEF FlowInv, TablesOK
  <2>8. IsFiniteSet(t) /\ Cardinality(t) <= OpSlots
    <3> HIDE DEF x, h
    <3>1. IsFiniteSet(t) /\ Cardinality(t) = IF x \in opPend[h] THEN Cardinality(opPend[h]) ELSE Cardinality(opPend[h]) + 1
      BY <2>7, FS_AddElement
    <3> QED BY <1>4, <2>7, <3>1, OpFlowAssumption
  <2>9. opPend' \in [Nodes -> SUBSET [id : Ids, from : Bots]] /\ \A g \in Nodes : opPend'[g] = IF g = h THEN t ELSE opPend[g]
    <3> HIDE DEF x
    <3> QED BY <1>1, <1>4, <2>6 DEF x
  <2>10. \A g \in Nodes : PendOK(g)'
    <3> HIDE DEF t
    <3> QED BY <1>3, <2>8, <2>9 DEF PendOK, FlowInv, TablesOK
  <2>11. handled' \in [Ids -> [Nodes -> Nat]] /\ chPend' \in [Nodes -> SUBSET ChSlots]  BY <1>3, <1>4 DEF FlowInv, FlowShapes
  <2> HIDE DEF h
  <2> QED BY <1>1, <1>2, <1>3, <1>11, <2>2, <2>5, <2>9, <2>10, <2>11, ArrivalKeeps
<1>5. CASE granted' = granted \cup {<<i, Req[i].to>>} /\ Acts(h, i) /\ failed' = failed /\ UNCHANGED <<opPend, ring, frames>>
  BY <1>1, <1>2, <1>3, <1>5, <1>11, LocalKeeps
<1>6. CASE failed' \in {failed, failed \cup {i}} /\ UNCHANGED <<granted, handled, opPend, ring, frames>>
  BY <1>1, <1>2, <1>3, <1>6, <1>11, LocalKeeps
<1> QED BY <1>4, <1>5, <1>6 DEF process_op_request, GrantSent, GrantRefused

(* An admin has a user opped by every bot.                                 *)
LEMMA AdminOpKeeps == ASSUME RingHolds, FlowInv, NEW i \in Ids, admin_op_user(i) PROVE FlowInv'
<1> DEFINE h == Req[i].at
<1>1. h \in Nodes /\ Req[i].kind = "admin"  BY Places DEF admin_op_user
<1>2. i \notin asked /\ asked' = asked \cup {i} /\ Covered'  BY DEF admin_op_user, Made, Covered
<1>3. frames \in Nets /\ RequestOK(i)  BY DEF FlowInv, FlowShapes
<1>4. frames' \in Nets /\ \A k : Travels(frames', k) => Travels(frames, k) \/ (k.id = i /\ k.cmd = "oreq")
  BY <1>1, <1>3, ForwardTravels DEF admin_op_user
<1>5. ~ring_has(h, i)  BY <1>1, <1>2, <1>3 DEF RequestOK, SeenOK
<1>6. /\ handled' \in [Ids -> [Nodes -> Nat]]
      /\ \A j \in Ids, g \in Nodes : handled'[j][g] = IF j = i /\ g = h THEN handled[j][g] + 1 ELSE handled[j][g]
  BY <1>1, ActsCounts DEF FlowInv, admin_op_user
<1>7. granted' \subseteq granted \cup ({i} \X Bots)  BY DEF admin_op_user, broadcast_op_grant, BotsAt, FlowInv, FlowShapes
<1>8. Arrival(h, i)
  <2>1. Failure(i).cmd = "ofail"  BY DEF Failure
  <2>2. Travels(frames', Failure(i)) => Travels(frames, Failure(i))  BY <1>4, <2>1
  <2>3. \A j \in Ids, g \in Nodes :
          handled'[j][g] = handled[j][g] \/ (j = i /\ g = h /\ handled'[j][g] = handled[j][g] + 1)
    BY <1>6
  <2>4. ring' = [ring EXCEPT ![h] = ring_add(h, i)] /\ UNCHANGED <<failed, keyed, chPend>>  BY DEF admin_op_user
  <2> QED BY <1>1, <1>2, <1>4, <1>5, <1>7, <2>2, <2>3, <2>4 DEF Arrival
<1>9. UNCHANGED <<opPend, chPend, joined, on, stale, opFaults>>  BY DEF admin_op_user
<1>10. \A g \in Nodes : PendOK(g)'  BY <1>9, PendStill
<1>11. opPend' \in [Nodes -> SUBSET [id : Ids, from : Bots]] /\ chPend' \in [Nodes -> SUBSET ChSlots]
  BY <1>9 DEF FlowInv, FlowShapes
<1> HIDE DEF h
<1> QED BY <1>1, <1>2, <1>4, <1>6, <1>8, <1>9, <1>10, <1>11, FaultCounts, ArrivalKeeps

(* An op request from a peer.                                              *)
LEMMA ForwardOpKeeps ==
    ASSUME RingHolds, FlowInv, NEW g \in Nodes, NEW h \in Nodes, process_forward_op_request(g, h) PROVE FlowInv'
<1> DEFINE m == Head(frames[g][h])
           i == m.id
<1>1. frames[g][h] # <<>> /\ m.cmd = "oreq" /\ UNCHANGED <<asked, joined, on, stale>>
  BY DEF process_forward_op_request, Incoming
<1>7. opFaults' = opFaults \/ (opFaults < MaxOpFaults /\ opFaults' = opFaults + 1)
  BY DEF process_forward_op_request, GrantSent, GrantRefused
<1>8. opFaults' \in 0 .. MaxOpFaults  BY <1>7, FaultCounts
<1>2. UNCHANGED <<opPend, chPend, failed, keyed>>  BY DEF process_forward_op_request
<1>3. /\ m \in Msgs /\ i \in Ids /\ Out(i) /\ i \in asked
      /\ Taken(g, h) \in Nets /\ \A k : Travels(Taken(g, h), k) => Travels(frames, k)
  BY <1>1, FrameRead
<1>4. m.mask \in BOOLEAN  BY <1>1, <1>3 DEF Msgs
<1>5. CASE frames' = Taken(g, h) /\ UNCHANGED <<ring, granted, handled, opFaults>>
  BY <1>1, <1>2, <1>5, DropKeeps
<1>6. CASE ~ring_has(h, i) /\ ring' = [ring EXCEPT ![h] = ring_add(h, i)]
           /\ ~(frames' = Taken(g, h) /\ UNCHANGED <<ring, granted, handled, opFaults>>)
  <2> HIDE DEF i, m
  <2>1. Failure(i).cmd = "ofail" /\ Failure(i) \in Msgs  BY <1>3 DEF Failure, Msgs
  <2>2. handled \in [Ids -> [Nodes -> Nat]]  BY DEF FlowInv, FlowShapes
  <2>3. /\ frames' \in Nets /\ \A k \in Msgs : Travels(frames', k) => Travels(frames, k) \/ k.id = i
        /\ handled' \in [Ids -> [Nodes -> Nat]]
        /\ \A j \in Ids, c \in Nodes :
             handled'[j][c] = handled[j][c] \/ (j = i /\ c = h /\ handled'[j][c] = handled[j][c] + 1)
        /\ granted' = granted \/ Req[i].kind # "op" \/ h = Home[Req[i].to]
        /\ granted' \subseteq granted \cup ({i} \X Bots)
        /\ Travels(frames', Failure(i)) =>
             Travels(frames, Failure(i)) \/ (Req[i].kind = "op" /\ h = Home[Req[i].to] /\ granted' = granted)
    <3>1. CASE /\ Req[i].kind = "admin" /\ broadcast_op_grant(h, i) /\ Acts(h, i)
               /\ forward_op_request_to_peers(Taken(g, h), h, i, FALSE, g, m.flood)
      <4>1. frames' \in Nets /\ \A k : Travels(frames', k) => Travels(Taken(g, h), k) \/ (k.id = i /\ k.cmd = "oreq")
        BY <1>3, <3>1, ForwardTravels
      <4>2. /\ handled' \in [Ids -> [Nodes -> Nat]]
            /\ \A j \in Ids, c \in Nodes : handled'[j][c] = IF j = i /\ c = h THEN handled[j][c] + 1 ELSE handled[j][c]
        BY <1>3, <3>1, ActsCounts DEF FlowInv
      <4>3. granted' \subseteq granted \cup ({i} \X Bots)  BY <3>1 DEF broadcast_op_grant, BotsAt, FlowInv, FlowShapes
      <4> QED BY <1>3, <2>1, <3>1, <4>1, <4>2, <4>3
    <3>2. CASE /\ Req[i].kind = "op" /\ UNCHANGED <<granted, handled>>
               /\ forward_op_request_to_peers(Taken(g, h), h, i, m.mask, g, m.flood)
      <4>1. frames' \in Nets /\ \A k : Travels(frames', k) => Travels(Taken(g, h), k) \/ (k.id = i /\ k.cmd = "oreq")
        BY <1>3, <1>4, <3>2, ForwardTravels
      <4> QED BY <1>3, <2>1, <2>2, <3>2, <4>1
    <3>3. CASE /\ Req[i].kind = "op" /\ Req[i].to \in BotsAt(h)
               /\ granted' = granted \cup {<<i, Req[i].to>>} /\ Acts(h, i)
               /\ frames' = SendOne(Taken(g, h), h, g, [cmd |-> "ogrant", id |-> i])
      <4> DEFINE x == [cmd |-> "ogrant", id |-> i]
      <4>1. x \in Msgs /\ x.id = i /\ x.cmd = "ogrant"  BY <1>3 DEF Msgs
      <4> HIDE DEF x
      <4>2. frames' \in Nets /\ \A k : Travels(frames', k) => Travels(Taken(g, h), k) \/ k = x
        BY <1>3, <3>3, <4>1, SendTravels DEF SendOne, x
      <4>3. /\ handled' \in [Ids -> [Nodes -> Nat]]
            /\ \A j \in Ids, c \in Nodes : handled'[j][c] = IF j = i /\ c = h THEN handled[j][c] + 1 ELSE handled[j][c]
        BY <1>3, <3>3, ActsCounts DEF FlowInv
      <4>4. h = Home[Req[i].to] /\ Req[i].to \in Bots  BY <3>3 DEF BotsAt, FlowInv, FlowShapes
      <4> QED BY <1>3, <2>1, <3>3, <4>1, <4>2, <4>3, <4>4
    <3>4. CASE /\ Req[i].kind = "op" /\ Req[i].to \in BotsAt(h)
               /\ frames' = SendOne(Taken(g, h), h, g, [cmd |-> "ofail", id |-> i]) /\ UNCHANGED <<granted, handled>>
      <4> DEFINE x == [cmd |-> "ofail", id |-> i]
      <4>1. x \in Msgs /\ x.id = i  BY <1>3 DEF Msgs
      <4> HIDE DEF x
      <4>2. frames' \in Nets /\ \A k : Travels(frames', k) => Travels(Taken(g, h), k) \/ k = x
        BY <1>3, <3>4, <4>1, SendTravels DEF SendOne, x
      <4>3. h = Home[Req[i].to]  BY <3>4 DEF BotsAt
      <4> QED BY <1>3, <2>2, <3>4, <4>1, <4>2, <4>3
    <3>5. CASE frames' = Taken(g, h) /\ UNCHANGED <<granted, handled>>
      <4> QED BY <1>3, <2>1, <2>2, <3>5
    <3> QED BY <1>6, <3>1, <3>2, <3>3, <3>4, <3>5 DEF process_forward_op_request, GrantSent, GrantRefused, i, m
  <2>4. Arrival(h, i)  BY <1>1, <1>2, <1>3, <1>6, <2>3 DEF Arrival
  <2>5. Covered'  BY <1>1 DEF FlowInv, Covered
  <2>6. \A c \in Nodes : PendOK(c)'  BY <1>2, PendStill
  <2>7. opPend' \in [Nodes -> SUBSET [id : Ids, from : Bots]] /\ chPend' \in [Nodes -> SUBSET ChSlots]
    BY <1>2 DEF FlowInv, FlowShapes
  <2> QED BY <1>1, <1>3, <1>8, <2>3, <2>4, <2>5, <2>6, <2>7, ArrivalKeeps
<1> QED BY <1>5, <1>6 DEF process_forward_op_request

-----------------------------------------------------------------------------
(* Key requests.                                                           *)

(* add_pending_chan_request takes a free slot or one that is old.          *)
LEMMA SlotTaken ==
    ASSUME FlowInv, NEW h \in Nodes, NEW i \in Ids, NEW from \in Nodes \cup {Nobody},
           \E t \in add_pending_chan_request(h, i, from) : chPend' = [chPend EXCEPT ![h] = t], opPend' = opPend
    PROVE  /\ chPend' \in [Nodes -> SUBSET ChSlots] /\ \A g \in Nodes : PendOK(g)'
           /\ \A g \in Nodes : \A p \in chPend'[g] : p \in chPend[g] \/ (g = h /\ p.id = i /\ p.from = from)
<1> PICK t \in add_pending_chan_request(h, i, from) : chPend' = [chPend EXCEPT ![h] = t]  OBVIOUS
<1> DEFINE p == [id |-> i, from |-> from, old |-> FALSE]
<1>1. p \in ChSlots /\ p.id = i /\ p.from = from  BY DEF ChSlots
<1> HIDE DEF p
<1>2. chPend \in [Nodes -> SUBSET ChSlots] /\ IsFiniteSet(chPend[h]) /\ Cardinality(chPend[h]) <= ChanSlots
  BY DEF FlowInv, FlowShapes, TablesOK
<1>3. Cardinality(chPend[h]) \in Nat  BY <1>2, FS_CardinalityType
<1>4. IsFiniteSet(t) /\ Cardinality(t) <= ChanSlots /\ t \subseteq chPend[h] \cup {p}
  <2>1. CASE Cardinality(chPend[h]) < ChanSlots /\ t = chPend[h] \cup {p}
    <3>1. IsFiniteSet(t) /\ Cardinality(t) = IF p \in chPend[h] THEN Cardinality(chPend[h]) ELSE Cardinality(chPend[h]) + 1
      BY <1>2, <2>1, FS_AddElement
    <3> QED BY <1>3, <2>1, <3>1, OpFlowAssumption
  <2>2. CASE \E q \in chPend[h] : t = (chPend[h] \ {q}) \cup {p}
    <3>1. PICK q \in chPend[h] : t = (chPend[h] \ {q}) \cup {p}  BY <2>2
    <3> DEFINE S == chPend[h] \ {q}
    <3>2. IsFiniteSet(S) /\ Cardinality(S) = Cardinality(chPend[h]) - 1  BY <1>2, FS_RemoveElement
    <3>3. S \subseteq chPend[h] /\ t = S \cup {p}  BY <3>1
    <3> HIDE DEF S
    <3>4. IsFiniteSet(t) /\ Cardinality(t) = IF p \in S THEN Cardinality(S) ELSE Cardinality(S) + 1
      BY <3>2, <3>3, FS_AddElement
    <3> QED BY <1>2, <1>3, <3>2, <3>3, <3>4, OpFlowAssumption
  <2> QED BY <2>1, <2>2 DEF add_pending_chan_request, p
<1>5. t \in SUBSET ChSlots  BY <1>1, <1>2, <1>4
<1>6. chPend' \in [Nodes -> SUBSET ChSlots] /\ \A g \in Nodes : chPend'[g] = IF g = h THEN t ELSE chPend[g]
  BY <1>2, <1>5
<1>7. \A g \in Nodes : PendOK(g)'  BY <1>4, <1>6 DEF PendOK, FlowInv, TablesOK
<1> QED BY <1>1, <1>4, <1>6, <1>7

(* chan_request_dispatch: one slot, one act, and the request to the peers; *)
(* or nothing at all.                                                      *)
LEMMA Dispatches ==
    ASSUME FlowInv, NEW w \in Nets, NEW h \in Nodes, NEW i \in Ids, NEW from \in Nodes \cup {Nobody},
           chan_request_dispatch(w, h, i, from), opPend' = opPend
    PROVE  /\ chPend' \in [Nodes -> SUBSET ChSlots] /\ \A g \in Nodes : PendOK(g)'
           /\ \A g \in Nodes : \A p \in chPend'[g] : p \in chPend[g] \/ (g = h /\ p.id = i /\ p.from = from)
           /\ frames' \in Nets /\ \A k : Travels(frames', k) => Travels(w, k) \/ (k.id = i /\ k.cmd = "creq")
           /\ handled' \in [Ids -> [Nodes -> Nat]]
           /\ \A j \in Ids, g \in Nodes :
                handled'[j][g] = handled[j][g] \/ (j = i /\ g = h /\ handled'[j][g] = handled[j][g] + 1)
<1>1. CASE \E t \in add_pending_chan_request(h, i, from) :
             /\ chPend' = [chPend EXCEPT ![h] = t] /\ Acts(h, i)
             /\ frames' = SendAll(w, h, Flooded(h, from, {}), [cmd |-> "creq", id |-> i])
  <2>1. \E t \in add_pending_chan_request(h, i, from) : chPend' = [chPend EXCEPT ![h] = t]  BY <1>1
  <2>2. /\ chPend' \in [Nodes -> SUBSET ChSlots] /\ \A g \in Nodes : PendOK(g)'
        /\ \A g \in Nodes : \A p \in chPend'[g] : p \in chPend[g] \/ (g = h /\ p.id = i /\ p.from = from)
    BY <2>1, SlotTaken
  <2> DEFINE x == [cmd |-> "creq", id |-> i]
  <2>3. x \in Msgs /\ x.id = i /\ x.cmd = "creq"  BY DEF Msgs
  <2>4. frames' = SendAll(w, h, Flooded(h, from, {}), x)  BY <1>1
  <2> HIDE DEF x
  <2>5. frames' \in Nets /\ \A k : Travels(frames', k) => Travels(w, k) \/ k = x  BY <2>3, <2>4, SendTravels
  <2>6. /\ handled' \in [Ids -> [Nodes -> Nat]]
        /\ \A j \in Ids, c \in Nodes : handled'[j][c] = IF j = i /\ c = h THEN handled[j][c] + 1 ELSE handled[j][c]
    BY <1>1, ActsCounts DEF FlowInv
  <2> QED BY <2>2, <2>3, <2>5, <2>6
<1>2. CASE frames' = w /\ UNCHANGED <<chPend, handled>>
  <2>1. \A g \in Nodes : PendOK(g)'  BY <1>2, PendStill
  <2> QED BY <1>2, <2>1 DEF FlowInv, FlowShapes
<1> QED BY <1>1, <1>2 DEF chan_request_dispatch

(* A key request is made, or arrives.                                      *)
LEMMA ElderKeeps == ASSUME RingHolds, FlowInv, NEW i \in Ids, elder_chan_request(i) PROVE FlowInv'
<1> DEFINE h == Req[i].at
<1>1. h \in Nodes /\ Req[i].kind = "key" /\ frames \in Nets /\ RequestOK(i)
  BY Places DEF elder_chan_request, FlowInv, FlowShapes
<1>2. i \notin asked /\ asked' = asked \cup {i} /\ Covered'  BY DEF elder_chan_request, Made, Covered
<1>3. UNCHANGED <<opPend, joined, on, stale, granted, failed, keyed, opFaults>>
      /\ ring' = [ring EXCEPT ![h] = ring_add(h, i)] /\ chan_request_dispatch(frames, h, i, Nobody)
  BY DEF elder_chan_request
<1> HIDE DEF h
<1>4. /\ chPend' \in [Nodes -> SUBSET ChSlots] /\ \A g \in Nodes : PendOK(g)'
      /\ \A g \in Nodes : \A p \in chPend'[g] : p \in chPend[g] \/ (g = h /\ p.id = i /\ p.from = Nobody)
      /\ frames' \in Nets /\ \A k : Travels(frames', k) => Travels(frames, k) \/ (k.id = i /\ k.cmd = "creq")
      /\ handled' \in [Ids -> [Nodes -> Nat]]
      /\ \A j \in Ids, g \in Nodes :
           handled'[j][g] = handled[j][g] \/ (j = i /\ g = h /\ handled'[j][g] = handled[j][g] + 1)
  BY <1>1, <1>3, Dispatches
<1>5. ~ring_has(h, i)  BY <1>1, <1>2 DEF RequestOK, SeenOK
<1>6. Failure(i).cmd = "ofail"  BY DEF Failure
<1>7. Arrival(h, i)
  <2>1. \A g \in Nodes : \A p \in chPend'[g] :
          \/ \E q \in chPend[g] : q.id = p.id /\ q.from = p.from
          \/ g = h /\ p.id = i /\ (p.from \in Nodes \/ i \notin asked)
    BY <1>2, <1>4
  <2>2. granted' \subseteq granted \cup ({i} \X Bots)  BY <1>3
  <2>3. Travels(frames', Failure(i)) => Travels(frames, Failure(i))  BY <1>4, <1>6
  <2> QED BY <1>2, <1>3, <1>4, <1>5, <2>1, <2>2, <2>3 DEF Arrival, h
<1>8. opPend' \in [Nodes -> SUBSET [id : Ids, from : Bots]]  BY <1>3 DEF FlowInv, FlowShapes
<1> QED BY <1>1, <1>2, <1>3, <1>4, <1>7, <1>8, FaultCounts, ArrivalKeeps

(* A key request from a peer.                                              *)
LEMMA ForwardKeyKeeps ==
    ASSUME RingHolds, FlowInv, NEW g \in Nodes, NEW h \in Nodes, process_forward_chan_request(g, h) PROVE FlowInv'
<1> DEFINE i == Head(frames[g][h]).id
<1>1. frames[g][h] # <<>> /\ UNCHANGED <<asked, joined, on, stale, opFaults>>
  BY DEF process_forward_chan_request, Incoming
<1>2. UNCHANGED <<opPend, granted, failed, keyed>>  BY DEF process_forward_chan_request
<1>3. i \in Ids /\ Out(i) /\ Taken(g, h) \in Nets /\ \A k : Travels(Taken(g, h), k) => Travels(frames, k)
  BY <1>1, FrameRead
<1>4. CASE frames' = Taken(g, h) /\ UNCHANGED <<ring, chPend, handled>>
  BY <1>1, <1>2, <1>4, DropKeeps
<1>5. CASE /\ ~ring_has(h, i) /\ ring' = [ring EXCEPT ![h] = ring_add(h, i)]
           /\ chan_request_dispatch(Taken(g, h), h, i, g)
  <2> HIDE DEF i
  <2>1. /\ chPend' \in [Nodes -> SUBSET ChSlots] /\ \A c \in Nodes : PendOK(c)'
        /\ \A c \in Nodes : \A p \in chPend'[c] : p \in chPend[c] \/ (c = h /\ p.id = i /\ p.from = g)
        /\ frames' \in Nets /\ \A k : Travels(frames', k) => Travels(Taken(g, h), k) \/ (k.id = i /\ k.cmd = "creq")
        /\ handled' \in [Ids -> [Nodes -> Nat]]
        /\ \A j \in Ids, c \in Nodes :
             handled'[j][c] = handled[j][c] \/ (j = i /\ c = h /\ handled'[j][c] = handled[j][c] + 1)
    BY <1>2, <1>3, <1>5, Dispatches
  <2>2. Failure(i).cmd = "ofail"  BY DEF Failure
  <2>3. Arrival(h, i)
    <3>1. \A c \in Nodes : \A p \in chPend'[c] :
            \/ \E q \in chPend[c] : q.id = p.id /\ q.from = p.from
            \/ c = h /\ p.id = i /\ (p.from \in Nodes \/ i \notin asked)
      BY <2>1
    <3>2. granted' \subseteq granted \cup ({i} \X Bots)  BY <1>2
    <3>3. Travels(frames', Failure(i)) => Travels(frames, Failure(i))  BY <1>3, <2>1, <2>2
    <3>4. \A k \in Msgs : Travels(frames', k) => Travels(frames, k) \/ k.id = i  BY <1>3, <2>1
    <3> QED BY <1>1, <1>2, <1>3, <1>5, <2>1, <3>1, <3>2, <3>3, <3>4 DEF Arrival
  <2>4. Covered'  BY <1>1 DEF FlowInv, Covered
  <2>5. opPend' \in [Nodes -> SUBSET [id : Ids, from : Bots]]  BY <1>2 DEF FlowInv, FlowShapes
  <2> QED BY <1>1, <1>3, <2>1, <2>3, <2>4, <2>5, FaultCounts, ArrivalKeeps
<1> QED BY <1>4, <1>5 DEF process_forward_chan_request

(* The answer to a key request: it uses up the slot, so the requester's is *)
(* gone once the key is delivered.                                         *)
LEMMA ReplyKeeps ==
    ASSUME FlowInv, NEW w \in Nets, \A k : Travels(w, k) => Travels(frames, k), NEW h \in Nodes, NEW i \in Ids,
           RouteReply(w, h, i),
           UNCHANGED <<asked, ring, opPend, joined, on, stale, handled, granted, failed, opFaults>>
    PROVE  FlowInv'
<1> DEFINE mine == {p \in chPend[h] : p.id = i}
           t == chPend[h] \ mine
           x == [cmd |-> "crep", id |-> i]
<1>1. chPend \in [Nodes -> SUBSET ChSlots] /\ keyed \in [Ids -> Nat] /\ RequestOK(i)  BY DEF FlowInv, FlowShapes
<1>2. chPend' \in [Nodes -> SUBSET ChSlots] /\ \A g \in Nodes : chPend'[g] = IF g = h THEN t ELSE chPend[g]
  <2>1. t \in SUBSET ChSlots /\ chPend' = [chPend EXCEPT ![h] = t]  BY <1>1 DEF RouteReply
  <2> HIDE DEF t
  <2> QED BY <1>1, <2>1
<1>3. \A g \in Nodes : \A p \in chPend'[g] : p \in chPend[g] /\ (g = h => p.id # i)  BY <1>2
<1>4. \A g \in Nodes : PendOK(g)'
  <2>1. IsFiniteSet(chPend[h]) /\ Cardinality(chPend[h]) <= ChanSlots  BY DEF FlowInv, TablesOK
  <2>2. t \in SUBSET chPend[h]  OBVIOUS
  <2> HIDE DEF t
  <2>3. IsFiniteSet(t) /\ Cardinality(t) <= Cardinality(chPend[h])  BY <2>1, <2>2, FS_Subset
  <2>4. Cardinality(t) \in Nat /\ Cardinality(chPend[h]) \in Nat  BY <2>1, <2>3, FS_CardinalityType
  <2>5. Cardinality(t) <= ChanSlots  BY <2>1, <2>3, <2>4, OpFlowAssumption
  <2> QED BY <1>2, <2>3, <2>5 DEF PendOK, FlowInv, TablesOK
<1>5. x \in Msgs /\ x.id = i /\ x.cmd = "crep"  BY DEF Msgs
<1>6. frames' = w \/ (mine # {} /\ \E to : frames' = SendAll(w, h, to, x))  BY DEF RouteReply, SendOne
<1> HIDE DEF x, t
<1>7. frames' \in Nets /\ \A k : Travels(frames', k) => Travels(frames, k) \/ (k = x /\ mine # {})
  BY <1>5, <1>6, SendTravels
<1>8. mine # {} => Out(i)  BY <1>1 DEF RequestOK, KeyOK
<1>9. \A j : (Out(j)' <=> Out(j)) /\ \A g : ring_has(g, j)' <=> ring_has(g, j)  BY DEF Out, ring_has
<1>10. \A k : Travels(frames, k)' <=> Travels(frames', k)  BY DEF Travels
<1>11. \A m \in Msgs : Travels(frames, m)' => Out(m.id)'  BY <1>5, <1>7, <1>8, <1>9, <1>10 DEF FlowInv
<1>12. \A j : Failing(j)' => Failing(j)
  <2>1. \A j : Failure(j) # x  BY <1>5 DEF Failure
  <2> QED BY <1>7, <1>10, <2>1 DEF Failing
<1>13. /\ keyed' \in [Ids -> Nat] /\ \A j \in Ids \ {i} : keyed'[j] = keyed[j]
       /\ keyed'[i] = keyed[i] \/ ((\E p \in mine : p.from = Nobody) /\ keyed'[i] = keyed[i] + 1)
  BY <1>1 DEF RouteReply
<1>14. FlowShapes'  BY <1>2, <1>7, <1>13 DEF FlowInv, FlowShapes
<1>15. \A g \in Nodes : TablesOK(g)'  BY <1>4 DEF FlowInv, TablesOK, PendOK
<1>16. Covered'  BY DEF FlowInv, Covered
<1>17. ASSUME NEW j \in Ids \ {i} PROVE CalmFor(j)
  <2>1. Granted(j)' => Granted(j)  BY DEF Granted
  <2>2. \A g \in Nodes : \A p \in chPend'[g] : p.id = j => \E q \in chPend[g] : q.id = j /\ q.from = p.from  BY <1>3
  <2> QED BY <1>9, <1>12, <1>13, <2>1, <2>2 DEF CalmFor
<1>18. RequestOK(i)'
  <2>1. SeenOK(i)' /\ ActedOK(i)'  BY <1>1, <1>9 DEF RequestOK, SeenOK, ActedOK
  <2>2. FailOK(i)'
    <3>1. Granted(i)' <=> Granted(i)  BY DEF Granted
    <3> QED BY <1>1, <1>9, <1>12, <3>1 DEF RequestOK, FailOK
  <2>3. KeyOK(i)'
    <3>1. KeyOK(i)  BY <1>1 DEF RequestOK
    <3>2. CASE keyed'[i] = keyed[i]  BY <1>3, <1>9, <3>1, <3>2 DEF KeyOK
    <3>3. CASE (\E p \in mine : p.from = Nobody) /\ keyed'[i] = keyed[i] + 1
      <4>1. Out(i) /\ h = Req[i].at /\ keyed[i] = 0  BY <3>1, <3>3 DEF KeyOK
      <4>2. i \in asked  BY <1>1, <4>1, Places DEF RequestOK, SeenOK, Out
      <4>3. ASSUME NEW g \in Nodes, NEW p \in chPend'[g], p.id = i PROVE p.from # Nobody
        <5>1. p \in chPend[g] /\ g # h  BY <1>3, <4>3
        <5> QED BY <3>1, <4>1, <4>3, <5>1 DEF KeyOK
      <4> QED BY <1>9, <3>3, <4>1, <4>2, <4>3 DEF KeyOK
    <3> QED BY <1>13, <3>2, <3>3
  <2> QED BY <2>1, <2>2, <2>3 DEF RequestOK
<1> QED BY <1>11, <1>14, <1>15, <1>16, <1>17, <1>18, OneMoves

(* A bot answers a key request.                                            *)
LEMMA ChanReplyKeeps ==
    ASSUME FlowInv, NEW i \in Ids, NEW b \in Bots, NEW h \in Nodes, NEW good \in BOOLEAN, process_chan_reply(i, b, h, good)
    PROVE  FlowInv'
<1>1. UNCHANGED <<asked, ring, opPend, joined, on, stale, handled, granted, failed, opFaults>>
  BY DEF process_chan_reply
<1>2. CASE RouteReply(frames, h, i)
  <2>1. frames \in Nets  BY DEF FlowInv, FlowShapes
  <2> QED BY <1>1, <1>2, <2>1, ReplyKeeps
<1>3. CASE UNCHANGED <<frames, keyed, chPend>>
  <2>1. FlowShapes'  BY <1>1, <1>3 DEF FlowInv, FlowShapes
  <2>2. \A m : Travels(frames, m)' => Travels(frames, m)  BY <1>3 DEF Travels
  <2> QED BY <1>1, <1>3, <2>1, <2>2, QuietKeeps
<1> QED BY <1>2, <1>3 DEF process_chan_reply

(* An answer from a peer.                                                  *)
LEMMA ForwardReplyKeeps ==
    ASSUME FlowInv, NEW g \in Nodes, NEW h \in Nodes, process_forward_chan_reply(g, h) PROVE FlowInv'
<1>1. frames[g][h] # <<>> /\ UNCHANGED <<asked, ring, opPend, joined, on, stale, handled, granted, failed, opFaults>>
      /\ RouteReply(Taken(g, h), h, Head(frames[g][h]).id)
  BY DEF process_forward_chan_reply, Incoming
<1> DEFINE i == Head(frames[g][h]).id
           w == Taken(g, h)
<1>2. i \in Ids /\ w \in Nets /\ (\A m : Travels(w, m) => Travels(frames, m)) /\ RouteReply(w, h, i)
  BY <1>1, FrameRead
<1> HIDE DEF i, w
<1> QED BY <1>1, <1>2, ReplyKeeps

-----------------------------------------------------------------------------
(* The theorem.                                                            *)

(* Nothing is asked at the start.                                          *)
LEMMA FlowStarts == OfInit => FlowInv
<1> SUFFICES ASSUME OfInit PROVE FlowInv  OBVIOUS
<1>1. <<>> \in Seq(Ids) /\ <<>> \in Seq(Msgs) /\ Len(<<>>) = 0 /\ DOMAIN <<>> = {}  OBVIOUS
<1>2. FlowShapes  BY <1>1, OpFlowAssumption DEF OfInit, FlowShapes, Nets
<1>3. \A m : ~Travels(frames, m)  BY <1>1 DEF OfInit, Travels, Has
<1>4. \A h \in Nodes, i \in Ids : ~ring_has(h, i)  BY <1>1 DEF OfInit, ring_has, Range
<1>5. ASSUME NEW h \in Nodes PROVE TablesOK(h)
  <2>1. ring[h] = <<>> /\ opPend[h] = {} /\ chPend[h] = {}  BY DEF OfInit
  <2>2. IsFiniteSet({}) /\ Cardinality({}) = 0  BY FS_EmptySet
  <2>3. Distinct(ring[h])  BY <1>1, <2>1 DEF Distinct
  <2> QED BY <1>1, <2>1, <2>2, <2>3, OpFlowAssumption DEF TablesOK
<1>6. ASSUME NEW i \in Ids PROVE RequestOK(i)
  <2>1. ~Failing(i) /\ ~Granted(i)  BY <1>3 DEF OfInit, Failing, Granted
  <2> QED BY <1>4, <2>1 DEF OfInit, RequestOK, SeenOK, ActedOK, FailOK, KeyOK
<1>7. Covered  BY DEF OfInit, Covered
<1> QED BY <1>2, <1>3, <1>5, <1>6, <1>7 DEF FlowInv

(* Every step keeps the invariant.                                         *)
LEMMA FlowKeeps == RingHolds /\ FlowInv /\ [OfNext]_opVars => FlowInv'
<1> SUFFICES ASSUME RingHolds, FlowInv, [OfNext]_opVars PROVE FlowInv'  OBVIOUS
<1>1. CASE \E i \in Ids : process_op_request(i) \/ admin_op_user(i) \/ elder_chan_request(i) \/ RequestAges(i)
  BY <1>1, OpRequestKeeps, AdminOpKeeps, ElderKeeps, AgesKeeps
<1>2. CASE \E g, h \in Nodes : OfHubStep(g, h) \/ PeerLost(g, h)
  BY <1>2, ForwardOpKeeps, GrantKeeps, FailedKeeps, ForwardKeyKeeps, ForwardReplyKeeps, PeerLostKeeps DEF OfHubStep
<1>3. CASE \E i \in Ids, b \in Bots, h \in Nodes, good \in BOOLEAN : process_chan_reply(i, b, h, good)
  BY <1>3, ChanReplyKeeps
<1>4. CASE \E h \in Nodes : ReplyTimesOut(h)  BY <1>4, TimesOutKeeps
<1>5. CASE \E b \in Bots : BotLost(b)  BY <1>5, BotLostKeeps
<1>6. CASE UNCHANGED opVars
  <2>1. FlowShapes'  BY <1>6 DEF opVars, opState, FlowInv, FlowShapes
  <2>2. \A m : Travels(frames, m)' => Travels(frames, m)  BY <1>6 DEF opVars, opState, Travels
  <2> QED BY <1>6, <2>1, <2>2, QuietKeeps DEF opVars, opState
<1> QED BY <1>1, <1>2, <1>3, <1>4, <1>5, <1>6 DEF OfNext

(* What the invariant is for.                                              *)
LEMMA InvFlows == FlowInv => FlowTrue
<1> SUFFICES ASSUME FlowInv PROVE FlowTrue  OBVIOUS
<1>1. OfTypeOK
  <2>1. ASSUME NEW h \in Nodes PROVE Range(ring[h]) \subseteq Ids
    <3>1. ring[h] \in Seq(Ids)  BY DEF FlowInv, FlowShapes
    <3> QED BY <3>1 DEF Range
  <2> QED BY <2>1 DEF FlowInv, FlowShapes, TablesOK, OfTypeOK, ChSlots
<1>2. HandledOnce  BY DEF FlowInv, RequestOK, ActedOK, HandledOnce
<1>3. FailedTrue
  <2> SUFFICES ASSUME NEW i \in failed, NEW b \in Bots, <<i, b>> \in granted PROVE FALSE  BY DEF FailedTrue
  <2>1. i \in Ids /\ Failing(i) /\ Granted(i)  BY DEF FlowInv, FlowShapes, Failing, Granted
  <2> QED BY <2>1 DEF FlowInv, RequestOK, FailOK
<1>4. KeyOnce  BY DEF FlowInv, RequestOK, KeyOK, KeyOnce
<1> QED BY <1>1, <1>2, <1>3, <1>4 DEF FlowTrue

(* Every hub acts on a routed request at most once, along however many     *)
(* paths it comes; a requester that was told of a failure is never opped   *)
(* for that request, by any hub, before or after; and a key is delivered   *)
(* once, however many bots answer.  For any mesh, rosters however stale,   *)
(* and any loss of links and bots, as long as the rings of seen ids do not *)
(* overflow (process_op_request, process_forward_op_request, RouteReply).  *)
THEOREM FlowTrueAlways == ASSUME RingHolds PROVE OfSpec => []FlowTrue
<1>1. OfInit => FlowInv  BY FlowStarts
<1>2. FlowInv /\ [OfNext]_opVars => FlowInv'  BY FlowKeeps
<1>3. FlowInv => FlowTrue  BY InvFlows
<1> QED BY <1>1, <1>2, <1>3, PTL DEF OfSpec

=============================================================================
