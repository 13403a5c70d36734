------------------------------- MODULE Upgrade -------------------------------
(***************************************************************************)
(* One network upgrade.  The driver freezes the config, asks every node of *)
(* the mesh whether it can take the build, closes the plan, then commits   *)
(* bots in waves, peer hubs one at a time and itself last.  Hubs on the    *)
(* way relay the question down and the answers up, and remember for COMMIT *)
(* and ABORT which peer a node was heard from.  A committed node restarts: *)
(* its links and everything it held in memory are gone.                    *)
(*                                                                         *)
(* Frames of one link arrive in order and are lost with the link.  A wait  *)
(* of consts.rs may run out whenever it runs.                              *)
(***************************************************************************)
EXTENDS Naturals, Sequences, FiniteSets

CONSTANTS
    Hubs, Bots, Driver, None,
    Links,       \* the peer links there are, {g, h}
    Home,        \* Home[b]: the hub bot b connects to
    ClientOrder, \* the driver's connections as its client table has them
    Selections,  \* what an admin may name; {} is the whole network
    Unfit,       \* nodes that cannot take the build
    Flaky,       \* nodes whose install may be refused, or whose new build may not stay up
    Retained,    \* hubs that still hold the .prev of an earlier upgrade
    Expiring,    \* hubs whose PREPARE may outlive UPGRADE_PREPARE_TTL
    SameVersion, \* the run changes the code base and not the version
    Divisor, WaveMax, \* UPGRADE_BOT_WAVE_DIVISOR, UPGRADE_BOT_WAVE_MAX
    Frail,       \* links that may be lost, hubs that may crash
    MaxFaults    \* bound, by selection: how often, PREPAREs that expire included

Nodes == Hubs \cup Bots
PeerHubs == Hubs \ {Driver}

ASSUME UpgradeAssumption ==
    /\ IsFiniteSet(Nodes) /\ Driver \in Hubs /\ None \notin Nodes /\ Hubs \cap Bots = {}
    /\ Home \in [Bots -> Hubs] /\ MaxFaults \in [Selections -> Nat] /\ SameVersion \in BOOLEAN
    /\ Divisor \in Nat \ {0} /\ WaveMax \in Nat \ {0}
    /\ \A l \in Links : \E g, h \in Hubs : g # h /\ l = {g, h}
    /\ Selections \subseteq SUBSET Nodes /\ ClientOrder \in Seq(Nodes)
    /\ \A n \in Nodes : {n, Driver} \in Links \/ (n \in Bots /\ Home[n] = Driver) =>
         \E i \in 1 .. Len(ClientOrder) : ClientOrder[i] = n

VARIABLES
    run,     \* PendingUpgrade of the driver: phase, table (row, in order), selection
    frozen,  \* OPT_CONFIG_FROZEN as the driver holds it
    plan,    \* plan[h]: h holds a roll-up plan
    follow,  \* follow[h]: the run h follows
    seen,    \* hubs whose seen-ring holds the id
    proc,    \* "up", or why the process is being replaced
    build, prev, marker, \* what runs, the retained .prev, the marker file
    up, wire, \* connections that stand, the frames on them
    faults,
    stage, granted \* history: how the run went, nodes a COMMIT was sent to

vars == <<run, frozen, plan, follow, seen, proc, build, prev, marker, up, wire, faults, stage, granted>>
disk == <<build, prev, marker>>
host == <<proc, build, prev, marker>>
hist == <<stage, granted>>

Edges == Links \cup {{b, Home[b]} : b \in Bots}
Chans == UNION {{<<a, b>> : b \in {x \in Nodes : {a, x} \in Edges}} : a \in Nodes}
Row   == [st : {"none", "Pending", "Ready", "Unable", "Committed", "Done", "Failed"},
          via : Hubs \cup {None}, back : BOOLEAN, seq : Nat, rel : Nat, skip : BOOLEAN]
NoRow == [st |-> "none", via |-> None, back |-> FALSE, seq |-> 0, rel |-> 0, skip |-> FALSE]
NewRow(st) == [NoRow EXCEPT !.st = st]
NoRun == [phase |-> "Idle", row |-> [n \in Nodes |-> NoRow], order |-> <<>>, sel |-> {}]
NoFollow == [on |-> FALSE, origin |-> None, ready |-> FALSE, fresh |-> FALSE,
             route |-> [n \in Nodes |-> None]]

TypeOK ==
    /\ run.phase \in {"Idle", "Prepare", "Rolling", "Done", "Failed", "Aborted"}
    /\ run.row \in [Nodes -> Row] /\ run.sel \in Selections \cup {{}}
    /\ \A i, j \in DOMAIN run.order : run.order[i] = run.order[j] => i = j
    /\ {n \in Nodes : run.row[n].st # "none"} = {run.order[i] : i \in DOMAIN run.order}
    /\ frozen \in BOOLEAN /\ plan \in [Hubs -> BOOLEAN] /\ seen \subseteq Hubs
    /\ \A h \in Hubs : /\ follow[h].origin \in Hubs \cup {None}
                       /\ follow[h].route \in [Nodes -> Hubs \cup {None}]
    /\ proc \in [Nodes -> {"up", "install", "restore"}]
    /\ build \in [Nodes -> {"older", "old", "new"}] /\ prev \in [Hubs -> {"none", "older", "old"}]
    /\ marker \in [Nodes -> BOOLEAN] /\ up \subseteq Edges /\ faults \in Nat

Init ==
    /\ run = NoRun /\ frozen = FALSE /\ plan = [h \in Hubs |-> FALSE]
    /\ follow = [h \in Hubs |-> NoFollow] /\ seen = {}
    /\ proc = [n \in Nodes |-> "up"] /\ build = [n \in Nodes |-> "old"]
    /\ prev = [h \in Hubs |-> IF h \in Retained THEN "older" ELSE "none"]
    /\ marker = [n \in Nodes |-> FALSE]
    /\ up = Edges /\ wire = [c \in Chans |-> <<>>] /\ faults = 0
    /\ stage = "idle" /\ granted = {}

-----------------------------------------------------------------------------
(* Frames.                                                                 *)

Frame(t, n, v) == [t |-> t, n |-> n, v |-> v]
Send(w, a, b, m) == IF {a, b} \in up THEN [w EXCEPT ![<<a, b>>] = Append(@, m)] ELSE w
Took(a, b) == [wire EXCEPT ![<<a, b>>] = Tail(@)]
Peers(h) == {g \in Hubs : {g, h} \in up /\ g # h}
MyBots(h) == {b \in Bots : Home[b] = h /\ {b, h} \in up}

(* The process of n is gone, with its connections.                         *)
Gone(n, w) == [c \in Chans |-> IF n \in {c[1], c[2]} THEN <<>> ELSE w[c]]
Dies(n, why, w) ==
    /\ proc' = [proc EXCEPT ![n] = why]
    /\ up' = {e \in up : n \notin e} /\ wire' = Gone(n, w)
    /\ follow' = IF n \in Hubs THEN [follow EXCEPT ![n] = NoFollow] ELSE follow
    /\ seen' = seen \ {n}

-----------------------------------------------------------------------------
(* The driver's table.                                                     *)

Active == run.phase \in {"Prepare", "Rolling"}
In(R, sts) == {n \in Nodes : R.row[n].st \in sts}
selected(R, n) == R.sel = {} \/ n \in R.sel
Hop(R, n) == IF R.row[n].via # None THEN R.row[n].via ELSE n
Added(R, n, r) == [R EXCEPT !.row[n] = r, !.order = Append(@, n)]

(* What sequence t has at the places J, in its order.                      *)
At(t, J) ==
    LET pick[P \in SUBSET DOMAIN t] ==
          [k \in 1 .. Cardinality(P) |-> t[CHOOSE i \in P : Cardinality({j \in P : j <= i}) = k]]
    IN  pick[J]

(* relays_owed: bots the hubs said they asked, less the remote bots known. *)
relays_owed(R) ==
    LET sum[S \in SUBSET Hubs] ==
          IF S = {} THEN 0 ELSE LET h == CHOOSE x \in S : TRUE IN R.row[h].rel + sum[S \ {h}]
        known == Cardinality({b \in Bots : R.row[b].st # "none" /\ R.row[b].via # None})
    IN  IF sum[Hubs] > known THEN sum[Hubs] - known ELSE 0

(* The row of node n once its READY is in.                                 *)
answered(R, r, m) ==
    LET ok == m.v.ok /\ R.phase = "Prepare"
        s  == 1 + Cardinality({n \in Nodes : R.row[n].seq > 0})
    IN  [r EXCEPT !.st = IF ok /\ selected(R, m.n) THEN "Ready" ELSE "Unable",
                  !.seq = IF @ = 0 THEN s ELSE @,
                  !.skip = ~selected(R, m.n),
                  !.rel = IF m.n \in Hubs THEN m.v.rel ELSE 0]

(* note_ready: a node heard of through a peer joins the table with that    *)
(* peer as its route; an answer counts once.                               *)
note_ready(R, m, from) ==
    LET known == R.row[m.n].st # "none"
        r == [(IF known THEN R.row[m.n] ELSE NewRow("Pending")) EXCEPT
                 !.via = IF @ = None /\ m.n # Driver THEN from ELSE @]
        R1 == IF known THEN [R EXCEPT !.row[m.n] = r] ELSE Added(R, m.n, r)
    IN  IF ~Active \/ (~known /\ from = None) THEN R
        ELSE IF r.st # "Pending" THEN R1
        ELSE [R1 EXCEPT !.row[m.n] = answered(R1, r, m)]

(* Mutant: whatever a committed node reports, it is taken as moved.        *)
note_result_any(R, m) ==
    IF R.row[m.n].st # "Committed" THEN R ELSE [R EXCEPT !.row[m.n].st = "Done"]

(* note_result: a RESULT answers a COMMIT; anything else is dropped.       *)
note_result(R, m) ==
    IF R.row[m.n].st # "Committed" THEN R
    ELSE IF m.v = "back" THEN [R EXCEPT !.row[m.n].back = TRUE]
    ELSE [R EXCEPT !.row[m.n].st = CASE m.v = "ok" -> "Done"
                                     [] m.v = "skip" -> "Unable"
                                     [] OTHER -> "Failed"]

(* note_presence: a node announced itself.  Only a committed one that is   *)
(* on the target counts; a bot is then back, and done when it says so.  A  *)
(* bot that was done and shows the old build fell back.                    *)
note_presence(R, n) ==
    LET r == R.row[n]  there == build[n] = "new"
    IN  IF R.phase # "Rolling" THEN R
        ELSE IF r.st = "Done" /\ ~there /\ n \in Bots /\ ~SameVersion THEN [R EXCEPT !.row[n].st = "Failed"]
        ELSE IF r.st # "Committed" \/ ~there THEN R
        ELSE IF n \in Bots THEN [R EXCEPT !.row[n].back = TRUE]
        ELSE IF SameVersion THEN R
        ELSE [R EXCEPT !.row[n].st = "Done"]

-----------------------------------------------------------------------------
(* The run.                                                                *)

(* One frame to each node of ns, in the order of the table.                *)
Told(w, R, t, ns) ==
    [c \in Chans |-> IF c[1] = Driver /\ {Driver, c[2]} \in up
                     THEN w[c] \o At([i \in DOMAIN R.order |-> Frame(t, R.order[i], "")],
                                     {i \in DOMAIN R.order : R.order[i] \in ns /\ Hop(R, R.order[i]) = c[2]})
                     ELSE w[c]]

(* finish: the plan is kept, the freeze lifted.                            *)
finish(R, phase) ==
    LET moved == In(R, {"Done"}) # {} \/ R.row[Driver].st = "Committed"
    IN  /\ run' = [R EXCEPT !.phase = phase]
        /\ frozen' = FALSE
        /\ plan' = [plan EXCEPT ![Driver] = IF R.sel # {} THEN @
                                            ELSE IF phase = "Aborted" THEN FALSE
                                            ELSE @ \/ moved]
        /\ stage' = IF phase = "Done" THEN "done" ELSE "aborted"

(* abort: every node that moved or is moving is told to go back.           *)
abort(R, w) ==
    /\ wire' = Told(w, R, "abort", In(R, {"Committed", "Done"}) \ {Driver})
    /\ finish(R, "Aborted")

(* A COMMIT may go to n: its hub has not restarted and can be reached.     *)
Reachable(R, n) ==
    LET hop == Hop(R, n)
    IN  /\ hop # n => R.row[hop].st \notin {"Committed", "Done", "Failed"}
        /\ {Driver, hop} \in up

(* commit_node, for each node of ns.                                       *)
commit_node(R, ns) ==
    [R EXCEPT !.row = [n \in Nodes |->
        IF n \notin ns THEN R.row[n]
        ELSE [R.row[n] EXCEPT !.st = IF Reachable(R, n) THEN "Committed" ELSE "Unable"]]]

(* The rows start asks itself: bots it was told to move, every peer hub.   *)
Asked(s) == {n \in Nodes : {n, Driver} \in up /\ (n \in Hubs \/ s = {} \/ n \in s)}

(* This hub answers for itself.                                            *)
SelfRow(s) ==
    IF s # {} /\ Driver \notin s THEN [NewRow("Unable") EXCEPT !.skip = TRUE]
    ELSE NewRow(IF Driver \in Unfit THEN "Unable" ELSE "Ready")

(* Nodes of the selection nobody was asked for wait in the table.          *)
Seeded(s) ==
    LET S == s \ (Asked(s) \cup {Driver})
    IN  CHOOSE q \in [1 .. Cardinality(S) -> S] : \A n \in S : \E i \in DOMAIN q : q[i] = n

(* start: freeze, ask every connection, answer for itself, seed the rest   *)
(* of a selection.                                                         *)
start(s) ==
    /\ run.phase = "Idle" /\ ~frozen /\ stage = "idle" /\ proc[Driver] = "up"
    /\ run' = [phase |-> "Prepare", sel |-> s,
               order |-> At(ClientOrder, {i \in DOMAIN ClientOrder : ClientOrder[i] \in Asked(s)}) \o <<Driver>> \o Seeded(s),
               row |-> [n \in Nodes |-> IF n = Driver THEN SelfRow(s)
                                        ELSE NewRow(IF n \in Asked(s) \cup s THEN "Pending" ELSE "none")]]
    /\ wire' = Told(wire, run', "prepare", Asked(s))
    /\ frozen' = TRUE /\ seen' = seen \cup {Driver} /\ stage' = "asking"
    /\ UNCHANGED <<plan, follow, host, up, faults, granted>>

(* What tick does with the rows whose wait has run out (exp): bots seen    *)
(* back are done.                                                          *)
ops_grace(R, exp) ==
    [R EXCEPT !.row = [n \in Nodes |-> IF n \in exp /\ R.row[n].st = "Committed" /\ R.row[n].back
                                       THEN [R.row[n] EXCEPT !.st = "Done"] ELSE R.row[n]]]

(* Mutant: the driver waits for every answer.                              *)
tick_prepareWaits(exp) ==
    /\ run.phase = "Prepare" /\ proc[Driver] = "up"
    /\ In(run, {"Pending"}) = {} /\ relays_owed(run) = 0
    /\ run' = [run EXCEPT !.phase = "Rolling"] /\ stage' = "moving"
    /\ UNCHANGED <<frozen, plan, follow, seen, host, up, wire, faults, granted>>

(* tick while preparing: the plan is closed once everybody answered and    *)
(* the table has settled, or the wait ran out.                             *)
tick_prepare(exp) ==
    /\ run.phase = "Prepare" /\ proc[Driver] = "up"
    /\ exp \/ (In(run, {"Pending"}) = {} /\ relays_owed(run) = 0)
    /\ LET R == [run EXCEPT !.row = [n \in Nodes |-> IF run.row[n].st = "Pending"
                                      THEN [run.row[n] EXCEPT !.st = "Unable"] ELSE run.row[n]]]
       IN  \/ /\ In(R, {"Ready"}) = {} /\ finish(R, "Done")
          \/ /\ In(R, {"Ready"}) # {} /\ run' = [R EXCEPT !.phase = "Rolling"]
             /\ stage' = "moving" /\ UNCHANGED <<frozen, plan>>
    /\ UNCHANGED <<follow, seen, host, up, wire, faults, granted>>

(* Mutant: hubs go in the order they answered.                             *)
next_hubFirst(R) ==
    LET hs == In(R, {"Ready"}) \cap PeerHubs
    IN  IF hs = {} THEN Driver ELSE CHOOSE h \in hs : \A g \in hs : R.row[h].seq <= R.row[g].seq

(* The next hub to commit: the one whose READY came last, then this hub.   *)
next_hub(R) ==
    LET hs == In(R, {"Ready"}) \cap PeerHubs
    IN  IF hs = {} THEN Driver ELSE CHOOSE h \in hs : \A g \in hs : R.row[h].seq >= R.row[g].seq

(* The bots a tick may have in flight.                                     *)
wave(R) ==
    LET q == Cardinality(In(R, {"Ready", "Committed", "Done"}) \cap Bots) \div Divisor
    IN  IF q < 1 THEN 1 ELSE IF q > WaveMax THEN WaveMax ELSE q

(* The bots this tick tries: in order, until the wave is full.             *)
InWave(R) ==
    LET bots == In(R, {"Ready"}) \cap Bots
        pos(n) == CHOOSE i \in DOMAIN R.order : R.order[i] = n
        before(n) == {b \in bots : pos(b) < pos(n) /\ Reachable(R, b)}
    IN  {n \in bots : Cardinality(In(R, {"Committed"})) + Cardinality(before(n)) < wave(R)}

(* Nothing is mid-restart.                                                 *)
settled(R) == In(R, {"Committed"}) = {}

(* commit_self: the run is over before this hub is replaced; refused, it   *)
(* stays and says so.                                                      *)
commit_self(R) ==
    LET R1 == [R EXCEPT !.row[Driver].st = "Committed"]
    IN  /\ granted' = granted \cup {Driver} /\ frozen' = FALSE
        /\ plan' = [plan EXCEPT ![Driver] = @ \/ R.sel = {}]
        /\ stage' = "done"
        /\ \/ /\ run' = NoRun /\ Dies(Driver, "install", wire)
              /\ prev' = [prev EXCEPT ![Driver] = build[Driver]]
              /\ marker' = [marker EXCEPT ![Driver] = TRUE] /\ UNCHANGED build
           \/ /\ Driver \in Flaky
              /\ run' = [R1 EXCEPT !.row[Driver].st = "Failed", !.phase = "Failed"]
              /\ UNCHANGED <<follow, seen, host, up, wire>>

(* Who is tried next gets its COMMIT, or is left out when it cannot be     *)
(* reached.                                                                *)
commit_next(R) ==
    \E next \in {IF In(R, {"Ready"}) \cap Bots # {} THEN InWave(R) ELSE {next_hub(R)}} :
    \E sent \in {{n \in next : Reachable(R, n)}} :
        /\ run' = commit_node(R, next) /\ granted' = granted \cup sent
        /\ wire' = Told(wire, R, "commit", sent)
        /\ UNCHANGED <<frozen, plan, follow, seen, host, up, stage>>

(* tick while rolling, the table being R: one stalled or failed node ends  *)
(* the run for all; bots go in waves, then hubs one at a time.             *)
roll(R, exp) ==
    LET stalled == {i \in DOMAIN R.order : R.order[i] \in exp /\ R.row[R.order[i]].st = "Committed"}
        bots == In(R, {"Ready"}) \cap Bots
    IN  \/ /\ stalled # {}
           /\ \E n \in {R.order[CHOOSE i \in stalled : \A j \in stalled : i <= j]} :
                 abort([R EXCEPT !.row[n].st = "Failed"], wire)
           /\ UNCHANGED <<follow, seen, host, up, granted>>
        \/ /\ stalled = {} /\ In(R, {"Failed"}) # {} /\ abort(R, wire)
           /\ UNCHANGED <<follow, seen, host, up, granted>>
        \/ /\ stalled = {} /\ In(R, {"Failed"}) = {}
           /\ bots # {} \/ (settled(R) /\ In(R, {"Ready"}) \cap PeerHubs # {})
           /\ commit_next(R)
        \/ /\ stalled = {} /\ In(R, {"Failed", "Ready"}) = {} /\ settled(R) /\ finish(R, "Done")
           /\ UNCHANGED <<follow, seen, host, up, wire, granted>>
        \/ /\ stalled = {} /\ In(R, {"Failed"}) = {} /\ settled(R)
           /\ In(R, {"Ready"}) = {Driver} /\ commit_self(R)
        \/ /\ stalled = {} /\ In(R, {"Failed"}) = {} /\ bots = {} /\ ~settled(R) /\ run' = R
           /\ UNCHANGED <<frozen, plan, follow, seen, host, up, wire, hist>>
tick_rolling(exp) ==
    /\ run.phase = "Rolling" /\ proc[Driver] = "up" /\ UNCHANGED faults
    /\ \E R \in {ops_grace(run, exp)} : roll(R, exp)

(* upgrade abort, typed here or flooded from another hub.                  *)
AdminAbort ==
    /\ Active /\ proc[Driver] = "up" /\ abort(run, wire)
    /\ UNCHANGED <<follow, seen, host, up, faults, granted>>

-----------------------------------------------------------------------------
(* Frames at a hub h, from hub or bot a; w is the wires without the frame. *)

Quiet == UNCHANGED <<frozen, plan, host, up, faults, hist>>
Answer(w, h, a, n, st) == Send(w, h, a, Frame("result", n, st))

(* The question goes on to bots and to every peer but the one it came from. *)
Relayed(h, a, bots, w) ==
    [c \in Chans |-> IF c[1] = h /\ c[2] \in bots \cup (Peers(h) \ {a})
                     THEN Append(w[c], Frame("prepare", c[2], "")) ELSE w[c]]

(* peer_prepare: a hub joins a run once, asks its selected bots and its    *)
(* other peers, and answers for itself.                                    *)
peer_prepare(h, a, w) ==
    IF h \in seen THEN wire' = w /\ UNCHANGED <<run, follow, seen, plan>>
    ELSE LET bots  == {b \in MyBots(h) : selected(run, b)}
             ready == selected(run, h) /\ h \notin Unfit
         IN  /\ seen' = seen \cup {h}
             /\ follow' = [follow EXCEPT ![h] = [NoFollow EXCEPT !.on = TRUE, !.origin = a,
                                                                !.ready = ready, !.fresh = TRUE]]
             /\ plan' = [plan EXCEPT ![h] = @ \/ run.sel = {}]
             /\ wire' = Send(Relayed(h, a, bots, w), h, a,
                             Frame("ready", h, [ok |-> ready, rel |-> Cardinality(bots)]))
             /\ UNCHANGED run

(* relay_upstream, then note_ready or note_result: an answer goes on to    *)
(* the hub the run came from; at the driver it is noted.                   *)
answer(h, a, m, w) ==
    IF follow[h].on /\ a # follow[h].origin
    THEN /\ wire' = Send(w, h, follow[h].origin, m)
         /\ follow' = IF m.t = "ready" /\ a \in Hubs THEN [follow EXCEPT ![h].route[m.n] = a] ELSE follow
         /\ UNCHANGED run
    ELSE /\ wire' = w /\ UNCHANGED follow
         /\ run' = IF h # Driver THEN run
                   ELSE IF m.t = "ready" THEN note_ready(run, m, IF a \in Hubs THEN a ELSE None)
                   ELSE note_result(run, m)

(* rollup and presence of a bot at its hub: the driver notes it, a hub on  *)
(* the way says "back" for it.                                             *)
presence(h, b, w) ==
    /\ wire' = IF follow[h].on /\ build[b] = "new"
               THEN Answer(w, h, follow[h].origin, b, "back") ELSE w
    /\ run' = IF h = Driver THEN note_presence(run, b) ELSE run
    /\ UNCHANGED follow

(* update::commit with nothing refused: snapshot, marker, exec.            *)
commit(h, w) ==
    /\ Dies(h, "install", w)
    /\ prev' = [prev EXCEPT ![h] = build[h]] /\ marker' = [marker EXCEPT ![h] = TRUE]
    /\ UNCHANGED <<build, run>>

(* peer_commit: for this hub, for a bot of it, or on along the route.  A   *)
(* refusal touched nothing.                                                *)
peer_commit(h, a, n, w) ==
    LET f == follow[h]
        refuse(st) == /\ wire' = Answer(w, h, a, n, st)
                      /\ UNCHANGED <<run, seen, host, up>>
        pass(to) == /\ wire' = Send(w, h, to, Frame("commit", n, ""))
                    /\ UNCHANGED <<run, follow, seen, host, up>>
    IN  \/ ~f.on /\ UNCHANGED follow
           /\ refuse(IF n = h /\ build[h] = "new" THEN "ok" ELSE "skip")
        \/ f.on /\ ~f.fresh /\ refuse("skip") /\ follow' = [follow EXCEPT ![h].on = FALSE]
        \/ f.on /\ f.fresh /\ n \in MyBots(h) /\ pass(n)
        \/ f.on /\ f.fresh /\ n \notin MyBots(h) \cup {h} /\ f.route[n] \in Peers(h) /\ pass(f.route[n])
        \/ /\ f.on /\ f.fresh /\ n \notin MyBots(h)
           /\ IF n = h THEN ~f.ready ELSE f.route[n] \notin Peers(h)
           /\ refuse("skip") /\ UNCHANGED follow
        \/ f.on /\ f.fresh /\ n = h /\ f.ready /\ commit(h, w)
        \/ /\ f.on /\ f.fresh /\ n = h /\ f.ready /\ h \in Flaky
           /\ \E st \in {"skip", "fail"} : refuse(st)
           /\ follow' = [follow EXCEPT ![h].on = FALSE]

(* peer_abort: for a bot of this hub, on along the route, or for this hub, *)
(* which puts the retained build back.                                     *)
peer_abort(h, a, n, w) ==
    LET f == follow[h]
    IN  \/ /\ n # h
           /\ wire' = IF n \in MyBots(h) THEN Send(w, h, n, Frame("abort", n, ""))
                      ELSE IF f.route[n] \in Peers(h) THEN Send(w, h, f.route[n], Frame("abort", n, "")) ELSE w
           /\ UNCHANGED <<follow, seen, host, up>>
        \/ /\ n = h /\ prev[h] = "none" /\ wire' = Answer(w, h, a, h, "aborted")
           /\ follow' = [follow EXCEPT ![h] = NoFollow] /\ UNCHANGED <<seen, host, up>>
        \/ /\ n = h /\ prev[h] # "none" /\ Dies(h, "restore", w)
           /\ marker' = [marker EXCEPT ![h] = FALSE] /\ UNCHANGED <<build, prev>>

HubFrame(a, h) ==
    LET m == Head(wire[<<a, h>>])  w == Took(a, h)
    IN  /\ <<a, h>> \in Chans /\ wire[<<a, h>>] # <<>>
        /\ \/ m.t = "prepare" /\ peer_prepare(h, a, w) /\ UNCHANGED <<frozen, host, up, faults, hist>>
           \/ m.t \in {"ready", "result"} /\ answer(h, a, m, w) /\ UNCHANGED seen /\ Quiet
           \/ m.t = "presence" /\ presence(h, m.n, w) /\ UNCHANGED seen /\ Quiet
           \/ m.t = "commit" /\ peer_commit(h, a, m.n, w) /\ UNCHANGED <<frozen, plan, faults, hist>>
           \/ m.t = "abort" /\ peer_abort(h, a, m.n, w) /\ UNCHANGED <<run, frozen, plan, faults, hist>>

-----------------------------------------------------------------------------
(* A bot: answers, restarts onto the new build, goes back.                 *)

BotFrame(b) ==
    LET h == Home[b]  m == Head(wire[<<h, b>>])  w == Took(h, b)
        says(f) == wire' = Send(w, b, h, f) /\ UNCHANGED <<run, frozen, plan, follow, seen, host, up, faults, hist>>
        restarts(why) == /\ Dies(b, why, w) /\ marker' = [marker EXCEPT ![b] = why = "install"]
                         /\ UNCHANGED <<run, frozen, plan, build, prev, faults, hist>>
    IN  /\ wire[<<h, b>>] # <<>>
        /\ \/ m.t = "prepare" /\ says(Frame("ready", b, [ok |-> b \notin Unfit, rel |-> 0]))
           \/ m.t = "commit" /\ restarts("install")
           \/ m.t = "commit" /\ b \in Flaky /\ \E st \in {"skip", "fail"} : says(Frame("result", b, st))
           \/ m.t = "abort" /\ build[b] = "new" /\ restarts("restore")
           \/ m.t = "abort" /\ build[b] = "old" /\ says(Frame("result", b, "aborted"))

(* A process comes up: on the build it was given, or, when that build does *)
(* not stay up, on the retained one.                                       *)
Return(n) ==
    /\ proc[n] # "up" /\ proc' = [proc EXCEPT ![n] = "up"]
    /\ \/ /\ proc[n] = "install" /\ build' = [build EXCEPT ![n] = "new"] /\ UNCHANGED prev
       \/ /\ proc[n] = "install" /\ n \in Flaky /\ UNCHANGED build
          /\ prev' = IF n \in Hubs THEN [prev EXCEPT ![n] = "none"] ELSE prev
       \/ /\ proc[n] = "restore"
          /\ build' = [build EXCEPT ![n] = IF n \in Hubs THEN prev[n] ELSE "old"]
          /\ prev' = IF n \in Hubs THEN [prev EXCEPT ![n] = "none"] ELSE prev
    /\ UNCHANGED <<run, frozen, plan, follow, seen, marker, up, wire, faults, hist>>

(* A new build that came up and does not stay up: the watchdog of the      *)
(* upgrade script puts the retained one back.                              *)
FallBack(n) ==
    /\ n \in Flaky /\ proc[n] = "up" /\ build[n] = "new" /\ (n \in Hubs => prev[n] # "none")
    /\ Dies(n, "restore", wire)
    /\ UNCHANGED <<run, frozen, plan, disk, faults, hist>>

(* report_pending: the first peer link after a restart is told how it went. *)
report_pending(n) == <<Frame("result", n, IF build[n] = "new" THEN "ok" ELSE "version-mismatch")>>

(* A connection comes up: two hubs, or a bot, which announces itself and,  *)
(* when it restarted for the run, reports.                                 *)
LinkUp(e) ==
    /\ e \notin up /\ (\A n \in e : proc[n] = "up") /\ up' = up \cup {e}
    /\ wire' = [c \in Chans |->
                  IF {c[1], c[2]} # e THEN wire[c]
                  ELSE (IF c[1] \in Bots THEN <<Frame("presence", c[1], "")>> ELSE <<>>)
                       \o (IF marker[c[1]] /\ (c[1] \in Bots \/ e \in Links) THEN report_pending(c[1]) ELSE <<>>)]
    /\ marker' = [n \in Nodes |-> marker[n] /\ n \notin (IF e \in Links THEN e ELSE e \cap Bots)]
    /\ UNCHANGED <<run, frozen, plan, follow, seen, proc, build, prev, faults, hist>>

(* A hub's version as the roster gossip brings it to the driver.           *)
Reach == LET R[k \in 0 .. Cardinality(Hubs)] ==
               IF k = 0 THEN {Driver} ELSE {h \in Hubs : h \in R[k-1] \/ \E g \in R[k-1] : {g, h} \in up}
         IN  R[Cardinality(Hubs)]
Gossip(h) ==
    /\ h \in Reach \ {Driver} /\ proc[Driver] = "up" /\ run' = note_presence(run, h) /\ run' # run
    /\ UNCHANGED <<frozen, plan, follow, seen, host, up, wire, faults, hist>>

(* Faults: a link is lost, a hub crashes and is started again, a PREPARE   *)
(* grows too old to be committed.                                          *)
LinkLost(e) ==
    /\ e \in up \cap Frail /\ faults < MaxFaults[run.sel] /\ faults' = faults + 1 /\ up' = up \ {e}
    /\ wire' = [c \in Chans |-> IF {c[1], c[2]} = e THEN <<>> ELSE wire[c]]
    /\ UNCHANGED <<run, frozen, plan, follow, seen, host, hist>>
Crash(h) ==
    /\ h \in Frail /\ proc[h] = "up" /\ faults < MaxFaults[run.sel] /\ faults' = faults + 1
    /\ up' = {e \in up : h \notin e} /\ wire' = Gone(h, wire)
    /\ follow' = [follow EXCEPT ![h] = NoFollow] /\ seen' = seen \ {h}
    /\ run' = IF h = Driver THEN NoRun ELSE run
    /\ stage' = IF h = Driver /\ Active THEN "lost" ELSE stage
    /\ UNCHANGED <<frozen, plan, host, granted>>
PrepareExpires(h) ==
    /\ h \in Expiring /\ follow[h].on /\ follow[h].fresh /\ run.phase = "Rolling"
    /\ faults < MaxFaults[run.sel] /\ faults' = faults + 1
    /\ follow' = [follow EXCEPT ![h].fresh = FALSE]
    /\ UNCHANGED <<run, frozen, plan, seen, host, up, wire, hist>>

Next ==
    \/ \E s \in Selections : start(s)
    \/ \E exp \in BOOLEAN : tick_prepare(exp)
    \/ \E exp \in SUBSET In(run, {"Committed"}) : tick_rolling(exp)
    \/ AdminAbort
    \/ \E h \in Hubs : (\E a \in Nodes : HubFrame(a, h)) \/ Gossip(h) \/ Crash(h) \/ PrepareExpires(h)
    \/ \E b \in Bots : BotFrame(b)
    \/ \E n \in Nodes : Return(n) \/ FallBack(n)
    \/ \E e \in Edges : LinkUp(e) \/ LinkLost(e)

(* The waits of the driver run out; nothing else has to happen.            *)
WaitsRunOut == tick_prepare(TRUE) \/ tick_rolling(In(run, {"Committed"}))
Fairness == WF_vars(WaitsRunOut)

Spec == Init /\ [][Next]_vars /\ Fairness

-----------------------------------------------------------------------------
(* Properties.                                                             *)

Abs == INSTANCE UpgradeAbs WITH
         Wave <- WaveMax, flight <- In(run, {"Committed"}), counted <- In(run, {"Done"})

(* Refinement: seen from outside, the frames, tables, routes, markers and  *)
(* restarts are the run UpgradeAbs describes: no node changes its build    *)
(* ungranted or is counted as moved when it is not, hubs restart alone,    *)
(* and only an aborted run takes a sound build back: to the one it had, or *)
(* to the .prev of an earlier upgrade where a hub still holds one, since   *)
(* peer_abort does not ask whether the COMMIT was taken.                   *)
Refines == Abs!ASpec

(* A COMMIT never reaches a hub that has forgotten the run, as long as no  *)
(* link or hub is lost and no PREPARE expires: bots go before the hubs     *)
(* that carry their COMMITs, and hubs deepest first.                       *)
CommitHasRun ==
    faults = 0 => \A c \in Chans : \A i \in DOMAIN wire[c] :
        (c[2] \in Hubs /\ wire[c][i].t = "commit") =>
           LET h == c[2]  n == wire[c][i].n
           IN  follow[h].on /\ (n \in PeerHubs \ {h} => follow[h].route[n] # None)

(* A run ends and lifts its freeze, whoever never answers, unless its      *)
(* driver dies.                                                            *)
Thaws == frozen ~> (~frozen \/ stage = "lost")

(* Once an aborted run has come to rest, with no fault on the way, every   *)
(* node it moved is back on its old build (the comment of abort).          *)
AbortRollsBack ==
    (/\ stage = "aborted" /\ faults = 0 /\ up = Edges
     /\ \A c \in Chans : wire[c] = <<>>) => \A n \in granted \ Flaky : build[n] = "old"
=============================================================================
