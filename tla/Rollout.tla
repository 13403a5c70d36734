------------------------------- MODULE Rollout -------------------------------
(***************************************************************************)
(* Around the runs of module Upgrade, on the hub that drives them: a       *)
(* target some node cannot reach in one go is planned as a path of         *)
(* releases and run one step at a time, the plan kept on disk because the  *)
(* hub restarts onto every step itself; and nodes a finished run missed    *)
(* are walked up one by one when they come back (the roll-up).  A run is   *)
(* here what it does to each node.  Releases are numbers in their order.   *)
(***************************************************************************)
EXTENDS Naturals, Sequences, FiniteSets, FiniteSetsExt

CONSTANTS
    Bots, PeerHubs, Driver,
    Manifest,    \* Manifest[p]: the releases of product p, with their min_from
    Installed,   \* Installed[n]: what node n runs at first
    Targets,     \* what an admin may ask for; hub 0 leaves the hubs alone
    Stubborn,    \* nodes that may refuse, or fail, what they could take
    Brittle,     \* nodes whose new build may be given up after they reported it
    MaxTries,    \* ROLLUP_MAX_TRIES
    MaxBegins, MaxFaults \* bounds: upgrades asked for; nodes lost and restarts

Nodes == Bots \cup PeerHubs \cup {Driver}
product(n) == IF n \in Bots THEN "bot" ELSE "hub"

ASSUME RolloutAssumption ==
    /\ Driver \notin Bots \cup PeerHubs /\ MaxTries \in Nat \ {0}
    /\ \A n \in Nodes : Installed[n] \in DOMAIN Manifest[product(n)]
    /\ \A p \in {"bot", "hub"} : \A r \in DOMAIN Manifest[p] : r \in Nat \ {0} /\ Manifest[p][r] \in Nat

VARIABLES
    ver, online, \* the release each node runs; the nodes heard from
    orun,        \* the run in flight: targets, nodes still to do, done, behind
    freeze,      \* OPT_CONFIG_FROZEN
    uplan,       \* UpgradePlan: path and step per product, a run is out, wait over
    roll,        \* PendingRollup: the plan, the attempt in flight
    tries,       \* the ledger of failed attempts
    begins, odds,
    kept         \* history: nodes that answered in the last step and keep what they took

rolVars == <<ver, online, orun, freeze, uplan, roll, tries, begins, odds, kept>>

NoORun  == [on |-> FALSE, bot |-> 0, hub |-> 0, left |-> {}, done |-> {}, heard |-> {}, behind |-> {}, was |-> Installed]
NoUplan == [active |-> FALSE, bot |-> <<>>, hub |-> <<>>, tgt |-> [bot |-> 0, hub |-> 0],
            step |-> 1, run |-> FALSE, next |-> FALSE, cut |-> FALSE]
NoRoll  == [have |-> FALSE, bot |-> 0, hub |-> 0, active |-> FALSE, node |-> Driver, step |-> 0, sent |-> FALSE]
NoTries == [n \in Nodes |-> 0]

RolTypeOK ==
    /\ \A n \in Nodes : ver[n] \in DOMAIN Manifest[product(n)] /\ tries[n] \in Nat
    /\ online \subseteq Nodes \ {Driver} /\ freeze \in BOOLEAN
    /\ orun.left \cup orun.done \cup orun.behind \subseteq Nodes
    /\ uplan.active => uplan.step \in 1 .. Max({Len(uplan.bot), Len(uplan.hub)})
    /\ roll.active => roll.node # Driver /\ roll.step # 0

RolInit ==
    /\ ver = Installed /\ online = Nodes \ {Driver} /\ orun = NoORun /\ freeze = FALSE
    /\ uplan = NoUplan /\ roll = NoRoll /\ tries = NoTries /\ begins = 0 /\ odds = 0
    /\ kept = {}

-----------------------------------------------------------------------------
(* Paths.                                                                  *)

(* next_step: the newest release that may be installed over cur, no        *)
(* further than the target; 0 when there is none.                          *)
next_step(p, cur, target) ==
    Max({0} \cup {r \in DOMAIN Manifest[p] : cur < r /\ r <= target /\ Manifest[p][r] <= cur})

(* can_take: forward, and from no further back than min_from.              *)
can_take(n, target) ==
    target \in DOMAIN Manifest[product(n)] /\ ver[n] < target /\ Manifest[product(n)][target] <= ver[n]

(* plan_path: with no first step the target itself is tried; NoPath when   *)
(* the manifest breaks off later.                                          *)
NoPath == <<0>>
plan_path(p, from, target) ==
    LET walk[k \in 0 .. target] ==  \* the path from target - k
          LET cur == target - k  s == next_step(p, cur, target)
          IN  IF k = 0 THEN <<>> ELSE IF s = 0 THEN NoPath ELSE <<s>> \o walk[target - s]
        whole == walk[target - from]
    IN  IF from >= target THEN <<>>
        ELSE IF next_step(p, from, target) = 0 THEN <<target>>
        ELSE IF \E i \in DOMAIN whole : whole[i] = 0 THEN NoPath ELSE whole

(* plan_oldest: of the nodes of a product heard from.                      *)
plan_oldest(p) ==
    LET known == {n \in online \cup {Driver} : product(n) = p}
    IN  IF known = {} THEN 0 ELSE Min({ver[n] : n \in known})

Path(p, target) ==
    IF target = 0 THEN <<>> ELSE IF plan_oldest(p) = 0 THEN <<target>> ELSE plan_path(p, plan_oldest(p), target)

steps(P) == Max({Len(P.bot), Len(P.hub)})

(* plan_step_targets: a product whose path is shorter sits the later steps *)
(* out.                                                                    *)
plan_step_targets(P, i) ==
    LET at(path, fin) == IF path = <<>> THEN fin ELSE path[Min({i, Len(path)})]
    IN  [bot |-> at(P.bot, P.tgt.bot), hub |-> IF P.tgt.hub = 0 THEN 0 ELSE at(P.hub, P.tgt.hub)]

-----------------------------------------------------------------------------
(* Runs, as the plan sees them.                                            *)

RunFor(t) == [on |-> TRUE, bot |-> t.bot, hub |-> t.hub, left |-> online, done |-> {},
              heard |-> {}, behind |-> {}, was |-> ver]
node_target(n) == IF n \in Bots THEN orun.bot ELSE orun.hub

(* plan_begin: one step is an ordinary run and keeps no plan.              *)
plan_begin(t) ==
    LET P == [NoUplan EXCEPT !.active = TRUE, !.bot = Path("bot", t.bot), !.hub = Path("hub", t.hub),
                             !.tgt = t, !.run = TRUE]
    IN  /\ begins < MaxBegins /\ begins' = begins + 1
        /\ ~uplan.active /\ ~orun.on /\ ~freeze /\ NoPath \notin {P.bot, P.hub}
        /\ \/ steps(P) <= 1 /\ orun' = RunFor(t) /\ UNCHANGED uplan
           \/ steps(P) > 1 /\ orun' = RunFor(plan_step_targets(P, 1)) /\ uplan' = P
        /\ freeze' = TRUE /\ kept' = {}
        /\ UNCHANGED <<ver, online, roll, tries, odds>>

(* A node of the run: it moves, says it cannot, or is not there.  A bot    *)
(* was known to the hub when the run began, a hub only once it answered.   *)
RunNode(n) ==
    LET to == node_target(n)
        behind(b) == orun' = [orun EXCEPT !.left = @ \ {n}, !.heard = @ \cup ({n} \cap online),
                                          !.behind = IF b /\ ver[n] < to THEN @ \cup {n} ELSE @]
    IN  /\ orun.on /\ n \in orun.left
        /\ \/ /\ n \in online /\ can_take(n, to)
              /\ ver' = [ver EXCEPT ![n] = to]
              /\ orun' = [orun EXCEPT !.left = @ \ {n}, !.done = @ \cup {n}, !.heard = @ \cup {n}]
           \/ /\ n \in online /\ (~can_take(n, to) \/ n \in Stubborn) /\ behind(TRUE) /\ UNCHANGED ver
           \/ /\ n \notin online /\ (behind(TRUE) \/ (n \in PeerHubs /\ behind(FALSE))) /\ UNCHANGED ver
        /\ UNCHANGED <<online, freeze, uplan, roll, tries, begins, odds, kept>>

(* plan_stop *)
Stopped == [uplan EXCEPT !.active = FALSE, !.run = FALSE]

(* Nodes the step left behind, this hub too when it cannot take it.        *)
left_behind == orun.behind \cup {n \in {Driver} : ver[n] < orun.hub /\ ~can_take(n, orun.hub)}

(* Mutant: nodes left behind do not stop the plan.                         *)
plan_note_run_end_on(done) ==
    IF ~uplan.active \/ ~uplan.run THEN uplan
    ELSE IF ~done \/ uplan.step + 1 > steps(uplan) THEN Stopped
    ELSE [uplan EXCEPT !.run = FALSE, !.step = @ + 1, !.next = FALSE]

(* plan_note_run_end: an aborted step, or one that left a node behind,     *)
(* stops the plan.                                                         *)
plan_note_run_end(done) ==
    IF ~uplan.active \/ ~uplan.run THEN uplan
    ELSE IF ~done \/ left_behind # {} \/ uplan.step + 1 > steps(uplan) THEN Stopped
    ELSE [uplan EXCEPT !.run = FALSE, !.step = @ + 1, !.next = FALSE]

(* finish, of a run over the whole network; self: this hub is to move yet. *)
finish_run(done, self) ==
    /\ freeze' = FALSE /\ uplan' = plan_note_run_end(done)
    /\ roll' = IF ~done THEN [roll EXCEPT !.have = FALSE]
               ELSE IF orun.done # {} \/ self THEN [roll EXCEPT !.have = TRUE, !.bot = orun.bot, !.hub = orun.hub]
               ELSE roll
    /\ IF done /\ (orun.done # {} \/ self) THEN tries' = NoTries ELSE UNCHANGED tries
    /\ kept' = IF ~done THEN {} ELSE orun.heard \cup (IF self THEN {} ELSE {Driver})

(* What a new process knows: the plans on disk, not the run nor the attempt. *)
Rebooted(U, R) ==
    /\ uplan' = [U EXCEPT !.next = FALSE] /\ orun' = NoORun
    /\ roll' = [R EXCEPT !.active = FALSE, !.sent = FALSE, !.step = 0]
    /\ tries' = NoTries

(* The run ends: this hub, when it can, is the last node of it.            *)
RunEnds ==
    /\ orun.on /\ orun.left = {}
    /\ \/ /\ ~can_take(Driver, orun.hub) /\ finish_run(TRUE, FALSE)
          /\ orun' = [orun EXCEPT !.on = FALSE] /\ UNCHANGED ver
       \/ /\ can_take(Driver, orun.hub)   \* commit_self: the run is finished, then the process is
          /\ LET r == [roll EXCEPT !.have = TRUE, !.bot = orun.bot, !.hub = orun.hub]
             IN  Rebooted(plan_note_run_end(TRUE), r)
          /\ freeze' = FALSE /\ ver' = [ver EXCEPT ![Driver] = orun.hub]
          /\ kept' = orun.heard \cup {Driver}
       \* its install fails, too late for the plan
       \/ /\ can_take(Driver, orun.hub) /\ Driver \in Stubborn /\ finish_run(TRUE, TRUE)
          /\ orun' = [orun EXCEPT !.on = FALSE] /\ UNCHANGED ver
    /\ UNCHANGED <<online, begins, odds>>

(* abort: a node failed, or an admin said so, here or on another hub.      *)
RunAborts ==
    /\ orun.on /\ ver' = [n \in Nodes |-> IF n \in orun.done THEN orun.was[n] ELSE ver[n]]
    /\ finish_run(FALSE, FALSE) /\ orun' = [orun EXCEPT !.on = FALSE]
    /\ UNCHANGED <<online, begins, odds>>

(* upgrade abort between two steps.                                        *)
AdminStop ==
    /\ uplan.active /\ ~orun.on /\ uplan' = [Stopped EXCEPT !.cut = uplan.run]
    /\ UNCHANGED <<ver, online, orun, freeze, roll, tries, begins, odds, kept>>

(* Mutant: a step that was cut off is taken up where it was.               *)
plan_tick_resume ==
    /\ uplan.active /\ ~orun.on /\ ~uplan.run
    /\ \/ ~uplan.next /\ uplan' = [uplan EXCEPT !.next = TRUE] /\ UNCHANGED <<freeze, orun>>
       \/ uplan.next /\ uplan' = Stopped /\ UNCHANGED <<freeze, orun>>
    /\ UNCHANGED <<ver, online, roll, tries, begins, odds, kept>>

(* plan_tick: a step a restart cut off is run again, its freeze lifted;    *)
(* else the next step, once the mesh has had time to come back, or the end *)
(* of a plan that made no progress for a day.                              *)
plan_tick ==
    /\ uplan.active /\ ~orun.on
    /\ \/ /\ uplan.run /\ freeze' = FALSE /\ uplan' = [uplan EXCEPT !.run = FALSE, !.next = TRUE]
          /\ UNCHANGED orun
       \/ /\ ~uplan.run /\ ~uplan.next /\ uplan' = [uplan EXCEPT !.next = TRUE] /\ UNCHANGED <<freeze, orun>>
       \/ /\ ~uplan.run /\ uplan.next /\ freeze /\ uplan' = Stopped /\ UNCHANGED <<freeze, orun>>
       \/ /\ ~uplan.run /\ uplan.next /\ ~freeze /\ ~roll.active
          /\ orun' = RunFor(plan_step_targets(uplan, uplan.step))
          /\ freeze' = TRUE /\ uplan' = [uplan EXCEPT !.run = TRUE]
    /\ UNCHANGED <<ver, online, roll, tries, begins, odds, kept>>

-----------------------------------------------------------------------------
(* The roll-up.                                                            *)

RollTarget(n) == IF n \in Bots THEN roll.bot ELSE roll.hub

(* rollup_target_proven, rollup_hub_target_proven: another node runs it.   *)
proven(n) == \E k \in (online \cup {Driver}) \ {n} : product(k) = product(n) /\ ver[k] = RollTarget(n)

rollup_may_try(n) ==
    /\ roll.have /\ ~roll.active /\ ~orun.on /\ ~uplan.active /\ ~freeze
    /\ n \in online /\ ver[n] < RollTarget(n) /\ proven(n) /\ tries[n] < MaxTries

(* rollup_end *)
rollup_end(R, charge) ==
    /\ roll' = [R EXCEPT !.active = FALSE, !.sent = FALSE, !.step = 0]
    /\ tries' = IF charge THEN [tries EXCEPT ![R.node] = @ + 1] ELSE tries

(* rollup_consider.  A bot is considered only when a presence of it        *)
(* arrives, which nothing here makes it send; ROLLUP_SETTLE and            *)
(* ROLLUP_COOLDOWN only delay what may happen.                             *)
rollup_consider(n) ==
    /\ rollup_may_try(n)
    /\ LET s == next_step(product(n), ver[n], RollTarget(n))
       IN  roll' = [roll EXCEPT !.active = TRUE, !.node = n, !.sent = FALSE,
                                !.step = IF s = 0 THEN RollTarget(n) ELSE s]
    /\ UNCHANGED <<ver, online, orun, freeze, uplan, tries, begins, odds, kept>>

(* rollup_scan_hubs: every maintenance tick considers a linked hub that is *)
(* behind; here this hub is the one of its neighbours that walks it.       *)
rollup_scan_hubs == \E h \in PeerHubs : rollup_consider(h)

(* rollup_note_ready: the node can take the step and is told to, or not.   *)
rollup_note_ready ==
    /\ roll.active /\ ~roll.sent /\ roll.node \in online
    /\ \/ /\ can_take(roll.node, roll.step) /\ roll' = [roll EXCEPT !.sent = TRUE]
          /\ UNCHANGED tries
       \/ /\ ~can_take(roll.node, roll.step) /\ rollup_end(roll, TRUE)
    /\ UNCHANGED <<ver, online, orun, freeze, uplan, begins, odds, kept>>

(* rollup_note_result, rollup_note_presence, rollup_scan_hubs: back on the *)
(* step, or a report that it failed.                                       *)
rollup_note_result ==
    /\ roll.active /\ roll.sent /\ roll.node \in online
    /\ \/ /\ ver' = [ver EXCEPT ![roll.node] = roll.step] /\ rollup_end(roll, FALSE)
       \/ roll.node \in Stubborn /\ rollup_end(roll, TRUE) /\ UNCHANGED ver
    /\ UNCHANGED <<online, orun, freeze, uplan, begins, odds, kept>>

(* rollup_tick: an attempt that went nowhere.                              *)
rollup_tick ==
    /\ roll.active /\ rollup_end(roll, TRUE)
    /\ UNCHANGED <<ver, online, orun, freeze, uplan, begins, odds, kept>>

(* rollup_owed: a node that is down keeps the plan alive.                  *)
rollup_owed ==
    \/ \E b \in Bots : b \notin online \/ ver[b] < roll.bot
    \/ roll.hub # 0 /\ \E h \in PeerHubs \cup {Driver} : (h # Driver /\ h \notin online) \/ ver[h] < roll.hub

(* rollup_forget, by an admin here, by peer_forget, or past its week.      *)
rollup_forget ==
    /\ roll.have /\ ~orun.on /\ ~freeze
    /\ roll' = NoRoll /\ tries' = NoTries
    /\ UNCHANGED <<ver, online, orun, freeze, uplan, begins, odds, kept>>

(* rollup_settle: the plan nobody is owed is dropped.                      *)
rollup_settle == ~roll.active /\ ~rollup_owed /\ rollup_forget

-----------------------------------------------------------------------------
(* Nodes come and go; this hub restarts; a build is given up again.        *)

Return_node(n) ==
    /\ n \notin online \cup {Driver} /\ online' = online \cup {n}
    /\ UNCHANGED <<ver, orun, freeze, uplan, roll, tries, begins, odds, kept>>
Leave(n) ==
    /\ n \in online /\ odds < MaxFaults /\ odds' = odds + 1 /\ online' = online \ {n}
    /\ UNCHANGED <<ver, orun, freeze, uplan, roll, tries, begins, kept>>
Restart_driver ==
    /\ odds < MaxFaults /\ odds' = odds + 1 /\ Rebooted(uplan, roll)
    /\ UNCHANGED <<ver, online, freeze, begins, kept>>
GiveUp(n) ==
    /\ n \in Brittle /\ ver[n] > Installed[n] /\ ~orun.on /\ odds < MaxFaults /\ odds' = odds + 1
    /\ ver' = [ver EXCEPT ![n] = Installed[n]] /\ kept' = kept \ {n}
    /\ UNCHANGED <<online, orun, freeze, uplan, roll, tries, begins>>

Handled == RunEnds \/ (\E n \in Nodes : RunNode(n))
Walked  == rollup_note_ready \/ rollup_note_result \/ rollup_tick

RolNext ==
    \/ \E t \in Targets : plan_begin(t)
    \/ \E n \in Nodes : RunNode(n) \/ Return_node(n) \/ Leave(n) \/ GiveUp(n)
    \/ RunEnds \/ RunAborts \/ AdminStop \/ plan_tick
    \/ (\E b \in Bots : rollup_consider(b)) \/ rollup_scan_hubs
    \/ rollup_note_ready \/ rollup_note_result \/ rollup_tick
    \/ rollup_forget \/ rollup_settle \/ Restart_driver

-----------------------------------------------------------------------------
(* Properties.                                                             *)

(* A step of a plan starts only when every node that took part in the step *)
(* before it is on that step: no node is left behind on a release the rest *)
(* of the mesh may no longer talk to (the comment of plan_note_run_end).   *)
(* Two kinds of nodes are known not to be: one whose watchdog gave the     *)
(* step up again, and this hub when its own install fails, which           *)
(* commit_self learns only after the plan has moved on.                    *)
Together ==
    [][(uplan.active /\ uplan.step > 1 /\ ~orun.on /\ orun'.on) =>
         LET before == plan_step_targets(uplan, uplan.step - 1)
         IN  \A n \in kept : ver[n] >= (IF n \in Bots THEN before.bot ELSE before.hub)]_rolVars

(* A plan of several steps ends, whatever fails or restarts, and does not  *)
(* leave the config frozen, unless an admin stops it in the moment between *)
(* a restart that cut off a step and the first tick.                       *)
PlanEnds == uplan.active ~> (~uplan.active /\ (~freeze \/ uplan.cut))

(* A linked hub that stays, behind a target another hub runs, is walked up *)
(* to it, or its attempts are used up, or the plan is dropped.  Bots have  *)
(* no such promise: they are tried only when a presence arrives.           *)
HubsCatchUp ==
    \A h \in PeerHubs : (roll.have /\ h \in online /\ ver[h] < roll.hub)
                           ~> (~roll.have \/ h \notin online \/ ver[h] >= roll.hub \/ ~proven(h)
                               \/ tries[h] >= MaxTries \/ orun.on \/ freeze)

(* No node is sent the build for ever, however often its presence arrives: *)
(* an attempt moves it, or is charged to it.                               *)
RetriesEnd == \A n \in Nodes : <>[][~rollup_consider(n)]_rolVars

(* Nobody waits for ever: plans end and thaw, hubs that are behind are     *)
(* walked up, and a node that cannot be is left alone (plan_tick,          *)
(* rollup_scan_hubs, rollup_end).                                          *)
RollEnds == PlanEnds /\ HubsCatchUp /\ RetriesEnd
=============================================================================
