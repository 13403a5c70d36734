---------------------------- MODULE ConsoleFeed -----------------------------
(***************************************************************************)
(* What the hub pushes to one console: its status and the admin's flags as *)
(* they change, and the lines of its log.  Log lines wait in a ring that   *)
(* is overwritten as it fills; frames wait in a queue that drops events,   *)
(* never answers, when it is full.                                         *)
(*                                                                         *)
(* A status or a set of flags is a number that grows with every change; a  *)
(* log line is its place in the log, with a level.                         *)
(***************************************************************************)
EXTENDS Integers, Sequences, FiniteSets, SequencesExt

CONSTANTS
    RingSize,       \* CONSOLE_LOG_RING
    OutqMax,        \* CONSOLE_CORE_OUTQ_MAX, in frames
    SnapTopics,     \* snapshots a console may ask for, in the order they are sent
    LogLevels,      \* levels of lines and of subscriptions
    MaxLog, MaxNews, MaxSubs    \* bounds: lines logged, changes and requests, subscriptions

ASSUME ConsoleFeedAssumption ==
    /\ RingSize \in Nat \ {0, 1} /\ OutqMax \in Nat \ {0} /\ LogLevels \subseteq Nat
    /\ {MaxLog, MaxNews, MaxSubs} \subseteq Nat /\ IsInjective(SnapTopics)

VARIABLES
    logged,         \* level of every line logged; the ring holds the last ones
    hub,            \* per topic, "me" among them, what is
    link,           \* ConsoleLink
    due,            \* a second has passed since the last snapshot, or one is wanted at once
    got,            \* the console: log frames received, lines it was told it missed, last of each topic
    since,          \* history: first log line of the log stream now on, and how many there were
    news, subs

feedVars == <<logged, hub, link, due, got, since, news, subs>>

Topics == ToSet(SnapTopics) \cup {"me"}
NextLine == Len(logged) + 1
Off == -1
Never == 0

FeedInit ==
    /\ logged = <<>> /\ hub = [t \in Topics |-> 1] /\ due = TRUE /\ since = [line |-> 1, stream |-> 0]
    /\ link = [open |-> TRUE, sub |-> {}, level |-> Off, next |-> 1, drops |-> 0,
               last |-> [t \in Topics |-> Never], outq |-> <<>>]
    /\ got = [log |-> <<>>, told |-> 0, last |-> [t \in Topics |-> Never]]
    /\ news = 0 /\ subs = 0

FeedTypeOK ==
    /\ link.level \in {Off} \cup LogLevels /\ link.next \in 1 .. NextLine /\ link.drops \in Nat
    /\ Len(link.outq) <= OutqMax /\ \A t \in Topics : link.last[t] \in 0 .. hub[t]

-----------------------------------------------------------------------------
Framed(l, topic, v) == [l EXCEPT !.outq = Append(@, [topic |-> topic, v |-> v, of |-> since.stream])]

(* Mutant: an event that does not fit is forgotten.                        *)
EventForgets(l, topic, v) == IF Len(l.outq) >= OutqMax THEN l ELSE Framed(l, topic, v)

(* send, for an event: it is dropped and counted when the queue is full.   *)
event(l, topic, v) == IF Len(l.outq) >= OutqMax THEN [l EXCEPT !.drops = @ + 1] ELSE Framed(l, topic, v)

(* The oldest line push_log and a replay go back to.                       *)
Oldest == IF NextLine > RingSize THEN NextLine - RingSize + 1 ELSE 1

(* log_append: one more line; its slot's old line is gone.                 *)
log_append(level) ==
    /\ Len(logged) < MaxLog /\ logged' = Append(logged, level)
    /\ UNCHANGED <<hub, link, due, got, since, news, subs>>

(* subscribe: everything asked for is sent again; the log starts where the *)
(* ring begins, or with what comes, unless it was on.                      *)
Subscribed(l, topics, level, replay) ==
    [l EXCEPT !.sub = topics, !.last = [t \in Topics |-> Never], !.level = level,
              !.next = IF level = Off \/ l.level # Off THEN @ ELSE IF replay THEN Oldest ELSE NextLine]

(* frame, with sub|: a snapshot is due at once.                            *)
subscribe(topics, level, replay) ==
    /\ link.open /\ subs < MaxSubs /\ subs' = subs + 1
    /\ link' = Subscribed(link, topics, level, replay) /\ due' = TRUE
    /\ since' = IF level # Off /\ link.level = Off
                THEN [line |-> link'.next, stream |-> since.stream + 1] ELSE since
    /\ UNCHANGED <<logged, hub, got, news>>

(* frame, with get|: an answer, or the console is closed.                  *)
Answer ==
    /\ link.open /\ news < MaxNews /\ news' = news + 1
    /\ link' = IF Len(link.outq) >= OutqMax THEN [link EXCEPT !.open = FALSE] ELSE Framed(link, "reply", 0)
    /\ UNCHANGED <<logged, hub, due, got, since, subs>>

-----------------------------------------------------------------------------
(* push_log: what the ring has overwritten is counted as dropped, then the *)
(* lines at the level asked for, in order.                                 *)
Pushed(l) ==
    FoldLeft(LAMBDA m, s : IF s >= l.next /\ logged[s] <= l.level THEN event(m, "log", s) ELSE m,
             [l EXCEPT !.next = NextLine], [s \in 1 .. Len(logged) |-> s])

(* Mutant: lines the ring has overwritten are skipped in silence.          *)
PushLogSilent(l) ==
    IF l.level = Off THEN [l EXCEPT !.next = NextLine]
    ELSE Pushed(IF l.next < Oldest THEN [l EXCEPT !.next = Oldest] ELSE l)

push_log(l) ==
    IF l.level = Off THEN [l EXCEPT !.next = NextLine]
    ELSE Pushed(IF l.next < Oldest THEN [l EXCEPT !.drops = @ + (Oldest - l.next), !.next = Oldest] ELSE l)

(* tick: snapshots once a second, flags on every pass, each only when it   *)
(* is not what was sent last; then the log; then how many were dropped.    *)
PushOne(l, t) ==
    IF l.last[t] = hub[t] THEN l ELSE event([l EXCEPT !.last[t] = hub[t]], t, hub[t])
PushSnaps(l) ==
    IF ~due THEN l ELSE FoldLeft(LAMBDA m, t : IF t \in l.sub THEN PushOne(m, t) ELSE m, l, SnapTopics)
PushMe(l) == IF l.sub = {} THEN l ELSE PushOne(l, "me")
TellDrops(l) ==
    IF l.drops > 0 /\ Len(l.outq) < OutqMax THEN event([l EXCEPT !.drops = 0], "drop", l.drops) ELSE l

tick_feed ==
    /\ link.open /\ link' = TellDrops(push_log(PushMe(PushSnaps(link)))) /\ due' = FALSE
    /\ UNCHANGED <<logged, hub, got, since, news, subs>>

SecondPasses == ~due /\ due' = TRUE /\ UNCHANGED <<logged, hub, link, got, since, news, subs>>

(* drain, and the console takes a frame (on_event).                        *)
drain_link ==
    /\ link.outq # <<>>
    /\ LET f == Head(link.outq)
       IN  got' = [log |-> IF f.topic = "log" THEN Append(got.log, f) ELSE got.log,
                   told |-> IF f.topic = "drop" THEN got.told + f.v ELSE got.told,
                   last |-> IF f.topic \in Topics THEN [got.last EXCEPT ![f.topic] = f.v] ELSE got.last]
    /\ link' = [link EXCEPT !.outq = Tail(@)]
    /\ UNCHANGED <<logged, hub, due, since, news, subs>>

(* The hub: its status, its tree, an upgrade or the admin's flags change.  *)
HubChanges(t) ==
    /\ news < MaxNews /\ news' = news + 1 /\ hub' = [hub EXCEPT ![t] = @ + 1]
    /\ UNCHANGED <<logged, link, due, got, since, subs>>

FeedNext ==
    \/ \E v \in LogLevels : log_append(v)
    \/ \E topics \in {{}, ToSet(SnapTopics)} :
            subscribe(topics, Off, FALSE) \/ \E v \in LogLevels, replay \in BOOLEAN : subscribe(topics, v, replay)
    \/ \E t \in Topics : HubChanges(t)
    \/ Answer \/ tick_feed \/ SecondPasses \/ drain_link

-----------------------------------------------------------------------------
OfTopic(t) == SelectSeq(link.outq, LAMBDA f : f.topic = t)
Lines == got.log \o OfTopic("log")     \* log frames received and on their way

(* Log lines reach the console in the order they were logged, none twice,  *)
(* however often it changes its subscriptions while the log is on          *)
(* (push_log, subscribe).                                                  *)
LogInOrder == \A i \in 2 .. Len(Lines) : Lines[i - 1].of = Lines[i].of => Lines[i - 1].v < Lines[i].v

(* No line the console asked for is lost in silence, to the ring or to the *)
(* queue: those passed over and not on their way are at most as many as it *)
(* has been told of, or will be.  For one subscription that asks for lines *)
(* of one level (push_log, send).                                          *)
LossTold ==
    link.open /\ subs = 1 /\ link.level # Off =>
        LET wanted == {s \in since.line .. link.next - 1 : logged[s] <= link.level}
        IN  Cardinality(wanted) - Len(Lines)
                <= got.told + link.drops + FoldLeft(LAMBDA n, f : n + f.v, 0, OfTopic("drop"))

(* A console that was sent every event shows what is: with nothing dropped *)
(* and nothing on its way, the last it got of each topic is the last sent. *)
Current ==
    link.open /\ link.outq = <<>> /\ got.told = 0 /\ link.drops = 0 =>
        \A t \in Topics : link.last[t] # Never => got.last[t] = link.last[t]

(* A slow console: what it shows is in order and current, or it was told   *)
(* of what is missing (push_log, send).                                    *)
FeedTrue == FeedTypeOK /\ LogInOrder /\ LossTold /\ Current
=============================================================================
