----------------------------- MODULE ConsoleUi ------------------------------
(***************************************************************************)
(* An admin's console: the lines typed, the commands they start, the       *)
(* questions asked before a change, and what is printed meanwhile.         *)
(*                                                                         *)
(* One command runs at a time.  A line typed while one runs waits; a       *)
(* command that changes much asks first, and may read from the hub before  *)
(* it asks so that the question names what it found.  The hub answers      *)
(* requests in order, except that a channel op is answered late.           *)
(*                                                                         *)
(* The record ui is struct Ui.  A line is its text and its place in what   *)
(* was typed; an event is its number; the hub's object a typed name stands *)
(* for is whatIs, which another admin may change at any time.              *)
(***************************************************************************)
EXTENDS Integers, Sequences, TLC

CONSTANTS
    Typed,          \* lines the admin may type
    CmdN,           \* hub set ssh cmdrate: commands started per window
    MaxQueued,      \* MAX_QUEUED_LINES
    MaxRq,          \* MAX_PENDING_RQ
    HeldMax,        \* CONSOLE_TERM_OUTQ_MAX, in events held with an idle terminal
    MaxLines, MaxEvents   \* bounds: lines typed, events

ASSUME ConsoleUiAssumption ==
    /\ Typed \subseteq STRING /\ {CmdN, MaxQueued, MaxRq, HeldMax} \subseteq Nat \ {0}
    /\ {MaxLines, MaxEvents} \subseteq Nat

VARIABLES
    ui,             \* the session
    replies,        \* answers of the hub on their way
    whatIs,         \* the hub: the object the name typed stands for
    moved,          \* whether another admin has changed that
    arrived         \* events the hub has sent

uiVars == <<ui, replies, whatIs, moved, arrived>>

(* The command table: how a command is built, whether it asks, what it     *)
(* reads first, and whether the admin's flags must cover it.               *)
Cmd(build, confirm, pre, flag) == [build |-> build, confirm |-> confirm, pre |-> pre, flag |-> flag]
Table ==
    [help |-> Cmd("local", "None", "None", FALSE), quit |-> Cmd("local", "None", "None", FALSE),
     logOn |-> Cmd("local", "None", "None", FALSE), stats |-> Cmd("op", "None", "None", FALSE),
     chanOp |-> Cmd("op", "None", "None", TRUE), purge |-> Cmd("op", "Yn", "None", TRUE),
     rekey |-> Cmd("op", "Type", "None", TRUE), botDel |-> Cmd("op", "Yn", "BotDel", TRUE),
     botKick |-> Cmd("op", "Yn", "BotKick", TRUE), hubDel |-> Cmd("op", "Yn", "PeerDel", TRUE),
     userDel |-> Cmd("op", "Yn", "UserDel", TRUE), setOpt |-> Cmd("op", "Yn", "Opt", TRUE),
     upgrade |-> Cmd("op", "Yn", "UpgStart", TRUE), userSetBadKey |-> Cmd("badArg", "Yn", "UserKey", TRUE)]

(* Objects: two of them have an id, and nothing may have the name.         *)
Nobody == "nobody"
ByName == "byName"      \* a payload that is the name as typed
Notice == 0             \* the notice of dropped events, among the events shown
NoPend == [cmd |-> "none", seq |-> 0]
NoStage == [cmd |-> "none", seq |-> 0, obj |-> ByName, named |-> Nobody]

UiInit ==
    /\ \E line \in BOOLEAN :
        ui = [line |-> line, seq |-> 0, busy |-> FALSE, rq |-> <<>>, queued |-> <<>>, used |-> 0,
              turned |-> TRUE, fromQueue |-> FALSE, confirming |-> "None", staged |-> NoStage,
              pend |-> NoPend, held |-> <<>>, dropped |-> FALSE, flags |-> "unset", logOn |-> FALSE,
              view |-> "console", searching |-> FALSE, eof |-> FALSE, closing |-> FALSE,
              tail |-> IF line THEN ">" ELSE "", core |-> <<>>,
              typed |-> 0, acted |-> 0, ended |-> <<>>, shown |-> <<>>]
    /\ replies = <<>> /\ whatIs = "u1" /\ moved = FALSE /\ arrived = 0

UiTypeOK ==
    /\ ui.confirming \in {"None", "Yn", "Type"} /\ ui.used \in 0 .. CmdN
    /\ Len(ui.queued) <= MaxQueued /\ Len(ui.rq) <= 3 /\ Len(ui.held) <= HeldMax
    /\ whatIs \in {"u1", "u2", Nobody} /\ ~ui.fromQueue

-----------------------------------------------------------------------------
(* What is printed: in line mode the last thing on the terminal is a line, *)
(* the prompt of a command or the prompt of an answer.                     *)
Printed(u) == IF u.line THEN [u EXCEPT !.tail = "line"] ELSE u
lm_prompt(u) == [u EXCEPT !.tail = IF u.confirming # "None" THEN "?" ELSE ">"]

line_pending(u) == u.busy \/ u.confirming # "None" \/ u.queued # <<>>

(* lm_async: an event is shown, held until the command's marker, or        *)
(* dropped and counted when too much is held or the terminal is behind.    *)
lm_async(u, e, behind) ==
    IF behind \/ Len(u.held) >= HeldMax THEN [u EXCEPT !.dropped = TRUE]
    ELSE IF line_pending(u) THEN [u EXCEPT !.held = Append(@, e)]
    ELSE lm_prompt([u EXCEPT !.shown = Append(@, e)])

flush_held(u) ==
    IF u.held = <<>> THEN u ELSE Printed([u EXCEPT !.shown = @ \o u.held, !.held = <<>>])

(* The last line of a command: marker_ok, marker_err or a refusal.         *)
Ended(u, n) == Printed([u EXCEPT !.ended = Append(@, n)])

-----------------------------------------------------------------------------
rate_ready(u) == u.turned \/ u.used < CmdN

(* rate_take: the window turns over, then a token if one is left.          *)
rate_take(u) ==
    LET v == IF u.turned THEN [u EXCEPT !.turned = FALSE, !.used = 0] ELSE u
    IN  IF v.used >= CmdN THEN v ELSE [v EXCEPT !.used = @ + 1]

(* send_request: what is asked is noted in order and sent to the hub.  A   *)
(* frame keeps the object its question named.                              *)
send_request(u, kind, n, op, obj, named) ==
    IF Len(u.rq) >= MaxRq THEN Ended(u, n)
    ELSE [u EXCEPT !.rq = Append(@, [kind |-> kind, seq |-> n]),
                   !.core = Append(@, [op |-> op, obj |-> obj, named |-> named, kind |-> kind, seq |-> n]),
                   !.busy = TRUE]

(* request_view: between commands only, and one at a time.                 *)
request_view(u) ==
    IF u.busy \/ (\E i \in 1 .. Len(u.rq) : u.rq[i].kind = "View") \/ Len(u.rq) >= MaxRq THEN u
    ELSE [send_request(u, "View", 0, "upgradeStatus", ByName, Nobody) EXCEPT !.busy = FALSE]

(* local_command: help, the log stream and the display end at once; quit   *)
(* ends the session.                                                       *)
LocalLog(u, n) == Ended(IF u.line THEN [u EXCEPT !.logOn = TRUE] ELSE u, n)
LocalQuit(u, n) == [Ended(u, n) EXCEPT !.closing = TRUE]
local_command(u, cmd, n) ==
    CASE cmd = "quit" -> LocalQuit(u, n) [] cmd = "logOn" -> LocalLog(u, n) [] OTHER -> Ended(u, n)

stage_confirm(u, n, cmd, obj, named) ==
    [u EXCEPT !.staged = [cmd |-> cmd, seq |-> n, obj |-> obj, named |-> named]]
ask_confirm(u, kind) == Printed([u EXCEPT !.confirming = kind])

(* Whether the words are a command, its arguments make a request, and the  *)
(* admin's flags, when they are known, cover it.                           *)
find_cmd(text) == text \in DOMAIN Table
build_payload(c) == c.build # "badArg"
ui_flag_needed(u, c) == c.flag /\ u.flags = "few"

(* run_line, past the queue: the command ends here, is sent, reads first,  *)
(* or asks.                                                                *)
ReadsFirst(u, cmd, n) ==
    send_request([u EXCEPT !.pend = [cmd |-> cmd, seq |-> n]], "Pre", n, "read", ByName, Nobody)
AsksFirst(u, cmd, n) == ask_confirm(stage_confirm(u, n, cmd, ByName, Nobody), Table[cmd].confirm)
Started(u, l) ==
    LET n == u.seq + 1
        v == [u EXCEPT !.seq = n, !.acted = l.n]
        c == Table[l.text]
    IN  IF ~find_cmd(l.text) THEN Ended(v, n)
        ELSE IF c.build = "local" THEN local_command(v, l.text, n)
        ELSE IF ~build_payload(c) \/ ui_flag_needed(u, c) THEN Ended(v, n)
        ELSE IF c.confirm = "None" THEN send_request(v, "User", n, l.text, ByName, Nobody)
        ELSE IF c.pre # "None" THEN ReadsFirst(v, l.text, n)
        ELSE AsksFirst(v, l.text, n)

(* A line that has to wait; with the queue full it is dropped, and said so.*)
Queued(u, l) ==
    IF Len(u.queued) < MaxQueued THEN [u EXCEPT !.queued = Append(@, l)] ELSE Printed(u)

run_line(u, l) ==
    IF u.busy \/ u.confirming # "None" \/ (~u.fromQueue /\ (u.queued # <<>> \/ ~rate_ready(u)))
    THEN Queued(u, l) ELSE Started(rate_take(u), l)

-----------------------------------------------------------------------------
RECURSIVE Drained(_), confirm_answer(_, _, _), command_done(_, _)

(* command_done, its loop: lines that wait answer a question that is open, *)
(* or start when there is a token.                                         *)
Drained(u) ==
    IF u.busy \/ u.queued = <<>> \/ u.closing \/ (u.confirming = "None" /\ ~rate_ready(u)) THEN u
    ELSE LET l == Head(u.queued)
             v == [u EXCEPT !.queued = Tail(@)]
         IN  Drained(IF u.confirming # "None" THEN confirm_answer(v, l, FALSE)
                     ELSE [run_line([v EXCEPT !.fromQueue = TRUE], l) EXCEPT !.fromQueue = FALSE])

command_done(u, fromReply) ==
    LET v == Drained([u EXCEPT !.busy = FALSE])
    IN  IF v.line /\ fromReply /\ ~v.busy /\ v.queued = <<>> /\ ~v.closing
        THEN lm_prompt(IF v.confirming = "None" THEN flush_held(v) ELSE v)
        ELSE v

(* confirm_answer: y, or the word asked for, sends what was staged.        *)
confirm_answer(u, l, cancelled) ==
    LET v == [u EXCEPT !.confirming = "None", !.staged = NoStage, !.acted = l.n]
        yes == ~cancelled /\ l.text = (IF u.confirming = "Yn" THEN "y" ELSE "word")
    IN  IF yes THEN send_request(v, "User", u.staged.seq, u.staged.cmd, u.staged.obj, u.staged.named)
        ELSE command_done(Ended(v, u.staged.seq), FALSE)

-----------------------------------------------------------------------------
(* Mutant: the request keeps the name that was typed.                      *)
ResolvedTyped(pre, r) == ByName

(* pre_reply: a bot or a hub is named from here on by the id the read      *)
(* found for it.                                                           *)
Resolved(pre, r) == IF pre \in {"BotDel", "BotKick", "PeerDel"} /\ r.found # Nobody THEN r.found ELSE ByName

(* The read ends the command: a bot that is not on this hub is not kicked, *)
(* and what is not there is not deleted.                                   *)
PreEnds(pre, r) ==
    \/ pre = "BotKick" /\ ~r.here
    \/ pre \in {"PeerDel", "UserDel"} /\ r.found = Nobody

(* An admin is removed by typing the name.                                 *)
QuestionOf(pre, r) == IF pre = "UserDel" /\ r.admin THEN "Type" ELSE "Yn"

pre_reply(u, q, r) ==
    LET pre == Table[u.pend.cmd].pre
        read == [u EXCEPT !.pend = NoPend]
        v == stage_confirm(read, q.seq, u.pend.cmd, Resolved(pre, r),
                           IF pre \in {"BotDel", "BotKick", "PeerDel"} THEN r.found ELSE Nobody)
    IN  IF r.err THEN command_done(Ended(read, q.seq), TRUE)
        ELSE IF PreEnds(pre, r) THEN command_done(Ended([v EXCEPT !.staged = NoStage], q.seq), TRUE)
        ELSE command_done(ask_confirm(v, QuestionOf(pre, r)), TRUE)

(* on_reply: the answer belongs to the oldest request.                     *)
on_reply(u, r) ==
    LET q == Head(u.rq)
        v == [u EXCEPT !.rq = Tail(@)]
    IN  CASE q.kind = "View" -> v
          [] q.kind = "Pre" -> pre_reply(v, q, r)
          [] OTHER -> command_done(Ended(v, q.seq), TRUE)

(* One round of console_task: after end of input the session lasts until   *)
(* nothing typed is left to answer.                                        *)
Round(u) == ui' = IF u.eof /\ ~line_pending(u) THEN [u EXCEPT !.closing = TRUE] ELSE u

-----------------------------------------------------------------------------
(* on_enter: an answer, a search in the log view, or a command.            *)
on_enter(text) ==
    /\ ~ui.closing /\ ~ui.eof /\ ui.typed < MaxLines
    /\ LET l == [text |-> text, n |-> ui.typed + 1]
           u == Printed([ui EXCEPT !.typed = l.n])
           v == IF u.confirming # "None" THEN confirm_answer(u, l, FALSE) ELSE run_line(u, l)
           w == IF v.line /\ ~v.closing /\ ~v.busy /\ v.queued = <<>>
                THEN lm_prompt(IF v.confirming = "None" THEN flush_held(v) ELSE v) ELSE v
       IN  Round(IF ui.searching THEN [ui EXCEPT !.searching = FALSE] ELSE w)
    /\ UNCHANGED <<replies, whatIs, moved, arrived>>

(* cancel_input: ^C gives up a search or answers a question with no.       *)
cancel_input ==
    /\ ~ui.closing /\ ~ui.eof /\ (ui.searching \/ ui.confirming # "None")
    /\ LET u == Printed(ui)
           v == IF u.searching THEN [u EXCEPT !.searching = FALSE]
                ELSE confirm_answer(u, [text |-> "", n |-> u.acted], TRUE)
       IN  Round(IF v.line /\ ~line_pending(v) THEN lm_prompt(flush_held(v)) ELSE v)
    /\ UNCHANGED <<replies, whatIs, moved, arrived>>

(* handle_key in full screen: a view is chosen, or a search begun in the   *)
(* log view when no question is open.                                      *)
set_view(v) ==
    /\ ~ui.line /\ ~ui.closing /\ ~ui.eof /\ ui.view # v
    /\ LET u == [ui EXCEPT !.view = v] IN Round(IF v = "upgrades" THEN request_view(u) ELSE u)
    /\ UNCHANGED <<replies, whatIs, moved, arrived>>
SearchKey ==
    /\ ui.view = "log" /\ ~ui.searching /\ ui.confirming = "None" /\ ~ui.closing /\ ~ui.eof
    /\ Round([ui EXCEPT !.searching = TRUE])
    /\ UNCHANGED <<replies, whatIs, moved, arrived>>

(* channel_eof                                                             *)
Eof ==
    /\ ~ui.eof /\ ~ui.closing /\ Round([ui EXCEPT !.eof = TRUE])
    /\ UNCHANGED <<replies, whatIs, moved, arrived>>

(* core_frame_in: an answer.                                               *)
CoreReply ==
    /\ replies # <<>> /\ ~ui.closing
    /\ Round(IF ui.rq = <<>> THEN ui ELSE on_reply(ui, Head(replies)))
    /\ replies' = Tail(replies)
    /\ UNCHANGED <<whatIs, moved, arrived>>

(* on_event: the admin's flags, a line of the log for who asked for it,    *)
(* news of an upgrade, a status or a tree, or that the hub dropped some.   *)
on_event(topic, behind) ==
    /\ ~ui.closing /\ arrived < MaxEvents
    /\ arrived' = arrived + 1
    /\ Round(CASE topic = "me" -> [ui EXCEPT !.flags = IF @ = "few" THEN "full" ELSE "few"]
               [] topic = "log" /\ ui.line /\ ui.logOn -> lm_async(ui, arrived', behind)
               [] topic = "upg" /\ ~ui.line /\ ui.view = "upgrades" -> request_view(ui)
               [] topic \in {"upg", "status"} /\ ui.line -> lm_async(ui, arrived', behind)
               [] topic = "drop" -> [ui EXCEPT !.dropped = TRUE]
               [] OTHER -> ui)
    /\ UNCHANGED <<replies, whatIs, moved>>

(* tick: lines held by the command rate go out as the window turns over.   *)
Ticked(u) ==
    IF u.queued # <<>> /\ ~u.busy /\ u.confirming = "None" /\ rate_ready(u)
    THEN LET v == command_done(u, FALSE)
         IN  IF v.line /\ Len(v.queued) < Len(u.queued) /\ ~line_pending(v) /\ ~v.closing
             THEN lm_prompt(flush_held(v)) ELSE v
    ELSE u

(* tick, the rest: dropped events are told of once the terminal keeps up,  *)
(* a notice like any event; a view is refreshed.                           *)
Refreshed(u, behind) ==
    LET v == [u EXCEPT !.dropped = FALSE]
        w == IF ~u.dropped \/ behind THEN u ELSE IF u.line THEN lm_async(v, Notice, FALSE) ELSE v
    IN  IF ~w.line /\ w.view = "upgrades" THEN request_view(w) ELSE w

tick(behind) ==
    /\ ~ui.closing /\ Round(Refreshed(Ticked(ui), behind))
    /\ UNCHANGED <<replies, whatIs, moved, arrived>>

(* tick, its first rule: nothing typed for too long.                       *)
IdleTimeout ==
    /\ ~ui.closing /\ ui.typed = MaxLines /\ ui' = [ui EXCEPT !.closing = TRUE]
    /\ UNCHANGED <<replies, whatIs, moved, arrived>>

(* Time: the rate window passes.                                           *)
WindowPasses ==
    /\ ~ui.turned /\ ~ui.closing /\ ui' = [ui EXCEPT !.turned = TRUE]
    /\ UNCHANGED <<replies, whatIs, moved, arrived>>

(* handle_console_frame: requests are taken in order and answered at once, *)
(* but a channel op when its election ends, after others behind it.  What  *)
(* a read finds is all that an answer's text decides.                      *)
Finds == {[err |-> TRUE, here |-> FALSE, admin |-> FALSE, found |-> Nobody]}
         \cup {[err |-> FALSE, here |-> here, admin |-> admin, found |-> whatIs] : here, admin \in BOOLEAN}
HubAnswers(i) ==
    /\ i \in 1 .. Len(ui.core) /\ ~ui.closing /\ \A j \in 1 .. i - 1 : ui.core[j].op = "chanOp"
    /\ \E r \in Finds :
        /\ ui.core[i].op = "read" \/ r.err
        /\ replies' = Append(replies, r @@ [kind |-> ui.core[i].kind, seq |-> ui.core[i].seq])
    /\ ui' = [ui EXCEPT !.core = SubSeq(@, 1, i - 1) \o SubSeq(@, i + 1, Len(@))]
    /\ UNCHANGED <<whatIs, moved, arrived>>

(* Another admin gives the name to another object, or removes it.          *)
OtherAdmin ==
    /\ ~moved /\ ~ui.closing /\ moved' = TRUE /\ whatIs' \in {"u2", Nobody}
    /\ UNCHANGED <<ui, replies, arrived>>

UiNext ==
    \/ \E t \in Typed : on_enter(t)
    \/ cancel_input \/ SearchKey \/ Eof \/ CoreReply \/ IdleTimeout \/ WindowPasses \/ OtherAdmin
    \/ \E v \in {"console", "log", "upgrades"} : set_view(v)
    \/ \E behind \in BOOLEAN :
          tick(behind) \/ \E t \in {"me", "log", "upg", "status", "drop"} : on_event(t, behind)
    \/ \E i \in 1 .. 3 : HubAnswers(i)

-----------------------------------------------------------------------------
(* Commands end one at a time, in the order they were started, each once:  *)
(* a script that counts markers is never out of step (on_reply, pre_reply, *)
(* confirm_answer, run_line).                                              *)
OneAtATime ==
    /\ \A i \in 1 .. Len(ui.ended) : ui.ended[i] = i
    /\ ui.seq = Len(ui.ended) + (IF ui.busy \/ ui.confirming # "None" THEN 1 ELSE 0)

(* An answer is taken for the request it answers, although the hub answers *)
(* a channel op late and views are refreshed in between.                   *)
InStep == replies # <<>> /\ ~ui.closing => 
    /\ ui.rq # <<>> /\ Head(ui.rq).kind = Head(replies).kind /\ Head(ui.rq).seq = Head(replies).seq

(* Lines are acted on in the order they were typed, whether they started a *)
(* command, waited for one or for the rate, or answered a question.        *)
InTypedOrder ==
    LET next == [i \in 1 .. Len(ui.queued) |-> ui.queued[i].n]
    IN  \A i \in 1 .. Len(next) : next[i] > ui.acted /\ (i > 1 => next[i] > next[i - 1])

(* What is deleted is what the question named, also when the name has come *)
(* to stand for something else since.                                      *)
ActsOnAsked ==
    \A i \in 1 .. Len(ui.core) :
        ui.core[i].named # Nobody =>
            (IF ui.core[i].obj = ByName THEN whatIs ELSE ui.core[i].obj) = ui.core[i].named

(* Line mode: at the prompt of a command nothing is held back, the prompt  *)
(* is the last thing printed, and events were shown in the order they came.*)
AtPrompt ==
    ui.line /\ ~ui.closing =>
        /\ ~line_pending(ui) => ui.held = <<>> /\ ui.tail = ">"
        /\ \A i, j \in 1 .. Len(ui.shown) :
              i < j /\ ui.shown[j] # Notice => ui.shown[i] < ui.shown[j]

(* Nobody waits for nobody: a session is busy exactly while a request of a *)
(* command is out, every request is at the hub or its answer on the way,   *)
(* and lines never wait behind a question, which only they could answer.   *)
SomeoneMoves ==
    ~ui.closing =>
        /\ ui.busy <=> \E i \in 1 .. Len(ui.rq) : ui.rq[i].kind # "View"
        /\ Len(ui.rq) = Len(ui.core) + Len(replies)
        /\ ui.queued # <<>> => ui.confirming = "None"

(* A session in step with its hub and its admin, whatever comes in between *)
(* (on_reply, run_line, confirm_answer).                                   *)
UiTrue == UiTypeOK /\ OneAtATime /\ InStep /\ InTypedOrder /\ ActsOnAsked /\ AtPrompt /\ SomeoneMoves
=============================================================================
