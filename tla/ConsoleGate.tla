---------------------------- MODULE ConsoleGate -----------------------------
(***************************************************************************)
(* How a connection that speaks SSH becomes a console: it takes a login    *)
(* slot, may be replaced by a newer connection, offers keys, opens a       *)
(* channel and asks for a shell; the console thread then tells the core,   *)
(* which opens the console for the key the admin's record has by then,     *)
(* checked or not, and closes it when the credentials it publishes have    *)
(* another.                                                                *)
(*                                                                         *)
(* The two threads share the published credentials and a queue of messages.*)
(* Connections are numbered in the order they come.                        *)
(***************************************************************************)
EXTENDS Integers, Sequences, FiniteSets

CONSTANTS
    MaxConns,       \* bound: connections
    Addrs,          \* addresses they come from
    AdminNames, KeyIds,
    Limits,         \* hub set ssh: logins in progress, those of one address, consoles
    AuthTries,      \* and refused keys
    MaxEdits      \* bound: changes of the admin records

ASSUME ConsoleGateAssumption ==
    /\ MaxConns \in Nat /\ MaxEdits \in Nat
    /\ AuthTries \in Nat \ {0}
    /\ \A l \in Limits : {l.preauth, l.preauthip, l.sessions} \subseteq Nat \ {0} /\ l.preauthip <= l.preauth

VARIABLES
    lim,            \* Published::limits
    ssh,           \* per connection: where it is, its entry in Counts::pre, its Info, its console_task
    consoles,       \* Counts::consoles
    inbox,          \* FromConsole messages
    records, creds, \* the core: key of each admin's record; what it published last
    cons,           \* the core: open consoles, and whether creds were published since
    reports,        \* history: Fail messages of each connection
    late,           \* history: logins whose record changed from the key checked before the core opened them
    edits

gateVars == <<lim, ssh, consoles, inbox, records, creds, cons, reports, late, edits>>

Conns == 1 .. MaxConns
NoKey == "none"
NoName == "nobody"

(* The credentials the records give: a key on two of them is on none.      *)
build_creds(rec) ==
    [a \in AdminNames |-> IF \E b \in AdminNames \ {a} : rec[b] = rec[a] THEN NoKey ELSE rec[a]]

GateInit ==
    /\ lim \in Limits
    /\ ssh = [i \in Conns |-> [at |-> "none", ip |-> CHOOSE a \in Addrs : TRUE, pre |-> FALSE, dropped |-> FALSE,
                                user |-> NoName, as |-> NoName, key |-> NoKey, authed |-> FALSE, refused |-> 0, failed |-> FALSE,
                                chan |-> FALSE, shell |-> FALSE, task |-> FALSE]]
    /\ consoles = 0 /\ inbox = <<>> /\ cons = {} /\ edits = 0
    /\ records \in {r \in [AdminNames -> KeyIds \cup {NoKey}] : build_creds(r) = r} /\ creds = build_creds(records)
    /\ reports = [i \in Conns |-> 0] /\ late = {}

InLogin == {i \in Conns : ssh[i].pre /\ ~ssh[i].dropped}
LiveOf(ip) == {i \in InLogin : ssh[i].ip = ip}
Tasks == {i \in Conns : ssh[i].task}

GateTypeOK ==
    /\ \A i \in Conns : ssh[i].at \in {"none", "kex", "auth", "ending", "done"} /\ ssh[i].refused \in 0 .. AuthTries
    /\ Cardinality(InLogin) <= lim.preauth /\ \A ip \in Addrs : Cardinality(LiveOf(ip)) <= lim.preauthip
    /\ DOMAIN records = AdminNames /\ DOMAIN creds = AdminNames

-----------------------------------------------------------------------------
(* Mutant: the oldest login goes, whoever holds the slots.                 *)
EvictOldest(ip) == CHOOSE v \in InLogin : \A w \in InLogin : v <= w

(* evict_pick: the oldest login of the address that holds most slots, the  *)
(* newcomer counted.                                                       *)
evict_pick(ip) ==
    LET held(v) == Cardinality(LiveOf(ssh[v].ip)) + (IF ssh[v].ip = ip THEN 1 ELSE 0)
    IN  CHOOSE v \in InLogin : \A w \in InLogin : held(v) > held(w) \/ (held(v) = held(w) /\ v <= w)

(* connection, up to the handshake: refused, or a slot, with one taken     *)
(* from another login when there is none free.                             *)
connection(i, ip) ==
    /\ ssh[i].at = "none" /\ \A j \in 1 .. i - 1 : ssh[j].at # "none"
    /\ LET in == [ssh EXCEPT ![i].at = "kex", ![i].ip = ip, ![i].pre = TRUE]
       IN  ssh' = IF Cardinality(LiveOf(ip)) >= lim.preauthip THEN [ssh EXCEPT ![i].at = "done", ![i].ip = ip]
                   ELSE IF Cardinality(InLogin) >= lim.preauth THEN [in EXCEPT ![evict_pick(ip)].dropped = TRUE]
                   ELSE in
    /\ UNCHANGED <<lim, consoles, inbox, records, creds, cons, reports, late, edits>>

KeyExchange(i) ==
    /\ ssh[i].at = "kex" /\ ssh' = [ssh EXCEPT ![i].at = "auth"]
    /\ UNCHANGED <<lim, consoles, inbox, records, creds, cons, reports, late, edits>>

key_matches(user, key) == user \in AdminNames /\ key # NoKey /\ creds[user] = key

(* report_fail: once a connection.                                         *)
report_fail(i) ==
    IF ssh[i].failed THEN UNCHANGED <<reports, inbox>>
    ELSE reports' = [reports EXCEPT ![i] = @ + 1] /\ inbox' = Append(inbox, [op |-> "Fail", id |-> i])

(* refuse: with too many refused keys the connection is reported and ends. *)
refuse(i, user) ==
    LET n == ssh[i].refused + 1
    IN  IF n >= AuthTries
        THEN /\ report_fail(i)
             /\ ssh' = [ssh EXCEPT ![i].user = user, ![i].refused = n, ![i].failed = TRUE, ![i].at = "ending"]
        ELSE ssh' = [ssh EXCEPT ![i].user = user, ![i].refused = n] /\ UNCHANGED <<reports, inbox>>

auth_publickey_offered(i, user, key) ==
    /\ ssh[i].at = "auth" /\ ~ssh[i].authed
    /\ IF key_matches(user, key)
       THEN ssh' = [ssh EXCEPT ![i].user = user] /\ UNCHANGED <<reports, inbox>>
       ELSE refuse(i, user)
    /\ UNCHANGED <<lim, consoles, records, creds, cons, late, edits>>

(* auth_publickey: a signature that fits; the name stays what it was when  *)
(* the key is not that of the name.  The name and the key that were        *)
(* checked, as and key, are history: only the name goes to the core.       *)
Authed(i, user, key) ==
    [ssh EXCEPT ![i].authed = TRUE, ![i].as = user, ![i].key = key, ![i].user = user]
auth_publickey(i, user, key) ==
    /\ ssh[i].at = "auth" /\ ~ssh[i].authed
    /\ IF key_matches(user, key)
       THEN /\ ssh' = Authed(i, user, key) /\ UNCHANGED <<reports, inbox>>
            /\ late' = IF records[user] = key THEN late ELSE late \cup {i}
       ELSE refuse(i, ssh[i].user) /\ UNCHANGED late
    /\ UNCHANGED <<lim, consoles, records, creds, cons, edits>>

channel_open_session(i) ==
    /\ ssh[i].at = "auth" /\ ssh[i].authed /\ ~ssh[i].chan /\ ssh' = [ssh EXCEPT ![i].chan = TRUE]
    /\ UNCHANGED <<lim, consoles, inbox, records, creds, cons, reports, late, edits>>

(* violation: anything but a session, a terminal and a shell.              *)
violation(i) ==
    /\ ssh[i].at = "auth" /\ ssh[i].authed /\ ssh' = [ssh EXCEPT ![i].at = "ending"]
    /\ UNCHANGED <<lim, consoles, inbox, records, creds, cons, reports, late, edits>>

(* shell_request: within the number of consoles; the slot is given up, and *)
(* the core is told, or there was no socketpair, with the count taken.     *)
OpensShell(i) ==
    /\ ssh' = [ssh EXCEPT ![i].pre = FALSE, ![i].shell = TRUE, ![i].task = TRUE]
    /\ consoles' = consoles + 1 /\ inbox' = Append(inbox, [op |-> "Open", id |-> i])
NoSocketpair(i) ==
    /\ ssh' = [ssh EXCEPT ![i].pre = FALSE, ![i].at = "ending"]
    /\ consoles' = consoles + 1 /\ UNCHANGED inbox
shell_request(i) ==
    /\ ssh[i].at = "auth" /\ ssh[i].chan /\ ~ssh[i].shell
    /\ IF consoles >= lim.sessions
       THEN ssh' = [ssh EXCEPT ![i].at = "ending"] /\ UNCHANGED <<consoles, inbox>>
       ELSE OpensShell(i) \/ NoSocketpair(i)
    /\ UNCHANGED <<lim, records, creds, cons, reports, late, edits>>

-----------------------------------------------------------------------------

(* The login grace runs from the connect until there is a shell.           *)
GraceOver(i) == ssh[i].at \in {"kex", "auth"} /\ ~ssh[i].shell
EndsNow(i) ==
    /\ ssh' = [ssh EXCEPT ![i].at = "ending"]
    /\ UNCHANGED <<lim, consoles, inbox, records, creds, cons, reports, late, edits>>
Grace(i) == GraceOver(i) /\ EndsNow(i)
Evicted(i) == ssh[i].at \in {"kex", "auth"} /\ ssh[i].dropped /\ EndsNow(i)
Hangup(i) == ssh[i].at \in {"kex", "auth"} /\ EndsNow(i)

(* connection, its end: the slot is free, and a login that was refused is  *)
(* reported.                                                               *)
Finish(i) ==
    /\ ssh[i].at = "ending" /\ ssh' = [ssh EXCEPT ![i].at = "done", ![i].pre = FALSE]
    /\ IF ~ssh[i].authed /\ ssh[i].refused > 0 THEN report_fail(i) ELSE UNCHANGED <<reports, inbox>>
    /\ UNCHANGED <<lim, consoles, records, creds, cons, late, edits>>

(* console_task ends: quit, a client or a hub that closed.                 *)
console_task(i) ==
    /\ ssh[i].task /\ consoles' = consoles - 1
    /\ ssh' = [ssh EXCEPT ![i].task = FALSE, ![i].at = IF @ = "auth" THEN "ending" ELSE @]
    /\ UNCHANGED <<lim, inbox, records, creds, cons, reports, late, edits>>

-----------------------------------------------------------------------------
(* open_console: for the record the name has now.                          *)
open_console(i) ==
    IF records[ssh[i].user] = NoKey THEN {}
    ELSE {[id |-> i, name |-> ssh[i].user, key |-> records[ssh[i].user], published |-> FALSE]}

(* on_wake: every message waiting; the client table has room for those of  *)
(* fit.                                                                    *)
Opens == {inbox[k].id : k \in {j \in DOMAIN inbox : inbox[j].op = "Open"}}
on_wake(fit) ==
    /\ inbox # <<>> /\ inbox' = <<>> /\ cons' = cons \cup UNION {open_console(i) : i \in fit}
    /\ UNCHANGED <<lim, ssh, consoles, records, creds, reports, late, edits>>

(* The core reads the end of a console's stream.                           *)
read_console(i) ==
    /\ ~ssh[i].task /\ \E c \in cons : c.id = i
    /\ cons' = {c \in cons : c.id # i}
    /\ UNCHANGED <<lim, ssh, consoles, inbox, records, creds, reports, late, edits>>

(* Mutant: consoles are held to the credentials published before.          *)
HeldToOld(c, new) == creds[c.name] = c.key

creds_hold(c, new) == new[c.name] = c.key

(* refresh_creds, from tick: credentials that changed are published, and   *)
(* consoles they no longer hold are closed.                                *)
refresh_creds ==
    LET new == build_creds(records)
    IN  /\ new # creds /\ creds' = new
        /\ cons' = {[c EXCEPT !.published = TRUE] : c \in {d \in cons : creds_hold(d, new)}}
        /\ UNCHANGED <<lim, ssh, consoles, inbox, records, reports, late, edits>>

(* Logins that were checked and that the core has not opened yet.          *)
Waiting == {i \in Conns : ssh[i].authed /\ (ssh[i].shell => i \in Opens)}

(* The records: an admin is removed, comes back or has another key.        *)
AdminChanges(a, key) ==
    /\ edits < MaxEdits /\ edits' = edits + 1 /\ records[a] # key
    /\ records' = [records EXCEPT ![a] = key]
    /\ late' = late \cup {i \in Waiting : ssh[i].as = a}
    /\ UNCHANGED <<lim, ssh, consoles, inbox, creds, cons, reports>>

GateNext ==
    \/ \E i \in Conns :
        \/ KeyExchange(i) \/ channel_open_session(i) \/ violation(i) \/ shell_request(i)
        \/ Grace(i) \/ Evicted(i) \/ Hangup(i) \/ Finish(i) \/ console_task(i) \/ read_console(i)
        \/ \E ip \in Addrs : connection(i, ip)
        \/ \E a \in AdminNames, k \in KeyIds : auth_publickey_offered(i, a, k) \/ auth_publickey(i, a, k)
    \/ \E fit \in SUBSET Opens : on_wake(fit)
    \/ refresh_creds
    \/ \E a \in AdminNames, k \in KeyIds \cup {NoKey} : AdminChanges(a, k)

-----------------------------------------------------------------------------
(* Sessions run within their number, and each is counted for as long as it *)
(* runs, whichever of the two tasks of a connection ends first             *)
(* (shell_request, console_task).                                          *)
SessionsBound == Cardinality(Tasks) <= consoles /\ consoles <= lim.sessions

(* A refused login is reported exactly once: by the handler when it tries  *)
(* too often, or else when its connection is over (report_fail).           *)
FailOnce ==
    \A i \in Conns :
        /\ reports[i] <= 1
        /\ ssh[i].at = "done" /\ ~ssh[i].authed /\ ssh[i].refused > 0 => reports[i] = 1

(* A console belongs to the name whose key was checked, whatever names     *)
(* were offered on the way (auth_publickey, shell_request, open_console).  *)
OpensAsAuthed == \A c \in cons : ssh[c.id].authed /\ c.name = ssh[c.id].as

(* A console that has lived through a publication has the key that was     *)
(* checked at its login (auth_publickey, open_console, refresh_creds),     *)
(* unless that record changed between the check and the open: then it has  *)
(* the key the core found on opening.                                      *)
HeldToKey ==
    \A c \in cons : c.published => creds[c.name] = (IF c.id \in late THEN c.key ELSE ssh[c.id].key)

(* The claim of ConsoleLink::ed_pub, "The key this console logged in with; *)
(* the console closes on a change", without that exception: open_console   *)
(* reads the record again, so a login made with the old key is held to the *)
(* new one, which it never showed.                                         *)
ClosesOnChange == \A c \in cons : c.published => creds[c.name] = ssh[c.id].key

(* A newcomer takes the slot of an address that, the newcomer counted,     *)
(* held at least as many as every other (evict_pick): so "a few addresses  *)
(* cannot keep the admin out".                                             *)
EvictFair ==
    [][\A i \in Conns : ssh'[i].dropped /\ ~ssh[i].dropped =>
        \A ip \in Addrs : Cardinality(LiveOf(ip)') <= Cardinality(LiveOf(ssh[i].ip)') + 1]_gateVars

(* A login slot is never held for good: whatever the client does, its      *)
(* connection is one the login grace still ends, or has ended and will be  *)
(* cleared (connection, shell_request).                                    *)
SlotTimed == \A i \in Conns : ssh[i].pre => ssh[i].at = "ending" \/ GraceOver(i)

(* Logins, sessions and consoles, whatever two threads interleave: within  *)
(* their limits, timed, reported once and held to their key (connection).  *)
GateHolds == GateTypeOK /\ SessionsBound /\ FailOnce /\ OpensAsAuthed /\ HeldToKey /\ SlotTimed
=============================================================================
