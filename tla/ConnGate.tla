------------------------------ MODULE ConnGate ------------------------------
(***************************************************************************)
(* Who may connect: the table of addresses with their open connections,    *)
(* their churn and their failed logins, and the table of addresses that    *)
(* speak SSH.  Both are small and reuse the rows of idle addresses, while  *)
(* connections come, turn out to be SSH, become consoles and go.           *)
(***************************************************************************)
EXTENDS Integers, FiniteSets, FiniteSetsExt

CONSTANTS
    Ips,            \* addresses
    PeerIps,        \* those of peers, which this hub dials
    MaxKnown, KnownMemory,  \* MAX_KNOWN_IPS, KNOWN_IP_MEMORY
    MaxRows, MaxSshRows,    \* MAX_IP_RATE_LIMITS, MAX_SSH_IPS
    PerIp, ChurnN, ChurnS, ChurnBlock, FailN, FailS, FailBlock,  \* hub set conn
    StartupsStart, StartupsFull,
    ConnectN, ConnectS, SshFailN, SshFailS, SshBlock,            \* hub set ssh
    SshBlockMax, BlockMemory, SuccessMemory, RowMemory,          \* constants of the code
    MaxOpen,                                                     \* MAX_CLIENTS
    MaxTime, MaxFails, MaxAccepts   \* bounds

ASSUME ConnGateAssumption ==
    /\ PeerIps \subseteq Ips /\ StartupsStart <= StartupsFull /\ SshBlock <= SshBlockMax
    /\ {MaxRows, MaxSshRows, PerIp, ChurnN, FailN, ConnectN, SshFailN, SshBlock, SuccessMemory,
        FailBlock} \subseteq Nat \ {0}
    /\ {ChurnS, ChurnBlock, FailS, ConnectS, SshFailS, SshBlockMax, BlockMemory, RowMemory,
        KnownMemory, StartupsStart, StartupsFull, MaxKnown, MaxOpen, MaxTime, MaxFails, MaxAccepts} \subseteq Nat

VARIABLES
    time,
    rows,           \* state.ip_limits, by address
    sshRows,        \* state.ssh_ips, by address
    open,           \* open clients per address: raw, bot, console, dial; login: with the console thread
    known,          \* state.known_ips: when a bot last authenticated from an address
    served,         \* history: end of the last block of each address
    clean,          \* history: addresses with a login, and no failure or block then or since
    squeezed,       \* history: whether an address ever found a table full
    failures, arrivals

cgVars == <<time, rows, sshRows, open, known, served, clean, squeezed, failures, arrivals>>

NoRow == [ip \in {} |-> 0]
CgInit ==
    /\ time = 1 /\ rows = NoRow /\ sshRows = NoRow /\ known = NoRow /\ clean = {}
    /\ squeezed = FALSE /\ failures = 0 /\ arrivals = 0
    /\ open = [ip \in Ips |-> [raw |-> 0, bot |-> 0, console |-> 0, dial |-> 0, login |-> 0]]
    /\ served = [ip \in Ips |-> 0]

Larger(a, b) == IF a > b THEN a ELSE b
Smaller(a, b) == IF a < b THEN a ELSE b
OpenOf(ip) == open[ip].raw + open[ip].bot + open[ip].console + open[ip].dial

-----------------------------------------------------------------------------
(* The rows a new address may take when all are in use.                    *)
Idle(tab) == {j \in DOMAIN tab : tab[j].active = 0 /\ tab[j].until <= time}
LastUse(r) == Larger(Larger(r.first, r.failAt), r.win)
HasSlot(ip) == ip \in DOMAIN rows \/ Cardinality(DOMAIN rows) < MaxRows \/ Idle(rows) # {}

With(tab, j, r) == [k \in DOMAIN tab \cup {j} |-> IF k = j THEN r ELSE tab[k]]
Without(tab, j) == [k \in DOMAIN tab \ {j} |-> tab[k]]
NewRow == [active |-> 0, until |-> 0, churn |-> 0, win |-> time, fails |-> 0, failAt |-> 0, first |-> time]

(* Mutant: any row may be reused.                                          *)
CreateAnywhere(tab, ip) ==
    IF ip \in DOMAIN tab THEN tab
    ELSE IF Cardinality(DOMAIN tab) < MaxRows THEN With(tab, ip, NewRow)
    ELSE With(Without(tab, CHOOSE j \in DOMAIN tab : TRUE), ip, NewRow)

(* find_or_create: the address's row, a free one, or the one idle longest. *)
find_or_create(tab, ip) ==
    IF ip \in DOMAIN tab THEN tab
    ELSE IF Cardinality(DOMAIN tab) < MaxRows THEN With(tab, ip, NewRow)
    ELSE IF Idle(tab) = {} THEN tab
    ELSE LET old == CHOOSE j \in Idle(tab) : \A k \in Idle(tab) : LastUse(tab[j]) <= LastUse(tab[k])
         IN  With(Without(tab, old), ip, NewRow)

increment(tab, ip) ==
    LET t == find_or_create(tab, ip) IN IF ip \in DOMAIN t THEN [t EXCEPT ![ip].active = @ + 1] ELSE t
decrement(tab, ip) ==
    IF ip \in DOMAIN tab /\ tab[ip].active > 0 THEN [tab EXCEPT ![ip].active = @ - 1] ELSE tab

(* ssh_table_recent_ok                                                     *)
recent_ok(ip) == ip \in DOMAIN sshRows /\ sshRows[ip].success > 0 /\ time - sshRows[ip].success < SuccessMemory

(* ip_known; bots of the roster are left out.                              *)
ip_known(ip) ==
    ip \in PeerIps \/ IF ip \in DOMAIN known THEN time - known[ip] < KnownMemory ELSE recent_ok(ip)
known_ip_note(ip) ==
    IF ip \in DOMAIN known \/ Cardinality(DOMAIN known) < MaxKnown THEN With(known, ip, time)
    ELSE With(Without(known, CHOOSE j \in DOMAIN known : \A k \in DOMAIN known : known[j] <= known[k]), ip, time)

(* startup_admit: a known address passes; another needs a row, and luck    *)
(* when many connections are not authenticated.                            *)
startup_admit(ip, lucky) ==
    LET raw == MapThenSumSet(LAMBDA j : open[j].raw, Ips)
    IN  ip_known(ip) \/ (HasSlot(ip) /\ (raw < StartupsStart \/ (raw < StartupsFull /\ lucky)))

(* Mutant: churn counts for every address.                                 *)
AllowedChurns(ip) ==
    LET t == find_or_create(rows, ip)
        r == IF t[ip].until > 0 THEN [t[ip] EXCEPT !.until = 0, !.fails = 0] ELSE t[ip]
        w == IF time - r.win >= ChurnS THEN [r EXCEPT !.win = time, !.churn = 1] ELSE [r EXCEPT !.churn = @ + 1]
    IN  CASE ip \notin DOMAIN t -> [rows |-> t, ok |-> TRUE]
          [] ip \in DOMAIN t /\ t[ip].until > time -> [rows |-> t, ok |-> FALSE]
          [] OTHER -> IF w.churn > ChurnN
                      THEN [rows |-> [t EXCEPT ![ip] = [w EXCEPT !.until = time + ChurnBlock]], ok |-> FALSE]
                      ELSE [rows |-> [t EXCEPT ![ip] = w], ok |-> w.active < PerIp]

(* is_ip_allowed: blocked; a fresh start once a block is over; churn, for  *)
(* an address without a recent console login; connections open.            *)
is_ip_allowed(ip) ==
    LET t == find_or_create(rows, ip)
        r == IF t[ip].until > 0 THEN [t[ip] EXCEPT !.until = 0, !.fails = 0] ELSE t[ip]
        w == IF time - r.win >= ChurnS THEN [r EXCEPT !.win = time, !.churn = 1] ELSE [r EXCEPT !.churn = @ + 1]
    IN  CASE ip \notin DOMAIN t -> [rows |-> t, ok |-> TRUE]
          [] ip \in DOMAIN t /\ t[ip].until > time -> [rows |-> t, ok |-> FALSE]
          [] ip \in DOMAIN t /\ t[ip].until <= time /\ recent_ok(ip) ->
                [rows |-> [t EXCEPT ![ip] = r], ok |-> r.active < PerIp]
          [] OTHER -> IF w.churn > ChurnN
                      THEN [rows |-> [t EXCEPT ![ip] = [w EXCEPT !.until = time + ChurnBlock]], ok |-> FALSE]
                      ELSE [rows |-> [t EXCEPT ![ip] = w], ok |-> w.active < PerIp]

(* record_failed_auth                                                      *)
record_failed_auth(tab, ip) ==
    LET t == find_or_create(tab, ip)
        n == IF time - t[ip].failAt > FailS THEN 1 ELSE t[ip].fails + 1
    IN  IF ip \notin DOMAIN t THEN t
        ELSE [t EXCEPT ![ip].fails = n, ![ip].failAt = time, ![ip].until = IF n >= FailN THEN time + FailBlock ELSE @]

-----------------------------------------------------------------------------
(* ssh_find: never refuses a newcomer.                                     *)
NewSsh == [win |-> time, conns |-> 0, failAt |-> 0, fails |-> 0, until |-> 0, last |-> 0, level |-> 0,
           seen |-> time, success |-> 0]
ssh_find(ip) ==
    LET free == {j \in DOMAIN sshRows : sshRows[j].until <= time}
        old == IF free # {} THEN CHOOSE j \in free : \A k \in free : sshRows[j].seen <= sshRows[k].seen
               ELSE CHOOSE j \in DOMAIN sshRows : \A k \in DOMAIN sshRows : sshRows[j].until <= sshRows[k].until
    IN  IF ip \in DOMAIN sshRows THEN [sshRows EXCEPT ![ip].seen = time]
        ELSE IF Cardinality(DOMAIN sshRows) < MaxSshRows THEN With(sshRows, ip, NewSsh)
        ELSE With(Without(sshRows, old), ip, NewSsh)

(* start_block: twice as long for each block lately, up to a limit.        *)
start_block(e) ==
    LET level == IF e.last > 0 /\ time - e.last < BlockMemory THEN Smaller(e.level + 1, 30) ELSE 0
    IN  [e EXCEPT !.level = level, !.until = time + Smaller(SshBlock * 2 ^ level, SshBlockMax),
                  !.last = time, !.conns = 0, !.fails = 0]

Expired(e) == IF e.until > 0 THEN [e EXCEPT !.until = 0, !.conns = 0, !.fails = 0] ELSE e

(* ssh_table_connect                                                       *)
ssh_connect(ip) ==
    LET t == ssh_find(ip)
        e == Expired(t[ip])
        w == IF time - e.win >= ConnectS THEN [e EXCEPT !.win = time, !.conns = 1] ELSE [e EXCEPT !.conns = @ + 1]
    IN  CASE t[ip].until > time -> [rows |-> t, ok |-> FALSE]
          [] t[ip].until <= time /\ e.success > 0 /\ time - e.success < SuccessMemory ->
                [rows |-> [t EXCEPT ![ip] = e], ok |-> TRUE]
          [] OTHER -> IF w.conns > ConnectN THEN [rows |-> [t EXCEPT ![ip] = start_block(w)], ok |-> FALSE]
                      ELSE [rows |-> [t EXCEPT ![ip] = w], ok |-> TRUE]

(* ssh_table_failed                                                        *)
ssh_failed(ip) ==
    LET t == ssh_find(ip)
        e == Expired(t[ip])
        n == IF e.failAt > 0 /\ time - e.failAt > SshFailS THEN 1 ELSE e.fails + 1
        f == [e EXCEPT !.fails = n, !.failAt = time]
    IN  IF t[ip].until > time THEN t ELSE [t EXCEPT ![ip] = IF n >= SshFailN THEN start_block(f) ELSE f]

-----------------------------------------------------------------------------
Blocks(tab) ==
    served' = [ip \in Ips |-> IF ip \in DOMAIN tab /\ tab[ip].until > time THEN tab[ip].until ELSE served[ip]]
Squeezes(ip) ==
    squeezed' = (squeezed \/ (ip \notin DOMAIN rows /\ Cardinality(DOMAIN rows) >= MaxRows)
                          \/ (ip \notin DOMAIN sshRows /\ Cardinality(DOMAIN sshRows) >= MaxSshRows))
Slots == UNION {{ip} \X (1 .. OpenOf(ip)) : ip \in Ips}
Clients == Cardinality(Slots)

(* accept_one, behind the access lists.                                    *)
accept_one(ip, lucky) ==
    /\ startup_admit(ip, lucky) /\ arrivals < MaxAccepts /\ arrivals' = arrivals + 1
    /\ LET a == is_ip_allowed(ip)
           taken == a.ok /\ Clients < MaxOpen
       IN  /\ rows' = IF taken THEN increment(a.rows, ip) ELSE a.rows
           /\ open' = IF taken THEN [open EXCEPT ![ip].raw = @ + 1] ELSE open
           /\ Blocks(a.rows)
    /\ Squeezes(ip) /\ UNCHANGED <<time, sshRows, known, clean, failures>>

(* disconnect_client: every connection that ends is taken off its address. *)
disconnect_client(tab, ip) == decrement(tab, ip)

(* sniff and handoff: the client leaves the core; its socket goes to the   *)
(* console thread, or is closed.                                           *)
handoff(ip) ==
    /\ open[ip].raw > 0 /\ rows' = disconnect_client(rows, ip)
    /\ LET s == ssh_connect(ip)
       IN  /\ sshRows' = s.rows
           /\ open' = [open EXCEPT ![ip].raw = @ - 1, ![ip].login = IF s.ok THEN @ + 1 ELSE @]
    /\ Squeezes(ip) /\ UNCHANGED <<time, known, served, clean, failures, arrivals>>

(* open_console: a login by key, closed when the client table is full; or  *)
(* a login that ends without a word.                                       *)
open_console(ip) ==
    /\ open[ip].login > 0 /\ Clients < MaxOpen /\ rows' = increment(rows, ip)
    /\ LET t == ssh_find(ip) IN sshRows' = [t EXCEPT ![ip].success = time]
    /\ open' = [open EXCEPT ![ip].login = @ - 1, ![ip].console = @ + 1]
    /\ clean' = IF (ip \in DOMAIN rows' => rows'[ip].until <= time) /\ sshRows'[ip].until <= time
                THEN clean \cup {ip} ELSE clean
    /\ Squeezes(ip) /\ UNCHANGED <<time, known, served, failures, arrivals>>
LoginEnds(ip) ==
    /\ open[ip].login > 0 /\ open' = [open EXCEPT ![ip].login = @ - 1]
    /\ UNCHANGED <<time, rows, sshRows, known, served, clean, squeezed, failures, arrivals>>
LoginFails(ip) ==
    /\ open[ip].login > 0 /\ failures < MaxFails /\ failures' = failures + 1
    /\ sshRows' = ssh_failed(ip) /\ clean' = clean \ {ip}
    /\ open' = [open EXCEPT ![ip].login = @ - 1]
    /\ Squeezes(ip) /\ UNCHANGED <<time, rows, known, served, arrivals>>

(* A bot authenticates, or fails to and is closed.                         *)
AuthOk(ip) ==
    /\ open[ip].raw > 0 /\ open' = [open EXCEPT ![ip].raw = @ - 1, ![ip].bot = @ + 1]
    /\ known' = known_ip_note(ip)
    /\ UNCHANGED <<time, rows, sshRows, served, clean, squeezed, failures, arrivals>>
AuthFails(ip) ==
    /\ open[ip].raw > 0 /\ failures < MaxFails /\ failures' = failures + 1
    /\ LET t == record_failed_auth(rows, ip) IN rows' = disconnect_client(t, ip) /\ Blocks(t)
    /\ open' = [open EXCEPT ![ip].raw = @ - 1] /\ clean' = clean \ {ip}
    /\ Squeezes(ip) /\ UNCHANGED <<time, sshRows, known, arrivals>>

(* A client goes.                                                          *)
Closes(ip, kind) ==
    /\ open[ip][kind] > 0 /\ rows' = disconnect_client(rows, ip)
    /\ open' = [open EXCEPT ![ip][kind] = @ - 1]
    /\ UNCHANGED <<time, sshRows, known, served, clean, squeezed, failures, arrivals>>

(* check_peers: a dial, which is not counted when it starts.               *)
Dial(ip) ==
    /\ ip \in PeerIps /\ open[ip].dial = 0 /\ Clients < MaxOpen /\ open' = [open EXCEPT ![ip].dial = 1]
    /\ UNCHANGED <<time, rows, sshRows, known, served, clean, squeezed, failures, arrivals>>

(* cleanup_old_ip_limits                                                   *)
cleanup ==
    /\ LET kept == {j \in DOMAIN rows : rows[j].active > 0 \/ rows[j].until > 0 \/ time - rows[j].first <= RowMemory}
       IN  rows' = [ip \in kept |-> rows[ip]]
    /\ rows' # rows /\ UNCHANGED <<time, sshRows, open, known, served, clean, squeezed, failures, arrivals>>

Passes ==
    /\ time < MaxTime /\ time' = time + 1
    /\ clean' = {ip \in clean : ip \in DOMAIN sshRows /\ time' - sshRows[ip].success < SuccessMemory}
    /\ served' = [ip \in Ips |-> IF served[ip] > time' THEN served[ip] ELSE 0]
    /\ UNCHANGED <<rows, sshRows, open, known, squeezed, failures, arrivals>>

CgNext ==
    \/ \E ip \in Ips :
        \/ \E lucky \in BOOLEAN : accept_one(ip, lucky)
        \/ handoff(ip) \/ open_console(ip) \/ LoginEnds(ip) \/ LoginFails(ip)
        \/ AuthOk(ip) \/ AuthFails(ip) \/ Dial(ip)
        \/ \E kind \in {"raw", "bot", "console", "dial"} : Closes(ip, kind)
    \/ cleanup \/ Passes

CgSpec == CgInit /\ [][CgNext]_cgVars

-----------------------------------------------------------------------------
CgTypeOK ==
    /\ Cardinality(DOMAIN rows) <= MaxRows /\ Cardinality(DOMAIN sshRows) <= MaxSshRows
    /\ \A ip \in DOMAIN rows : rows[ip].active \in 0 .. MaxOpen
    /\ \A ip \in DOMAIN sshRows : sshRows[ip].until <= time + SshBlockMax

(* An address is never refused for connections that are gone: its count is *)
(* at most the connections it has, whether it was counted from the first   *)
(* one on or not, and exact for one that is not dialled while rows last    *)
(* (increment_active_connections, disconnect_client, handoff).             *)
CountTrue ==
    \A ip \in Ips :
        LET n == IF ip \in DOMAIN rows THEN rows[ip].active ELSE 0
        IN  n <= OpenOf(ip) /\ (ip \notin PeerIps /\ ~squeezed => n = OpenOf(ip))

(* A block is served in full: until it ends no connection of the address   *)
(* is taken, although rows of other addresses are reused and swept.        *)
BlockServed == [][\A ip \in Ips : open'[ip].raw > open[ip].raw => time >= served[ip]]_cgVars

(* An address its admin logged in from, with nothing refused since, gets   *)
(* in again: "a tightened limit must not lock its admin out".  While the   *)
(* tables have rows to spare, and unless a bot that authenticated there is *)
(* remembered past its time, which hides the login from ip_known.          *)
AdminGetsIn ==
    \A ip \in clean :
        ~squeezed /\ OpenOf(ip) < PerIp =>
            /\ (ip \in DOMAIN known => time - known[ip] < KnownMemory) => startup_admit(ip, FALSE)
            /\ is_ip_allowed(ip).ok /\ ssh_connect(ip).ok

(* The rows of an address are true and let in whom they should             *)
(* (is_ip_allowed, disconnect_client).                                     *)
RowsTrue == CgTypeOK /\ CountTrue /\ AdminGetsIn
=============================================================================
