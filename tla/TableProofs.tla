----------------------------- MODULE TableProofs ----------------------------
(***************************************************************************)
(* The hub's records and tables.                                           *)
(*                                                                         *)
(* The rows of the connection gate, for tables of any size.  That a block  *)
(* is served rests on blocked rows being neither reused nor swept, that an *)
(* admin gets in on what both tables say of the address since the login.   *)
(*                                                                         *)
(* The sessions of deleted bots, for any number of bots and connections,   *)
(* and that a bot on the list does not come back.                          *)
(*                                                                         *)
(* The store of channels, for any channels, bans and ceilings: the index   *)
(* and the counts kept beside the vector are exact after every step.       *)
(***************************************************************************)
EXTENDS ConnGate, Revoke, ChannelStore, FiniteSetTheorems, WellFoundedInduction, TLAPS

(* The gate's tables.                                                      *)
RowRec == [active : Nat, until : Nat, churn : Nat, win : Nat, fails : Nat, failAt : Nat, first : Nat]
SshRec == [win : Nat, conns : Nat, failAt : Nat, fails : Nat, until : Int, last : Nat, level : Nat,
           seen : Nat, success : Nat]
OpenRec == [raw : Nat, bot : Nat, console : Nat, dial : Nat, login : Nat]
IsTable(tab, R, max) ==
    /\ DOMAIN tab \subseteq Ips /\ IsFiniteSet(DOMAIN tab) /\ Cardinality(DOMAIN tab) <= max
    /\ tab \in [DOMAIN tab -> R]
ActiveOf(tab, ip) == IF ip \in DOMAIN tab THEN tab[ip].active ELSE 0

CgTypes ==
    /\ time \in Nat \ {0} /\ IsTable(rows, RowRec, MaxRows) /\ IsTable(sshRows, SshRec, MaxSshRows)
    /\ open \in [Ips -> OpenRec] /\ served \in [Ips -> Nat] /\ clean \subseteq Ips /\ squeezed \in BOOLEAN
ClientsFit == IsFiniteSet(Slots) /\ Clients <= MaxOpen

(* A block that is not over is in the row of its address, which is not     *)
(* idle and so is neither reused nor swept.                                *)
BlocksHeld == \A ip \in Ips : served[ip] > time => ip \in DOMAIN rows /\ rows[ip].until >= served[ip]
SshBounded == \A ip \in DOMAIN sshRows : sshRows[ip].until <= time + SshBlockMax

(* What the tables say of an address in clean.                             *)
Welcome(ip) ==
    /\ ip \in DOMAIN rows => rows[ip].until <= time
    /\ recent_ok(ip) /\ sshRows[ip].until <= time
CleanWelcome == ~squeezed => \A ip \in clean : Welcome(ip)

GateRowsInv == CgTypes /\ ClientsFit /\ CountTrue /\ BlocksHeld /\ SshBounded /\ CleanWelcome

(* The least of a set of naturals exists.                                  *)
LEMMA LeastOf ==
    ASSUME NEW S, S # {}, NEW T, \A x \in S : T[x] \in Nat
    PROVE  \E m \in S : \A x \in S : T[m] <= T[x]
  <1>. DEFINE D == {T[x] : x \in S}
  <1>1. D \subseteq Nat /\ D # {}
    OBVIOUS
  <1>2. PICK d \in D : \A e \in D : ~(<<e, d>> \in OpToRel(<, Nat))
    BY <1>1, NatLessThanWellFounded, WFMin
  <1>3. PICK m \in S : d = T[m]
    BY <1>2
  <1>4. ASSUME NEW x \in S PROVE T[m] <= T[x]
    <2>1. T[x] \in D /\ T[x] \in Nat /\ d \in Nat
      BY <1>1
    <2>2. ~(T[x] < d)
      BY <1>2, <2>1 DEF OpToRel
    <2>. QED BY <1>3, <2>1, <2>2
  <1>. QED BY <1>3, <1>4

(* A row added to a table that has it or has room.                         *)
LEMMA WithTable ==
    ASSUME NEW R, NEW max \in Nat, NEW tab, IsTable(tab, R, max), NEW ip \in Ips, NEW r \in R,
           ip \in DOMAIN tab \/ Cardinality(DOMAIN tab) < max
    PROVE  IsTable(With(tab, ip, r), R, max)
  <1>1. DOMAIN With(tab, ip, r) = DOMAIN tab \cup {ip}
    BY DEF With
  <1>2. /\ IsFiniteSet(DOMAIN tab \cup {ip})
        /\ Cardinality(DOMAIN tab \cup {ip}) =
             IF ip \in DOMAIN tab THEN Cardinality(DOMAIN tab) ELSE Cardinality(DOMAIN tab) + 1
    BY FS_AddElement DEF IsTable
  <1>3. Cardinality(DOMAIN tab) \in Nat
    BY FS_CardinalityType DEF IsTable
  <1>4. Cardinality(DOMAIN tab \cup {ip}) <= max
    BY <1>2, <1>3 DEF IsTable
  <1>5. With(tab, ip, r) \in [DOMAIN tab \cup {ip} -> R]
    BY DEF With, IsTable
  <1>. QED BY <1>1, <1>2, <1>4, <1>5 DEF IsTable

(* A row that takes the place of another.                                  *)
LEMMA SwapTable ==
    ASSUME NEW R, NEW max \in Nat, NEW tab, IsTable(tab, R, max), NEW ip \in Ips, NEW r \in R,
           NEW old \in DOMAIN tab
    PROVE  IsTable(With(Without(tab, old), ip, r), R, max)
  <1>1. DOMAIN Without(tab, old) = DOMAIN tab \ {old}
    BY DEF Without
  <1>2. /\ IsFiniteSet(DOMAIN tab \ {old})
        /\ Cardinality(DOMAIN tab \ {old}) = Cardinality(DOMAIN tab) - 1
    BY FS_RemoveElement DEF IsTable
  <1>3. Cardinality(DOMAIN tab) \in Nat
    BY FS_CardinalityType DEF IsTable
  <1>4. Without(tab, old) \in [DOMAIN tab \ {old} -> R]
    BY DEF Without, IsTable
  <1>5. IsTable(Without(tab, old), R, max) /\ Cardinality(DOMAIN Without(tab, old)) < max
    BY <1>1, <1>2, <1>3, <1>4 DEF IsTable
  <1>. QED BY <1>5, WithTable

(* A row changed in place.                                                 *)
LEMMA PutTable ==
    ASSUME NEW R, NEW max \in Nat, NEW tab, IsTable(tab, R, max), NEW ip \in DOMAIN tab, NEW r \in R,
           NEW t, t = [tab EXCEPT ![ip] = r]
    PROVE  IsTable(t, R, max)
  BY DEF IsTable

(* find_or_create: no count changes, no blocked row goes, nobody is newly  *)
(* blocked, and while rows last the address gets one.                      *)
LEMMA FindOrCreate ==
    ASSUME time \in Nat, NEW tab, IsTable(tab, RowRec, MaxRows), NEW ip \in Ips, NEW t, t = find_or_create(tab, ip)
    PROVE  /\ IsTable(t, RowRec, MaxRows)
           /\ \A j \in Ips : ActiveOf(t, j) = ActiveOf(tab, j)
           /\ \A j \in DOMAIN tab : tab[j].until > time => j \in DOMAIN t /\ t[j] = tab[j]
           /\ \A j \in DOMAIN t : (j \in DOMAIN tab /\ t[j] = tab[j]) \/ (j = ip /\ t[j].until = 0)
           /\ ip \in DOMAIN tab => t = tab
           /\ ip \in DOMAIN tab \/ Cardinality(DOMAIN tab) < MaxRows => ip \in DOMAIN t
  <1>0. MaxRows \in Nat /\ NewRow \in RowRec /\ NewRow.until = 0 /\ NewRow.active = 0
    BY ConnGateAssumption DEF NewRow, RowRec
  <1>1. CASE ip \in DOMAIN tab
    BY <1>1 DEF find_or_create
  <1>2. CASE ip \notin DOMAIN tab /\ Cardinality(DOMAIN tab) < MaxRows
    <2>1. t = With(tab, ip, NewRow)
      BY <1>2 DEF find_or_create
    <2>2. IsTable(t, RowRec, MaxRows)
      BY <1>0, <1>2, <2>1, WithTable
    <2>3. DOMAIN t = DOMAIN tab \cup {ip} /\ t[ip] = NewRow /\ \A j \in DOMAIN tab : t[j] = tab[j]
      BY <1>2, <2>1 DEF With
    <2>. QED BY <1>0, <1>2, <2>2, <2>3 DEF ActiveOf
  <1>3. CASE ip \notin DOMAIN tab /\ ~(Cardinality(DOMAIN tab) < MaxRows) /\ Idle(tab) = {}
    BY <1>3 DEF find_or_create
  <1>4. CASE ip \notin DOMAIN tab /\ ~(Cardinality(DOMAIN tab) < MaxRows) /\ Idle(tab) # {}
    <2>. DEFINE old == CHOOSE j \in Idle(tab) : \A k \in Idle(tab) : LastUse(tab[j]) <= LastUse(tab[k])
                T == [j \in Idle(tab) |-> LastUse(tab[j])]
    <2>1. \A j \in Idle(tab) : T[j] \in Nat
      BY DEF LastUse, Larger, Idle, IsTable, RowRec
    <2>2. \E j \in Idle(tab) : \A k \in Idle(tab) : T[j] <= T[k]
      <3>. HIDE DEF T
      <3>. QED BY <1>4, <2>1, LeastOf
    <2>3. \E j \in Idle(tab) : \A k \in Idle(tab) : LastUse(tab[j]) <= LastUse(tab[k])
      BY <2>2
    <2>4. old \in Idle(tab)
      BY <2>3
    <2>5. old \in DOMAIN tab /\ tab[old].active = 0 /\ tab[old].until <= time
      BY <2>4 DEF Idle
    <2>6. t = With(Without(tab, old), ip, NewRow)
      BY <1>4 DEF find_or_create
    <2>. HIDE DEF old
    <2>7. IsTable(t, RowRec, MaxRows)
      BY <1>0, <2>5, <2>6, SwapTable
    <2>8. /\ DOMAIN t = (DOMAIN tab \ {old}) \cup {ip} /\ t[ip] = NewRow
          /\ \A j \in DOMAIN tab \ {old} : t[j] = tab[j]
      BY <1>4, <2>6 DEF With, Without
    <2>9. \A j \in Ips : ActiveOf(t, j) = ActiveOf(tab, j)
      BY <1>0, <1>4, <2>5, <2>8 DEF ActiveOf
    <2>10. \A j \in DOMAIN tab : tab[j].until > time => j \in DOMAIN t /\ t[j] = tab[j]
      <3>1. tab[old].until \in Nat
        BY <2>5 DEF IsTable, RowRec
      <3>. QED BY <2>5, <2>8, <3>1
    <2>. QED BY <1>0, <1>4, <2>7, <2>8, <2>9, <2>10
  <1>. QED BY <1>1, <1>2, <1>3, <1>4

(* increment_active_connections: one more for the address, if it has a row.*)
LEMMA Increment ==
    ASSUME time \in Nat, NEW tab, IsTable(tab, RowRec, MaxRows), NEW ip \in Ips, NEW t, t = increment(tab, ip)
    PROVE  /\ IsTable(t, RowRec, MaxRows)
           /\ \A j \in Ips \ {ip} : ActiveOf(t, j) = ActiveOf(tab, j)
           /\ ActiveOf(t, ip) \in {ActiveOf(tab, ip), ActiveOf(tab, ip) + 1}
           /\ ip \in DOMAIN tab \/ Cardinality(DOMAIN tab) < MaxRows => ActiveOf(t, ip) = ActiveOf(tab, ip) + 1
           /\ \A j \in DOMAIN tab : tab[j].until > time => j \in DOMAIN t /\ t[j].until = tab[j].until
           /\ \A j \in DOMAIN t : t[j].until = 0 \/ (j \in DOMAIN tab /\ t[j].until = tab[j].until)
  <1>. DEFINE f == find_or_create(tab, ip)
  <1>0. MaxRows \in Nat
    BY ConnGateAssumption
  <1>1. /\ IsTable(f, RowRec, MaxRows)
        /\ \A j \in Ips : ActiveOf(f, j) = ActiveOf(tab, j)
        /\ \A j \in DOMAIN tab : tab[j].until > time => j \in DOMAIN f /\ f[j] = tab[j]
        /\ \A j \in DOMAIN f : (j \in DOMAIN tab /\ f[j] = tab[j]) \/ (j = ip /\ f[j].until = 0)
        /\ ip \in DOMAIN tab \/ Cardinality(DOMAIN tab) < MaxRows => ip \in DOMAIN f
    BY FindOrCreate
  <1>2. t = IF ip \in DOMAIN f THEN [f EXCEPT ![ip].active = @ + 1] ELSE f
    BY DEF increment
  <1>. HIDE DEF f
  <1>3. CASE ip \notin DOMAIN f
    BY <1>1, <1>2, <1>3
  <1>4. CASE ip \in DOMAIN f
    <2>. DEFINE r == [f[ip] EXCEPT !.active = @ + 1]
    <2>1. f[ip] \in RowRec
      BY <1>1, <1>4 DEF IsTable
    <2>2. r \in RowRec /\ r.active = f[ip].active + 1 /\ r.until = f[ip].until
      BY <2>1 DEF RowRec
    <2>3. t = [f EXCEPT ![ip] = r]
      BY <1>2, <1>4
    <2>. HIDE DEF r
    <2>4. DOMAIN t = DOMAIN f /\ t[ip] = r /\ \A j \in DOMAIN f \ {ip} : t[j] = f[j]
      BY <1>4, <2>3
    <2>5. IsTable(t, RowRec, MaxRows)
      BY <1>0, <1>1, <1>4, <2>2, <2>3, PutTable
    <2>6. ActiveOf(t, ip) = ActiveOf(tab, ip) + 1 /\ \A j \in Ips \ {ip} : ActiveOf(t, j) = ActiveOf(tab, j)
      BY <1>1, <1>4, <2>2, <2>4 DEF ActiveOf
    <2>7. \A j \in DOMAIN t : t[j].until = f[j].until
      BY <2>2, <2>4
    <2>. QED BY <1>1, <2>4, <2>5, <2>6, <2>7
  <1>. QED BY <1>3, <1>4

(* decrement_active_connections: one less, not below zero; blocks stay.    *)
LEMMA Decrement ==
    ASSUME NEW tab, IsTable(tab, RowRec, MaxRows), NEW ip \in Ips, NEW t, t = decrement(tab, ip)
    PROVE  /\ IsTable(t, RowRec, MaxRows)
           /\ \A j \in Ips \ {ip} : ActiveOf(t, j) = ActiveOf(tab, j)
           /\ ActiveOf(t, ip) = IF ActiveOf(tab, ip) > 0 THEN ActiveOf(tab, ip) - 1 ELSE 0
           /\ DOMAIN t = DOMAIN tab /\ \A j \in DOMAIN tab : t[j].until = tab[j].until
  <1>0. MaxRows \in Nat
    BY ConnGateAssumption
  <1>1. CASE ~(ip \in DOMAIN tab /\ tab[ip].active > 0)
    <2>1. t = tab
      BY <1>1 DEF decrement
    <2>2. ip \in DOMAIN tab => tab[ip].active \in Nat
      BY DEF IsTable, RowRec
    <2>. QED BY <1>1, <2>1, <2>2 DEF ActiveOf
  <1>2. CASE ip \in DOMAIN tab /\ tab[ip].active > 0
    <2>. DEFINE r == [tab[ip] EXCEPT !.active = @ - 1]
    <2>1. tab[ip] \in RowRec
      BY <1>2 DEF IsTable
    <2>2. r \in RowRec /\ r.active = tab[ip].active - 1 /\ r.until = tab[ip].until
      BY <1>2, <2>1 DEF RowRec
    <2>3. t = [tab EXCEPT ![ip] = r]
      BY <1>2 DEF decrement
    <2>. HIDE DEF r
    <2>4. DOMAIN t = DOMAIN tab /\ t[ip] = r /\ \A j \in DOMAIN tab \ {ip} : t[j] = tab[j]
      BY <1>2, <2>3
    <2>5. IsTable(t, RowRec, MaxRows)
      BY <1>0, <1>2, <2>2, <2>3, PutTable
    <2>. QED BY <1>2, <2>2, <2>4, <2>5 DEF ActiveOf
  <1>. QED BY <1>1, <1>2

(* What a step may make of the row of ip, the other rows being those       *)
(* find_or_create left.                                                    *)
RowSet(tab, t, ip) ==
    /\ IsTable(t, RowRec, MaxRows)
    /\ \A j \in Ips : ActiveOf(t, j) = ActiveOf(tab, j)
    /\ \A j \in DOMAIN tab \ {ip} : tab[j].until > time => j \in DOMAIN t /\ t[j] = tab[j]
    /\ \A j \in DOMAIN t \ {ip} : j \in DOMAIN tab /\ t[j] = tab[j]
    /\ ip \in DOMAIN tab \/ Cardinality(DOMAIN tab) < MaxRows => ip \in DOMAIN t
    /\ ip \in DOMAIN tab => ip \in DOMAIN t

(* Such a table, from the row that find_or_create left and its change.     *)
LEMMA RowSetBy ==
    ASSUME time \in Nat, NEW tab, IsTable(tab, RowRec, MaxRows), NEW ip \in Ips, NEW f, f = find_or_create(tab, ip),
           ip \in DOMAIN f, NEW r \in RowRec, r.active = f[ip].active, NEW t, t = [f EXCEPT ![ip] = r]
    PROVE  RowSet(tab, t, ip)
  <1>0. MaxRows \in Nat
    BY ConnGateAssumption
  <1>1. /\ IsTable(f, RowRec, MaxRows)
        /\ \A j \in Ips : ActiveOf(f, j) = ActiveOf(tab, j)
        /\ \A j \in DOMAIN tab : tab[j].until > time => j \in DOMAIN f /\ f[j] = tab[j]
        /\ \A j \in DOMAIN f : (j \in DOMAIN tab /\ f[j] = tab[j]) \/ (j = ip /\ f[j].until = 0)
    BY FindOrCreate
  <1>2. DOMAIN t = DOMAIN f /\ t[ip] = r /\ \A j \in DOMAIN f \ {ip} : t[j] = f[j]
    OBVIOUS
  <1>3. IsTable(t, RowRec, MaxRows)
    BY <1>0, <1>1, PutTable
  <1>. QED BY <1>1, <1>2, <1>3 DEF RowSet, ActiveOf

(* find_or_create itself.                                                  *)
LEMMA RowSetFound ==
    ASSUME time \in Nat, NEW tab, IsTable(tab, RowRec, MaxRows), NEW ip \in Ips, NEW f, f = find_or_create(tab, ip)
    PROVE  RowSet(tab, f, ip)
  BY FindOrCreate DEF RowSet

(* is_ip_allowed: no count changes; a blocked address stays so and is      *)
(* refused; one with a recent login is not blocked, and is let in unless   *)
(* its connections are too many.                                           *)
LEMMA Allowed ==
    ASSUME time \in Nat, IsTable(rows, RowRec, MaxRows), NEW ip \in Ips, NEW a, a = is_ip_allowed(ip)
    PROVE  /\ RowSet(rows, a.rows, ip)
           /\ ip \in DOMAIN rows /\ rows[ip].until > time => ~a.ok /\ a.rows[ip].until = rows[ip].until
           /\ recent_ok(ip) /\ (ip \in DOMAIN rows => rows[ip].until <= time) =>
                 /\ ip \in DOMAIN a.rows => a.rows[ip].until = 0
                 /\ ActiveOf(rows, ip) < PerIp => a.ok
  <1>. DEFINE t == find_or_create(rows, ip)
              r == IF t[ip].until > 0 THEN [t[ip] EXCEPT !.until = 0, !.fails = 0] ELSE t[ip]
              w == IF time - r.win >= ChurnS THEN [r EXCEPT !.win = time, !.churn = 1] ELSE [r EXCEPT !.churn = @ + 1]
              b == [w EXCEPT !.until = time + ChurnBlock]
  <1>0. {PerIp, ChurnBlock, ChurnS, ChurnN} \subseteq Nat
    BY ConnGateAssumption
  <1>1. /\ IsTable(t, RowRec, MaxRows)
        /\ \A j \in Ips : ActiveOf(t, j) = ActiveOf(rows, j)
        /\ \A j \in DOMAIN t : (j \in DOMAIN rows /\ t[j] = rows[j]) \/ (j = ip /\ t[j].until = 0)
        /\ ip \in DOMAIN rows => t = rows
    BY FindOrCreate
  <1>2. RowSet(rows, t, ip)
    BY RowSetFound
  <1>3. CASE ip \notin DOMAIN t
    <2>1. a = [rows |-> t, ok |-> TRUE]
      BY <1>3 DEF is_ip_allowed
    <2>. QED BY <1>1, <1>2, <1>3, <2>1
  <1>4. CASE ip \in DOMAIN t
    <2>1. t[ip] \in RowRec
      BY <1>1, <1>4 DEF IsTable
    <2>2. r \in RowRec /\ r.active = t[ip].active /\ r.until = 0
      <3>1. CASE t[ip].until > 0
        <4>1. r = [t[ip] EXCEPT !.until = 0, !.fails = 0]
          BY <3>1
        <4>. QED BY <2>1, <4>1 DEF RowRec
      <3>2. CASE ~(t[ip].until > 0)
        <4>1. r = t[ip] /\ t[ip].until = 0
          BY <2>1, <3>2 DEF RowRec
        <4>. QED BY <2>1, <4>1
      <3>. QED BY <3>1, <3>2
    <2>3. w \in RowRec /\ w.active = t[ip].active
      <3>. HIDE DEF r
      <3>1. CASE time - r.win >= ChurnS
        <4>1. w = [r EXCEPT !.win = time, !.churn = 1]
          BY <3>1
        <4>2. time \in Nat /\ 1 \in Nat
          OBVIOUS
        <4>. HIDE DEF w
        <4>. QED BY <2>2, <4>1, <4>2 DEF RowRec
      <3>2. CASE ~(time - r.win >= ChurnS)
        <4>1. w = [r EXCEPT !.churn = @ + 1]
          BY <3>2
        <4>. QED BY <2>2, <4>1 DEF RowRec
      <3>. QED BY <3>1, <3>2
    <2>4. b \in RowRec /\ b.active = t[ip].active
      <3>. HIDE DEF w
      <3>. QED BY <1>0, <2>3 DEF RowRec
    <2>5. CASE t[ip].until > time
      <3>1. a = [rows |-> t, ok |-> FALSE]
        <4>1. ~(t[ip].until <= time)
          BY <2>1, <2>5 DEF RowRec
        <4>. QED BY <1>4, <2>5, <4>1 DEF is_ip_allowed
      <3>2. ip \in DOMAIN rows /\ t = rows
        BY <1>1, <1>4, <2>5
      <3>3. ~(rows[ip].until <= time)
        BY <2>1, <2>5, <3>2 DEF RowRec
      <3>. QED BY <1>2, <3>1, <3>2, <3>3
    <2>6. CASE t[ip].until <= time /\ recent_ok(ip)
      <3>1. a = [rows |-> [t EXCEPT ![ip] = r], ok |-> r.active < PerIp]
        <4>1. ~(t[ip].until > time)
          BY <2>1, <2>6 DEF RowRec
        <4>. QED BY <1>4, <2>6, <4>1 DEF is_ip_allowed
      <3>. HIDE DEF r
      <3>2. RowSet(rows, a.rows, ip)
        <4>1. a.rows = [t EXCEPT ![ip] = r]
          BY <3>1
        <4>. QED BY <1>4, <2>2, <4>1, RowSetBy
      <3>3. a.rows[ip].until = 0
        BY <1>4, <2>2, <3>1
      <3>4. ActiveOf(rows, ip) < PerIp => a.ok
        <4>1. r.active = ActiveOf(rows, ip)
          BY <1>1, <1>4, <2>2 DEF ActiveOf
        <4>2. a.ok = (r.active < PerIp)
          BY <3>1
        <4>. QED BY <4>1, <4>2
      <3>5. ~(ip \in DOMAIN rows /\ rows[ip].until > time)
        BY <1>1, <2>1, <2>6 DEF RowRec
      <3>. QED BY <3>2, <3>3, <3>4, <3>5
    <2>7. CASE t[ip].until <= time /\ ~recent_ok(ip)
      <3>0. ~(t[ip].until > time)
        BY <2>1, <2>7 DEF RowRec
      <3>1. a = IF w.churn > ChurnN
                THEN [rows |-> [t EXCEPT ![ip] = b], ok |-> FALSE]
                ELSE [rows |-> [t EXCEPT ![ip] = w], ok |-> w.active < PerIp]
        BY <1>4, <2>7, <3>0 DEF is_ip_allowed
      <3>. HIDE DEF w, b
      <3>2. a.rows = [t EXCEPT ![ip] = b] \/ a.rows = [t EXCEPT ![ip] = w]
        BY <3>1
      <3>3. RowSet(rows, a.rows, ip)
        BY <1>4, <2>3, <2>4, <3>2, RowSetBy
      <3>4. ~(ip \in DOMAIN rows /\ rows[ip].until > time)
        BY <1>1, <3>0
      <3>. QED BY <2>7, <3>3, <3>4
    <2>8. t[ip].until > time \/ t[ip].until <= time
      BY <2>1 DEF RowRec
    <2>. QED BY <2>5, <2>6, <2>7, <2>8
  <1>. QED BY <1>3, <1>4

(* record_failed_auth: no count changes.                                   *)
LEMMA FailedAuth ==
    ASSUME time \in Nat, NEW tab, IsTable(tab, RowRec, MaxRows), NEW ip \in Ips, NEW t, t = record_failed_auth(tab, ip)
    PROVE  RowSet(tab, t, ip)
  <1>. DEFINE f == find_or_create(tab, ip)
              n == IF time - f[ip].failAt > FailS THEN 1 ELSE f[ip].fails + 1
              u == IF n >= FailN THEN time + FailBlock ELSE f[ip].until
              r == [f[ip] EXCEPT !.fails = n, !.failAt = time, !.until = u]
  <1>0. {FailN, FailS, FailBlock} \subseteq Nat
    BY ConnGateAssumption
  <1>1. RowSet(tab, f, ip)
    BY RowSetFound
  <1>2. CASE ip \notin DOMAIN f
    BY <1>1, <1>2 DEF record_failed_auth
  <1>3. CASE ip \in DOMAIN f
    <2>1. f[ip] \in RowRec
      BY <1>1, <1>3 DEF RowSet, IsTable
    <2>2. n \in Nat
      BY <1>0, <2>1 DEF RowRec
    <2>3. u \in Nat
      <3>. HIDE DEF n
      <3>. QED BY <1>0, <2>1, <2>2 DEF RowRec
    <2>4. r \in RowRec /\ r.active = f[ip].active
      <3>. HIDE DEF n, u
      <3>. QED BY <2>1, <2>2, <2>3 DEF RowRec
    <2>5. t = [f EXCEPT ![ip] = r]
      BY <1>3 DEF record_failed_auth
    <2>. HIDE DEF r
    <2>. QED BY <1>3, <2>4, <2>5, RowSetBy
  <1>. QED BY <1>2, <1>3

(* What a step may make of the table of SSH, and of the row of ip in it.   *)
SshRoom(ip) == ip \in DOMAIN sshRows \/ Cardinality(DOMAIN sshRows) < MaxSshRows
SshSet(t, ip) ==
    /\ IsTable(t, SshRec, MaxSshRows) /\ ip \in DOMAIN t
    /\ \A j \in DOMAIN t : t[j].until <= time + SshBlockMax
    /\ SshRoom(ip) =>
         \A j \in DOMAIN sshRows :
            j \in DOMAIN t /\ t[j].success = sshRows[j].success /\ (j # ip => t[j].until = sshRows[j].until)

(* ssh_find: a row for the address, in place of another if need be.        *)
LEMMA SshFind ==
    ASSUME time \in Nat, IsTable(sshRows, SshRec, MaxSshRows), SshBounded, NEW ip \in Ips, NEW t, t = ssh_find(ip)
    PROVE  SshSet(t, ip) /\ t[ip].until = IF ip \in DOMAIN sshRows THEN sshRows[ip].until ELSE 0
  <1>0. {MaxSshRows, SshBlockMax} \subseteq Nat /\ MaxSshRows > 0 /\ NewSsh \in SshRec /\ NewSsh.until = 0
    BY ConnGateAssumption DEF NewSsh, SshRec
  <1>1. CASE ip \in DOMAIN sshRows
    <2>. DEFINE r == [sshRows[ip] EXCEPT !.seen = time]
    <2>1. sshRows[ip] \in SshRec
      BY <1>1 DEF IsTable
    <2>2. r \in SshRec /\ r.until = sshRows[ip].until /\ r.success = sshRows[ip].success
      BY <2>1 DEF SshRec
    <2>3. t = [sshRows EXCEPT ![ip] = r]
      BY <1>1 DEF ssh_find
    <2>. HIDE DEF r
    <2>4. IsTable(t, SshRec, MaxSshRows)
      BY <1>0, <1>1, <2>2, <2>3, PutTable
    <2>5. DOMAIN t = DOMAIN sshRows /\ t[ip] = r /\ \A j \in DOMAIN t \ {ip} : t[j] = sshRows[j]
      BY <1>1, <2>3
    <2>. QED BY <1>1, <2>2, <2>4, <2>5 DEF SshSet, SshBounded
  <1>2. CASE ip \notin DOMAIN sshRows /\ Cardinality(DOMAIN sshRows) < MaxSshRows
    <2>1. t = With(sshRows, ip, NewSsh)
      BY <1>2 DEF ssh_find
    <2>2. IsTable(t, SshRec, MaxSshRows)
      BY <1>0, <1>2, <2>1, WithTable
    <2>3. DOMAIN t = DOMAIN sshRows \cup {ip} /\ t[ip] = NewSsh /\ \A j \in DOMAIN sshRows : t[j] = sshRows[j]
      BY <1>2, <2>1 DEF With
    <2>. QED BY <1>0, <1>2, <2>2, <2>3 DEF SshSet, SshBounded
  <1>3. CASE ip \notin DOMAIN sshRows /\ ~(Cardinality(DOMAIN sshRows) < MaxSshRows)
    <2>. DEFINE free == {j \in DOMAIN sshRows : sshRows[j].until <= time}
                old == IF free # {}
                       THEN CHOOSE j \in free : \A k \in free : sshRows[j].seen <= sshRows[k].seen
                       ELSE CHOOSE j \in DOMAIN sshRows : \A k \in DOMAIN sshRows : sshRows[j].until <= sshRows[k].until
    <2>1. old \in DOMAIN sshRows
      <3>. DEFINE S == [j \in free |-> sshRows[j].seen]
                  U == [j \in DOMAIN sshRows |-> sshRows[j].until]
      <3>1. DOMAIN sshRows # {}
        BY <1>0, <1>3, FS_EmptySet
      <3>2. \A j \in free : S[j] \in Nat
        BY DEF IsTable, SshRec
      <3>3. CASE free # {}
        <4>1. \E j \in free : \A k \in free : S[j] <= S[k]
          <5>. HIDE DEF S, free
          <5>. QED BY <3>2, <3>3, LeastOf
        <4>2. \E j \in free : \A k \in free : sshRows[j].seen <= sshRows[k].seen
          BY <4>1
        <4>. QED BY <3>3, <4>2
      <3>4. CASE free = {}
        <4>1. \E j \in DOMAIN sshRows : \A k \in DOMAIN sshRows : U[j] <= U[k]
          <5>1. \A j \in DOMAIN sshRows : U[j] \in Nat
            BY <3>4 DEF IsTable, SshRec
          <5>. HIDE DEF U
          <5>. QED BY <3>1, <5>1, LeastOf
        <4>2. \E j \in DOMAIN sshRows : \A k \in DOMAIN sshRows : sshRows[j].until <= sshRows[k].until
          BY <4>1
        <4>. QED BY <3>4, <4>2
      <3>. QED BY <3>3, <3>4
    <2>2. t = With(Without(sshRows, old), ip, NewSsh)
      BY <1>3 DEF ssh_find
    <2>. HIDE DEF old
    <2>3. IsTable(t, SshRec, MaxSshRows)
      BY <1>0, <2>1, <2>2, SwapTable
    <2>4. /\ DOMAIN t = (DOMAIN sshRows \ {old}) \cup {ip} /\ t[ip] = NewSsh
          /\ \A j \in DOMAIN sshRows \ {old} : t[j] = sshRows[j]
      BY <1>3, <2>2 DEF With, Without
    <2>. QED BY <1>0, <1>3, <2>3, <2>4 DEF SshSet, SshBounded, SshRoom
  <1>. QED BY <1>1, <1>2, <1>3

(* The row of ip replaced by one that is bounded and keeps its last login. *)
LEMMA SshPut ==
    ASSUME time \in Nat, NEW f, NEW ip \in Ips, SshSet(f, ip), NEW r \in SshRec, NEW t, t = [f EXCEPT ![ip] = r],
           r.until <= time + SshBlockMax, r.success = f[ip].success
    PROVE  SshSet(t, ip) /\ t[ip] = r
  <1>0. MaxSshRows \in Nat
    BY ConnGateAssumption
  <1>1. IsTable(t, SshRec, MaxSshRows)
    BY <1>0, PutTable DEF SshSet
  <1>2. DOMAIN t = DOMAIN f /\ t[ip] = r /\ \A j \in DOMAIN f \ {ip} : t[j] = f[j]
    BY DEF SshSet
  <1>. QED BY <1>1, <1>2 DEF SshSet

(* start_block: a block no longer than the limit.                          *)
LEMMA StartBlock ==
    ASSUME time \in Nat, NEW e \in SshRec, NEW b, b = start_block(e)
    PROVE  b \in SshRec /\ b.until <= time + SshBlockMax /\ b.success = e.success
  <1>. DEFINE level == IF e.last > 0 /\ time - e.last < BlockMemory THEN Smaller(e.level + 1, 30) ELSE 0
              long == Smaller(SshBlock * 2 ^ level, SshBlockMax)
  <1>0. {SshBlock, SshBlockMax, BlockMemory} \subseteq Nat
    BY ConnGateAssumption
  <1>1. level \in Nat
    BY <1>0 DEF Smaller, SshRec
  <1>2. 2 ^ level \in Int
    <2>. HIDE DEF level
    <2>. QED BY <1>1
  <1>3. long \in Int /\ long <= SshBlockMax
    <2>. DEFINE p == 2 ^ level
    <2>1. SshBlock * p \in Int
      <3>. HIDE DEF p
      <3>. QED BY <1>0, <1>2 DEF p
    <2>. HIDE DEF p
    <2>2. long = Smaller(SshBlock * p, SshBlockMax)
      BY DEF p
    <2>. QED BY <1>0, <2>1, <2>2 DEF Smaller
  <1>4. b = [e EXCEPT !.level = level, !.until = time + long, !.last = time, !.conns = 0, !.fails = 0]
    BY DEF start_block
  <1>. HIDE DEF level, long
  <1>5. time + long \in Int /\ time + long <= time + SshBlockMax /\ 0 \in Nat
    BY <1>0, <1>3
  <1>6. ASSUME NEW l \in Nat, NEW u \in Int, NEW z \in Nat,
               b = [e EXCEPT !.level = l, !.until = u, !.last = time, !.conns = z, !.fails = z]
        PROVE  b \in SshRec /\ b.until = u /\ b.success = e.success
    BY <1>6 DEF SshRec
  <1>. QED BY <1>1, <1>4, <1>5, <1>6

(* The row of an address whose block is over.                              *)
LEMMA ExpiredRow ==
    ASSUME NEW r \in SshRec, NEW e, e = Expired(r)
    PROVE  e \in SshRec /\ e.success = r.success /\ e.until <= 0
  <1>1. CASE r.until > 0
    <2>1. ASSUME NEW u \in Int, NEW z \in Nat, e = [r EXCEPT !.until = u, !.conns = z, !.fails = z]
          PROVE  e \in SshRec /\ e.success = r.success /\ e.until = u
      BY <2>1 DEF SshRec
    <2>2. \E u \in Int, z \in Nat : u = 0 /\ e = [r EXCEPT !.until = u, !.conns = z, !.fails = z]
      <3>1. e = [r EXCEPT !.until = 0, !.conns = 0, !.fails = 0]
        BY <1>1 DEF Expired
      <3>. WITNESS 0 \in Int, 0 \in Nat
      <3>. QED BY <3>1
    <2>3. PICK u \in Int, z \in Nat : u = 0 /\ e = [r EXCEPT !.until = u, !.conns = z, !.fails = z]
      BY <2>2
    <2>4. e \in SshRec /\ e.success = r.success /\ e.until = u
      BY <2>1, <2>3
    <2>. QED BY <2>3, <2>4
  <1>2. CASE ~(r.until > 0)
    <2>1. e = r /\ r.until <= 0
      BY <1>2 DEF Expired, SshRec
    <2>. QED BY <2>1
  <1>. QED BY <1>1, <1>2

(* ssh_table_connect: an address with a recent login, not blocked, is let  *)
(* on and not blocked.                                                     *)
LEMMA SshConnect ==
    ASSUME time \in Nat, IsTable(sshRows, SshRec, MaxSshRows), SshBounded, NEW ip \in Ips, NEW s, s = ssh_connect(ip)
    PROVE  /\ SshSet(s.rows, ip)
           /\ recent_ok(ip) /\ sshRows[ip].until <= time => s.ok /\ s.rows[ip].until <= time
  <1>. DEFINE t == ssh_find(ip)
              e == Expired(t[ip])
              w == IF time - e.win >= ConnectS THEN [e EXCEPT !.win = time, !.conns = 1] ELSE [e EXCEPT !.conns = @ + 1]
              recent == e.success > 0 /\ time - e.success < SuccessMemory
              b == start_block(w)
  <1>0. {ConnectS, ConnectN, SuccessMemory, SshBlockMax} \subseteq Nat
    BY ConnGateAssumption
  <1>1. SshSet(t, ip) /\ t[ip].until = IF ip \in DOMAIN sshRows THEN sshRows[ip].until ELSE 0
    BY SshFind
  <1>2. t[ip] \in SshRec
    BY <1>1 DEF SshSet, IsTable
  <1>. HIDE DEF t
  <1>3. e \in SshRec /\ e.success = t[ip].success /\ e.until <= time /\ e.until <= time + SshBlockMax
    <2>1. e \in SshRec /\ e.success = t[ip].success /\ e.until <= 0
      BY <1>2, ExpiredRow
    <2>. HIDE DEF e
    <2>. QED BY <1>0, <2>1 DEF SshRec
  <1>4. w \in SshRec /\ w.success = e.success /\ w.until = e.until
    <2>. HIDE DEF e
    <2>1. CASE time - e.win >= ConnectS
      <3>1. w = [e EXCEPT !.win = time, !.conns = 1] /\ 1 \in Nat
        BY <2>1
      <3>. HIDE DEF w
      <3>. QED BY <1>3, <3>1 DEF SshRec
    <2>2. CASE ~(time - e.win >= ConnectS)
      <3>1. w = [e EXCEPT !.conns = @ + 1]
        BY <2>2
      <3>. HIDE DEF w
      <3>. QED BY <1>3, <3>1 DEF SshRec
    <2>. QED BY <2>1, <2>2
  <1>. HIDE DEF e, w
  <1>5. b \in SshRec /\ b.until <= time + SshBlockMax /\ b.success = w.success
    BY <1>4, StartBlock
  <1>. HIDE DEF b
  <1>6. recent_ok(ip) => ip \in DOMAIN sshRows /\ recent
    BY <1>1, <1>3 DEF recent_ok, SshSet, SshRoom
  <1>7. CASE t[ip].until > time
    <2>1. s = [rows |-> t, ok |-> FALSE]
      <3>1. ~(t[ip].until <= time)
        BY <1>2, <1>7 DEF SshRec
      <3>. QED BY <1>7, <3>1 DEF ssh_connect, t, e
    <2>2. ip \in DOMAIN sshRows => ~(sshRows[ip].until <= time)
      BY <1>1, <1>2, <1>7 DEF SshRec
    <2>. QED BY <1>1, <1>6, <2>1, <2>2
  <1>8. CASE t[ip].until <= time /\ recent
    <2>1. s = [rows |-> [t EXCEPT ![ip] = e], ok |-> TRUE]
      <3>1. ~(t[ip].until > time)
        BY <1>2, <1>8 DEF SshRec
      <3>. QED BY <1>8, <3>1 DEF ssh_connect, t, e
    <2>2. s.rows = [t EXCEPT ![ip] = e]
      BY <2>1
    <2>4. SshSet(s.rows, ip) /\ s.rows[ip] = e
      <3>1. e \in SshRec /\ e.until <= time + SshBlockMax /\ e.success = t[ip].success
        BY <1>3
      <3>2. SshSet(s.rows, ip)
        BY <1>1, <2>2, <3>1, SshPut
      <3>. QED BY <1>1, <2>2, <3>2 DEF SshSet
    <2>. QED BY <1>3, <2>1, <2>4
  <1>9. CASE t[ip].until <= time /\ ~recent
    <2>1. s = IF w.conns > ConnectN THEN [rows |-> [t EXCEPT ![ip] = b], ok |-> FALSE]
              ELSE [rows |-> [t EXCEPT ![ip] = w], ok |-> TRUE]
      <3>1. ~(t[ip].until > time)
        BY <1>2, <1>9 DEF SshRec
      <3>. QED BY <1>9, <3>1 DEF ssh_connect, t, e, w, b
    <2>2. s.rows = [t EXCEPT ![ip] = b] \/ s.rows = [t EXCEPT ![ip] = w]
      BY <2>1
    <2>3. w.until <= time + SshBlockMax /\ w.success = t[ip].success /\ b.success = t[ip].success
      BY <1>3, <1>4, <1>5
    <2>4. SshSet(s.rows, ip)
      <3>1. CASE s.rows = [t EXCEPT ![ip] = b]
        BY <1>1, <1>5, <2>3, <3>1, SshPut
      <3>2. CASE s.rows = [t EXCEPT ![ip] = w]
        BY <1>1, <1>4, <2>3, <3>2, SshPut
      <3>. QED BY <2>2, <3>1, <3>2
    <2>. QED BY <1>6, <1>9, <2>4
  <1>10. t[ip].until > time \/ t[ip].until <= time
    BY <1>2 DEF SshRec
  <1>. QED BY <1>7, <1>8, <1>9, <1>10

(* ssh_table_failed                                                        *)
LEMMA SshFailed ==
    ASSUME time \in Nat, IsTable(sshRows, SshRec, MaxSshRows), SshBounded, NEW ip \in Ips, NEW t, t = ssh_failed(ip)
    PROVE  SshSet(t, ip)
  <1>. DEFINE g == ssh_find(ip)
              e == Expired(g[ip])
              n == IF e.failAt > 0 /\ time - e.failAt > SshFailS THEN 1 ELSE e.fails + 1
              f == [e EXCEPT !.fails = n, !.failAt = time]
              b == start_block(f)
  <1>0. {SshFailS, SshFailN, SshBlockMax} \subseteq Nat
    BY ConnGateAssumption
  <1>1. SshSet(g, ip)
    BY SshFind
  <1>2. g[ip] \in SshRec
    BY <1>1 DEF SshSet, IsTable
  <1>. HIDE DEF g
  <1>3. e \in SshRec /\ e.success = g[ip].success /\ e.until <= time /\ e.until <= time + SshBlockMax
    <2>1. e \in SshRec /\ e.success = g[ip].success /\ e.until <= 0
      BY <1>2, ExpiredRow
    <2>. HIDE DEF e
    <2>. QED BY <1>0, <2>1 DEF SshRec
  <1>. HIDE DEF e
  <1>4. n \in Nat
    BY <1>0, <1>3 DEF SshRec
  <1>. HIDE DEF n
  <1>5. f \in SshRec /\ f.success = e.success /\ f.until = e.until
    BY <1>3, <1>4 DEF SshRec
  <1>. HIDE DEF f
  <1>6. b \in SshRec /\ b.until <= time + SshBlockMax /\ b.success = f.success
    BY <1>5, StartBlock
  <1>7. t = IF g[ip].until > time THEN g ELSE [g EXCEPT ![ip] = IF n >= SshFailN THEN b ELSE f]
    BY DEF ssh_failed, g, e, n, f
  <1>. HIDE DEF b
  <1>8. t = g \/ t = [g EXCEPT ![ip] = b] \/ t = [g EXCEPT ![ip] = f]
    BY <1>7
  <1>9. f.until <= time + SshBlockMax /\ f.success = g[ip].success /\ b.success = g[ip].success
    BY <1>3, <1>5, <1>6
  <1>10. CASE t = [g EXCEPT ![ip] = b]
    BY <1>1, <1>6, <1>9, <1>10, SshPut
  <1>11. CASE t = [g EXCEPT ![ip] = f]
    BY <1>1, <1>5, <1>9, <1>11, SshPut
  <1>. QED BY <1>1, <1>8, <1>10, <1>11

-----------------------------------------------------------------------------
(* The connections of an address set to r.                                 *)
LEMMA OpenPut ==
    ASSUME open \in [Ips -> OpenRec], NEW ip \in Ips, NEW r \in OpenRec, open' = [open EXCEPT ![ip] = r]
    PROVE  /\ open' \in [Ips -> OpenRec] /\ open'[ip] = r /\ \A j \in Ips \ {ip} : open'[j] = open[j]
           /\ OpenOf(ip)' = r.raw + r.bot + r.console + r.dial
           /\ \A j \in Ips \ {ip} : OpenOf(j)' = OpenOf(j)
  <1>1. open' \in [Ips -> OpenRec] /\ open'[ip] = r /\ \A j \in Ips \ {ip} : open'[j] = open[j]
    OBVIOUS
  <1>. QED BY <1>1 DEF OpenOf

(* Counts are natural numbers.                                             *)
LEMMA OpenType ==
    ASSUME open \in [Ips -> OpenRec], NEW ip \in Ips
    PROVE  open[ip] \in OpenRec /\ OpenOf(ip) \in Nat
  BY DEF OpenOf, OpenRec

(* Where no address has more connections there are not more clients.       *)
LEMMA NotMoreClients ==
    ASSUME ClientsFit, open \in [Ips -> OpenRec], open' \in [Ips -> OpenRec],
           \A j \in Ips : OpenOf(j)' <= OpenOf(j)
    PROVE  ClientsFit'
  <1>0. MaxOpen \in Nat
    BY ConnGateAssumption
  <1>1. \A j \in Ips : OpenOf(j) \in Nat /\ OpenOf(j)' \in Nat
    BY DEF OpenOf, OpenRec
  <1>2. Slots' \subseteq Slots
    <2>1. ASSUME NEW j \in Ips, NEW x \in {j} \X (1 .. OpenOf(j)') PROVE x \in {j} \X (1 .. OpenOf(j))
      BY <1>1, <2>1
    <2>. QED BY <2>1 DEF Slots
  <1>3. IsFiniteSet(Slots') /\ Cardinality(Slots') <= Cardinality(Slots)
    BY <1>2, FS_Subset DEF ClientsFit
  <1>4. Cardinality(Slots) \in Nat /\ Cardinality(Slots') \in Nat
    BY <1>3, FS_CardinalityType DEF ClientsFit
  <1>. QED BY <1>0, <1>3, <1>4 DEF ClientsFit, Clients

(* A client more, where there was room for one.                            *)
LEMMA OneMoreClient ==
    ASSUME ClientsFit, Clients < MaxOpen, open \in [Ips -> OpenRec], open' \in [Ips -> OpenRec],
           NEW ip \in Ips, OpenOf(ip)' = OpenOf(ip) + 1, \A j \in Ips \ {ip} : OpenOf(j)' = OpenOf(j)
    PROVE  ClientsFit'
  <1>0. MaxOpen \in Nat
    BY ConnGateAssumption
  <1>. DEFINE new == <<ip, OpenOf(ip) + 1>>
  <1>1. \A j \in Ips : OpenOf(j) \in Nat /\ OpenOf(j)' \in Nat
    BY DEF OpenOf, OpenRec
  <1>2. Slots' \subseteq Slots \cup {new}
    <2>1. ASSUME NEW j \in Ips, NEW x \in {j} \X (1 .. OpenOf(j)')
          PROVE  x \in {j} \X (1 .. OpenOf(j)) \/ x = new
      BY <1>1, <2>1
    <2>. QED BY <2>1 DEF Slots
  <1>3. IsFiniteSet(Slots \cup {new}) /\ Cardinality(Slots \cup {new}) <= Cardinality(Slots) + 1
    <2>1. Cardinality(Slots) \in Nat
      BY FS_CardinalityType DEF ClientsFit
    <2>2. /\ IsFiniteSet(Slots \cup {new})
          /\ Cardinality(Slots \cup {new}) = IF new \in Slots THEN Cardinality(Slots) ELSE Cardinality(Slots) + 1
      <3>. HIDE DEF new
      <3>. QED BY FS_AddElement DEF ClientsFit
    <2>. HIDE DEF new
    <2>. QED BY <2>1, <2>2
  <1>4. IsFiniteSet(Slots') /\ Cardinality(Slots') <= Cardinality(Slots \cup {new})
    BY <1>2, <1>3, FS_Subset
  <1>5. Cardinality(Slots) \in Nat /\ Cardinality(Slots') \in Nat /\ Cardinality(Slots \cup {new}) \in Nat
    BY <1>3, <1>4, FS_CardinalityType DEF ClientsFit
  <1>. QED BY <1>0, <1>3, <1>4, <1>5 DEF ClientsFit, Clients

(* One address alone has no more connections than the hub has clients.     *)
LEMMA OpenFits ==
    ASSUME ClientsFit, open \in [Ips -> OpenRec], NEW ip \in Ips
    PROVE  OpenOf(ip) <= MaxOpen
  <1>0. MaxOpen \in Nat /\ OpenOf(ip) \in Nat
    BY ConnGateAssumption, OpenType
  <1>. DEFINE I == 1 .. OpenOf(ip)
              f == [n \in I |-> <<ip, n>>]
  <1>1. IsFiniteSet(I) /\ Cardinality(I) = OpenOf(ip)
    <2>1. Cardinality(I) = IF 1 > OpenOf(ip) THEN 0 ELSE OpenOf(ip) - 1 + 1
      BY <1>0, FS_Interval
    <2>. QED BY <1>0, <2>1, FS_Interval
  <1>2. f \in Injection(I, Slots)
    <2>1. \A n \in I : f[n] \in Slots
      BY DEF Slots
    <2>2. \A m, n \in I : f[m] = f[n] => m = n
      OBVIOUS
    <2>. QED BY <2>1, <2>2 DEF Injection, IsInjective
  <1>3. Cardinality(I) <= Cardinality(Slots)
    BY <1>1, <1>2, FS_Injection DEF ClientsFit, ExistsInjection
  <1>4. Cardinality(Slots) \in Nat
    BY FS_CardinalityType DEF ClientsFit
  <1>. QED BY <1>0, <1>1, <1>3, <1>4 DEF ClientsFit, Clients

(* CountTrue, by the counts of the rows.                                   *)
LEMMA CountTrueBy ==
    CountTrue <=> \A ip \in Ips : /\ ActiveOf(rows, ip) <= OpenOf(ip)
                                  /\ ip \notin PeerIps /\ ~squeezed => ActiveOf(rows, ip) = OpenOf(ip)
  BY DEF CountTrue, ActiveOf

(* An address that finds no room in a table squeezes it.                   *)
LEMMA NotSqueezed ==
    ASSUME squeezed \in BOOLEAN, NEW ip \in Ips, Squeezes(ip), IsTable(rows, RowRec, MaxRows),
           IsTable(sshRows, SshRec, MaxSshRows)
    PROVE  /\ squeezed' \in BOOLEAN
           /\ ~squeezed' => ~squeezed /\ SshRoom(ip) /\ (ip \in DOMAIN rows \/ Cardinality(DOMAIN rows) < MaxRows)
  <1>1. Cardinality(DOMAIN rows) \in Nat /\ Cardinality(DOMAIN sshRows) \in Nat /\ MaxRows \in Nat /\ MaxSshRows \in Nat
    BY FS_CardinalityType, ConnGateAssumption DEF IsTable
  <1>. DEFINE full == ip \notin DOMAIN rows /\ Cardinality(DOMAIN rows) >= MaxRows
              sshFull == ip \notin DOMAIN sshRows /\ Cardinality(DOMAIN sshRows) >= MaxSshRows
  <1>2. squeezed' = (squeezed \/ full \/ sshFull)
    BY DEF Squeezes
  <1>3. ~full => ip \in DOMAIN rows \/ Cardinality(DOMAIN rows) < MaxRows
    BY <1>1
  <1>4. ~sshFull => SshRoom(ip)
    BY <1>1 DEF SshRoom
  <1>. HIDE DEF full, sshFull
  <1>. QED BY <1>2, <1>3, <1>4

(* An address stays welcome while its rows say so.                         *)
LEMMA StaysWelcome ==
    ASSUME NEW j, Welcome(j), time' = time, j \in DOMAIN rows' => rows'[j].until <= time,
           j \in DOMAIN sshRows', sshRows'[j].success = sshRows[j].success, sshRows'[j].until <= time
    PROVE  Welcome(j)'
  BY DEF Welcome, recent_ok

(* The rows of a table count no more than there are: increment.            *)
LEMMA CountIn ==
    ASSUME CgTypes, CountTrue, NEW ip \in Ips, NEW t, IsTable(t, RowRec, MaxRows),
           \A j \in Ips : ActiveOf(t, j) = ActiveOf(rows, j), rows' = increment(t, ip),
           open' \in [Ips -> OpenRec], OpenOf(ip)' = OpenOf(ip) + 1, \A j \in Ips \ {ip} : OpenOf(j)' = OpenOf(j),
           ~squeezed' => ~squeezed /\ (ip \in DOMAIN t \/ Cardinality(DOMAIN t) < MaxRows)
    PROVE  CountTrue'
  <1>0. time \in Nat /\ \A j \in Ips : OpenOf(j) \in Nat /\ ActiveOf(rows, j) \in Nat
    BY OpenType DEF CgTypes, ActiveOf, IsTable, RowRec
  <1>1. /\ \A j \in Ips \ {ip} : ActiveOf(rows', j) = ActiveOf(rows, j)
        /\ ActiveOf(rows', ip) \in {ActiveOf(rows, ip), ActiveOf(rows, ip) + 1}
        /\ ~squeezed' => ActiveOf(rows', ip) = ActiveOf(rows, ip) + 1
    BY <1>0, Increment
  <1>2. \A j \in Ips : /\ ActiveOf(rows', j) <= OpenOf(j)'
                       /\ j \notin PeerIps /\ ~squeezed' => ActiveOf(rows', j) = OpenOf(j)'
    BY <1>0, <1>1, CountTrueBy
  <1>. QED BY <1>2 DEF CountTrue, ActiveOf

(* The rows after a connection less: decrement.                            *)
LEMMA CountOut ==
    ASSUME CgTypes, CountTrue, NEW ip \in Ips, NEW t, IsTable(t, RowRec, MaxRows),
           \A j \in Ips : ActiveOf(t, j) = ActiveOf(rows, j), rows' = decrement(t, ip),
           OpenOf(ip) > 0, OpenOf(ip)' = OpenOf(ip) - 1, \A j \in Ips \ {ip} : OpenOf(j)' = OpenOf(j),
           ~squeezed' => ~squeezed
    PROVE  CountTrue'
  <1>0. \A j \in Ips : OpenOf(j) \in Nat /\ ActiveOf(rows, j) \in Nat
    BY OpenType DEF CgTypes, ActiveOf, IsTable, RowRec
  <1>1. /\ \A j \in Ips \ {ip} : ActiveOf(rows', j) = ActiveOf(rows, j)
        /\ ActiveOf(rows', ip) = IF ActiveOf(rows, ip) > 0 THEN ActiveOf(rows, ip) - 1 ELSE 0
    BY Decrement
  <1>2. \A j \in Ips : /\ ActiveOf(rows', j) <= OpenOf(j)'
                       /\ j \notin PeerIps /\ ~squeezed' => ActiveOf(rows', j) = OpenOf(j)'
    BY <1>0, <1>1, CountTrueBy
  <1>. QED BY <1>2 DEF CountTrue, ActiveOf

(* accept_one: nothing is taken while a block lasts, and the table of rows *)
(* is as true as before.                                                   *)
LEMMA AcceptKeeps ==
    ASSUME GateRowsInv, NEW ip \in Ips, NEW lucky, accept_one(ip, lucky)
    PROVE  GateRowsInv' /\ (open' # open => time >= served[ip])
  <1>. DEFINE a == is_ip_allowed(ip)
              taken == a.ok /\ Clients < MaxOpen
              more == [open[ip] EXCEPT !.raw = @ + 1]
  <1>0. time \in Nat /\ MaxRows \in Nat /\ IsTable(rows, RowRec, MaxRows)
    BY ConnGateAssumption DEF GateRowsInv, CgTypes
  <1>1. /\ RowSet(rows, a.rows, ip)
        /\ ip \in DOMAIN rows /\ rows[ip].until > time => ~a.ok /\ a.rows[ip].until = rows[ip].until
        /\ recent_ok(ip) /\ (ip \in DOMAIN rows => rows[ip].until <= time) =>
              (ip \in DOMAIN a.rows => a.rows[ip].until = 0)
    BY <1>0, Allowed
  <1>2. /\ rows' = IF taken THEN increment(a.rows, ip) ELSE a.rows
        /\ open' = IF taken THEN [open EXCEPT ![ip].raw = @ + 1] ELSE open
        /\ Blocks(a.rows) /\ Squeezes(ip) /\ UNCHANGED <<time, sshRows, known, clean, failures>>
    BY DEF accept_one
  <1>. HIDE DEF a
  <1>3. /\ squeezed' \in BOOLEAN
        /\ ~squeezed' => ~squeezed /\ SshRoom(ip) /\ (ip \in DOMAIN rows \/ Cardinality(DOMAIN rows) < MaxRows)
    BY <1>2, NotSqueezed DEF GateRowsInv, CgTypes
  <1>4. IsTable(a.rows, RowRec, MaxRows) /\ \A j \in Ips : ActiveOf(a.rows, j) = ActiveOf(rows, j)
    BY <1>1 DEF RowSet
  <1>5. /\ IsTable(rows', RowRec, MaxRows)
        /\ \A j \in DOMAIN a.rows : a.rows[j].until > time => j \in DOMAIN rows' /\ rows'[j].until = a.rows[j].until
        /\ \A j \in DOMAIN rows' : rows'[j].until = 0 \/ (j \in DOMAIN a.rows /\ rows'[j].until = a.rows[j].until)
    <2>1. CASE taken
      <3>1. rows' = increment(a.rows, ip)
        BY <1>2, <2>1
      <3>. QED BY <1>0, <1>4, <3>1, Increment
    <2>2. CASE ~taken
      BY <1>2, <1>4, <2>2
    <2>. QED BY <2>1, <2>2
  <1>6. open' \in [Ips -> OpenRec] /\ CountTrue' /\ ClientsFit'
    <2>1. CASE taken
      <3>0. open[ip] \in OpenRec /\ open \in [Ips -> OpenRec]
        BY OpenType DEF GateRowsInv, CgTypes
      <3>1. more \in OpenRec /\ more.raw + more.bot + more.console + more.dial = OpenOf(ip) + 1
        BY <3>0 DEF OpenRec, OpenOf
      <3>2. open' = [open EXCEPT ![ip] = more] /\ rows' = increment(a.rows, ip)
        BY <1>2, <2>1
      <3>. HIDE DEF more
      <3>3. open' \in [Ips -> OpenRec] /\ OpenOf(ip)' = OpenOf(ip) + 1 /\ \A j \in Ips \ {ip} : OpenOf(j)' = OpenOf(j)
        BY <3>0, <3>1, <3>2, OpenPut
      <3>4. ~squeezed' => ~squeezed /\ (ip \in DOMAIN a.rows \/ Cardinality(DOMAIN a.rows) < MaxRows)
        BY <1>1, <1>3 DEF RowSet
      <3>5. CountTrue'
        BY <1>4, <3>2, <3>3, <3>4, CountIn DEF GateRowsInv
      <3>6. ClientsFit'
        BY <2>1, <3>0, <3>3, OneMoreClient DEF GateRowsInv
      <3>. QED BY <3>3, <3>5, <3>6
    <2>2. CASE ~taken
      <3>1. open' = open /\ rows' = a.rows
        BY <1>2, <2>2
      <3>2. open' \in [Ips -> OpenRec] /\ \A j \in Ips : OpenOf(j)' = OpenOf(j)
        BY <3>1 DEF GateRowsInv, CgTypes, OpenOf
      <3>3. CountTrue'
        <4>1. \A j \in Ips : /\ ActiveOf(rows', j) <= OpenOf(j)'
                             /\ j \notin PeerIps /\ ~squeezed' => ActiveOf(rows', j) = OpenOf(j)'
          BY <1>3, <1>4, <3>1, <3>2, CountTrueBy DEF GateRowsInv
        <4>. QED BY <4>1 DEF CountTrue, ActiveOf
      <3>4. ClientsFit'
        BY <3>1 DEF GateRowsInv, ClientsFit, Clients, Slots, OpenOf
      <3>. QED BY <3>2, <3>3, <3>4
    <2>. QED BY <2>1, <2>2
  <1>7. \A j \in Ips : j \in DOMAIN a.rows => a.rows[j].until \in Nat
    BY <1>4 DEF IsTable, RowRec
  <1>8. CgTypes'
    <2>1. served' \in [Ips -> Nat]
      BY <1>2, <1>7 DEF Blocks, GateRowsInv, CgTypes
    <2>. QED BY <1>2, <1>3, <1>5, <1>6, <2>1 DEF GateRowsInv, CgTypes
  <1>9. BlocksHeld'
    <2>. SUFFICES ASSUME NEW j \in Ips, served'[j] > time PROVE j \in DOMAIN rows' /\ rows'[j].until >= served'[j]
      BY <1>2 DEF BlocksHeld
    <2>1. served'[j] = IF j \in DOMAIN a.rows /\ a.rows[j].until > time THEN a.rows[j].until ELSE served[j]
      BY <1>2 DEF Blocks
    <2>2. CASE j \in DOMAIN a.rows /\ a.rows[j].until > time
      BY <1>5, <1>7, <2>1, <2>2
    <2>3. CASE ~(j \in DOMAIN a.rows /\ a.rows[j].until > time)
      <3>1. served'[j] = served[j] /\ served[j] \in Nat
        BY <2>1, <2>3 DEF GateRowsInv, CgTypes
      <3>2. j \in DOMAIN rows /\ rows[j].until >= served[j]
        BY <3>1 DEF GateRowsInv, BlocksHeld
      <3>3. rows[j].until \in Nat
        BY <1>0, <3>2 DEF IsTable, RowRec
      <3>4. rows[j].until > time
        BY <1>0, <3>1, <3>2, <3>3
      <3>5. j \in DOMAIN a.rows /\ a.rows[j].until = rows[j].until
        BY <1>1, <3>2, <3>4 DEF RowSet
      <3>. QED BY <2>3, <3>4, <3>5
    <2>. QED BY <2>2, <2>3
  <1>10. SshBounded'
    BY <1>2 DEF GateRowsInv, SshBounded
  <1>11. CleanWelcome'
    <2>. SUFFICES ASSUME ~squeezed', NEW j \in clean PROVE Welcome(j)'
      BY <1>2 DEF CleanWelcome
    <2>1. Welcome(j) /\ j \in Ips
      BY <1>3 DEF GateRowsInv, CleanWelcome, CgTypes
    <2>2. j \in DOMAIN a.rows => a.rows[j].until <= time
      <3>1. CASE j = ip
        BY <1>0, <1>1, <2>1, <3>1 DEF Welcome
      <3>2. CASE j # ip
        BY <1>1, <2>1, <3>2 DEF Welcome, RowSet
      <3>. QED BY <3>1, <3>2
    <2>3. j \in DOMAIN rows' => rows'[j].until <= time
      BY <1>0, <1>5, <2>2
    <2>. QED BY <1>2, <2>1, <2>3, StaysWelcome DEF Welcome, recent_ok
  <1>12. open' # open => time >= served[ip]
    <2>. SUFFICES ASSUME taken PROVE time >= served[ip]
      BY <1>2
    <2>1. served[ip] \in Nat
      BY DEF GateRowsInv, CgTypes
    <2>2. ~(served[ip] > time)
      <3>. SUFFICES ASSUME served[ip] > time PROVE FALSE
        OBVIOUS
      <3>1. ip \in DOMAIN rows /\ rows[ip].until >= served[ip]
        BY DEF GateRowsInv, BlocksHeld
      <3>2. rows[ip].until \in Nat
        BY <1>0, <3>1 DEF IsTable, RowRec
      <3>3. rows[ip].until > time
        BY <1>0, <2>1, <3>1, <3>2
      <3>. QED BY <1>1, <3>1, <3>3
    <2>. QED BY <1>0, <2>1, <2>2
  <1>. QED BY <1>6, <1>8, <1>9, <1>10, <1>11, <1>12 DEF GateRowsInv

(* Blocks stay while their rows do.                                        *)
LEMMA BlocksStay ==
    ASSUME GateRowsInv, UNCHANGED <<time, served>>,
           \A j \in DOMAIN rows : rows[j].until > time => j \in DOMAIN rows' /\ rows'[j].until = rows[j].until
    PROVE  BlocksHeld'
  <1>. SUFFICES ASSUME NEW j \in Ips, served[j] > time PROVE j \in DOMAIN rows' /\ rows'[j].until >= served[j]
    BY DEF BlocksHeld
  <1>1. time \in Nat /\ served[j] \in Nat
    BY DEF GateRowsInv, CgTypes
  <1>2. j \in DOMAIN rows /\ rows[j].until >= served[j]
    BY DEF GateRowsInv, BlocksHeld
  <1>3. rows[j].until \in Nat
    BY <1>2 DEF GateRowsInv, CgTypes, IsTable, RowRec
  <1>4. rows[j].until > time
    BY <1>1, <1>2, <1>3
  <1>. QED BY <1>2, <1>4

(* Clean addresses stay welcome where no row of theirs is newly blocked.   *)
LEMMA CleanStays ==
    ASSUME GateRowsInv, time' = time, clean' \subseteq clean, ~squeezed' => ~squeezed,
           \A j \in DOMAIN rows' : rows'[j].until <= time \/ (j \in DOMAIN rows /\ rows'[j].until = rows[j].until),
           ~squeezed' => \A j \in clean' : Welcome(j) =>
                j \in DOMAIN sshRows' /\ sshRows'[j].success = sshRows[j].success /\ sshRows'[j].until <= time
    PROVE  CleanWelcome'
  <1>. SUFFICES ASSUME ~squeezed', NEW j \in clean' PROVE Welcome(j)'
    BY DEF CleanWelcome
  <1>1. Welcome(j)
    BY DEF GateRowsInv, CleanWelcome
  <1>2. j \in DOMAIN rows' => rows'[j].until <= time
    BY <1>1 DEF Welcome
  <1>. QED BY <1>1, <1>2, StaysWelcome

(* disconnect_client of an address with a connection less: the rows.       *)
LEMMA Disconnected ==
    ASSUME GateRowsInv, NEW ip \in Ips, rows' = disconnect_client(rows, ip), NEW r \in OpenRec,
           open' = [open EXCEPT ![ip] = r], r.raw + r.bot + r.console + r.dial = OpenOf(ip) - 1, OpenOf(ip) > 0,
           ~squeezed' => ~squeezed, UNCHANGED <<time, served>>
    PROVE  /\ IsTable(rows', RowRec, MaxRows) /\ open' \in [Ips -> OpenRec] /\ CountTrue' /\ ClientsFit' /\ BlocksHeld'
           /\ DOMAIN rows' = DOMAIN rows /\ \A j \in DOMAIN rows : rows'[j].until = rows[j].until
  <1>0. CgTypes /\ CountTrue /\ ClientsFit /\ IsTable(rows, RowRec, MaxRows) /\ open \in [Ips -> OpenRec]
    BY DEF GateRowsInv, CgTypes
  <1>1. /\ open' \in [Ips -> OpenRec] /\ OpenOf(ip)' = OpenOf(ip) - 1
        /\ \A j \in Ips \ {ip} : OpenOf(j)' = OpenOf(j)
    BY <1>0, OpenPut
  <1>2. rows' = decrement(rows, ip)
    BY DEF disconnect_client
  <1>3. /\ IsTable(rows', RowRec, MaxRows)
        /\ DOMAIN rows' = DOMAIN rows /\ \A j \in DOMAIN rows : rows'[j].until = rows[j].until
    BY <1>0, <1>2, Decrement
  <1>4. CountTrue'
    BY <1>0, <1>1, <1>2, CountOut
  <1>5. ClientsFit'
    <2>1. \A j \in Ips : OpenOf(j)' <= OpenOf(j)
      BY <1>0, <1>1, OpenType
    <2>. QED BY <1>0, <1>1, <2>1, NotMoreClients
  <1>6. BlocksHeld'
    BY <1>3, BlocksStay
  <1>. QED BY <1>1, <1>3, <1>4, <1>5, <1>6

(* handoff                                                                 *)
LEMMA HandoffKeeps ==
    ASSUME GateRowsInv, NEW ip \in Ips, handoff(ip)
    PROVE  GateRowsInv' /\ \A j \in Ips : open'[j].raw <= open[j].raw
  <1>. DEFINE s == ssh_connect(ip)
              r == [open[ip] EXCEPT !.raw = @ - 1, !.login = IF s.ok THEN @ + 1 ELSE @]
  <1>0. /\ time \in Nat /\ IsTable(sshRows, SshRec, MaxSshRows) /\ SshBounded /\ IsTable(rows, RowRec, MaxRows)
        /\ open \in [Ips -> OpenRec] /\ open[ip] \in OpenRec /\ squeezed \in BOOLEAN
    BY OpenType DEF GateRowsInv, CgTypes
  <1>1. /\ open[ip].raw > 0 /\ rows' = disconnect_client(rows, ip) /\ sshRows' = s.rows /\ open' = [open EXCEPT ![ip] = r]
        /\ Squeezes(ip) /\ UNCHANGED <<time, known, served, clean, failures, arrivals>>
    BY DEF handoff
  <1>2. SshSet(s.rows, ip) /\ (recent_ok(ip) /\ sshRows[ip].until <= time => s.rows[ip].until <= time)
    BY <1>0, SshConnect
  <1>. HIDE DEF s
  <1>3. /\ squeezed' \in BOOLEAN
        /\ ~squeezed' => ~squeezed /\ SshRoom(ip)
    BY <1>0, <1>1, NotSqueezed
  <1>4. r \in OpenRec /\ r.raw + r.bot + r.console + r.dial = OpenOf(ip) - 1 /\ OpenOf(ip) > 0 /\ r.raw <= open[ip].raw
    <2>. DEFINE x == open[ip].raw - 1
                l == IF s.ok THEN open[ip].login + 1 ELSE open[ip].login
    <2>1. x \in Nat /\ l \in Nat
      BY <1>0, <1>1 DEF OpenRec
    <2>2. r = [open[ip] EXCEPT !.raw = x, !.login = l]
      OBVIOUS
    <2>. HIDE DEF r, l
    <2>3. r \in OpenRec /\ r.raw = x /\ r.bot = open[ip].bot /\ r.console = open[ip].console /\ r.dial = open[ip].dial
      <3>. HIDE DEF x
      <3>. QED BY <1>0, <2>1, <2>2 DEF OpenRec
    <2>. QED BY <1>0, <1>1, <2>3 DEF OpenRec, OpenOf
  <1>. HIDE DEF r
  <1>5. /\ IsTable(rows', RowRec, MaxRows) /\ open' \in [Ips -> OpenRec] /\ CountTrue' /\ ClientsFit' /\ BlocksHeld'
        /\ DOMAIN rows' = DOMAIN rows /\ \A j \in DOMAIN rows : rows'[j].until = rows[j].until
    BY <1>1, <1>3, <1>4, Disconnected
  <1>6. CgTypes' /\ SshBounded'
    BY <1>1, <1>2, <1>3, <1>5 DEF GateRowsInv, CgTypes, SshSet, SshBounded
  <1>7. CleanWelcome'
    <2>1. ASSUME ~squeezed', NEW j \in clean', Welcome(j)
          PROVE  j \in DOMAIN sshRows' /\ sshRows'[j].success = sshRows[j].success /\ sshRows'[j].until <= time
      <3>1. SshRoom(ip) /\ j \in DOMAIN sshRows /\ recent_ok(j) /\ sshRows[j].until <= time
        BY <1>3, <2>1 DEF Welcome, recent_ok
      <3>. QED BY <1>1, <1>2, <3>1 DEF SshSet
    <2>. QED BY <1>1, <1>3, <1>5, <2>1, CleanStays
  <1>8. \A j \in Ips : open'[j].raw <= open[j].raw
    BY <1>0, <1>1, <1>4 DEF OpenRec
  <1>. QED BY <1>5, <1>6, <1>7, <1>8 DEF GateRowsInv

(* open_console                                                            *)
LEMMA OpenConsoleKeeps ==
    ASSUME GateRowsInv, NEW ip \in Ips, open_console(ip)
    PROVE  GateRowsInv' /\ \A j \in Ips : open'[j].raw <= open[j].raw
  <1>. DEFINE t == ssh_find(ip)
              e == [t[ip] EXCEPT !.success = time]
              r == [open[ip] EXCEPT !.login = @ - 1, !.console = @ + 1]
  <1>0. /\ time \in Nat /\ time > 0 /\ IsTable(sshRows, SshRec, MaxSshRows) /\ SshBounded /\ IsTable(rows, RowRec, MaxRows)
        /\ open \in [Ips -> OpenRec] /\ open[ip] \in OpenRec /\ squeezed \in BOOLEAN /\ CgTypes /\ CountTrue
        /\ ClientsFit /\ MaxSshRows \in Nat /\ SuccessMemory \in Nat /\ SuccessMemory > 0
    BY OpenType, ConnGateAssumption DEF GateRowsInv, CgTypes
  <1>1. /\ open[ip].login > 0 /\ Clients < MaxOpen /\ rows' = increment(rows, ip)
        /\ sshRows' = [t EXCEPT ![ip] = e] /\ open' = [open EXCEPT ![ip] = r]
        /\ clean' = IF (ip \in DOMAIN rows' => rows'[ip].until <= time) /\ sshRows'[ip].until <= time
                    THEN clean \cup {ip} ELSE clean
        /\ Squeezes(ip) /\ UNCHANGED <<time, known, served, failures, arrivals>>
    BY DEF open_console
  <1>2. SshSet(t, ip)
    BY <1>0, SshFind
  <1>. HIDE DEF t
  <1>3. e \in SshRec /\ e.until = t[ip].until /\ e.success = time
    BY <1>0, <1>2 DEF SshSet, IsTable, SshRec
  <1>. HIDE DEF e
  <1>4. DOMAIN sshRows' = DOMAIN t /\ sshRows'[ip] = e /\ \A j \in DOMAIN t \ {ip} : sshRows'[j] = t[j]
    BY <1>1, <1>2 DEF SshSet
  <1>5. IsTable(sshRows', SshRec, MaxSshRows)
    BY <1>0, <1>1, <1>2, <1>3, PutTable DEF SshSet
  <1>6. SshBounded'
    BY <1>1, <1>2, <1>3, <1>4 DEF SshBounded, SshSet
  <1>7. /\ squeezed' \in BOOLEAN
        /\ ~squeezed' => ~squeezed /\ SshRoom(ip) /\ (ip \in DOMAIN rows \/ Cardinality(DOMAIN rows) < MaxRows)
    BY <1>0, <1>1, NotSqueezed
  <1>8. r \in OpenRec /\ r.raw + r.bot + r.console + r.dial = OpenOf(ip) + 1 /\ r.raw = open[ip].raw
    <2>. DEFINE x == open[ip].console + 1
                l == open[ip].login - 1
    <2>1. x \in Nat /\ l \in Nat
      BY <1>0, <1>1 DEF OpenRec
    <2>2. r = [open[ip] EXCEPT !.login = l, !.console = x]
      OBVIOUS
    <2>. HIDE DEF r, l
    <2>3. r \in OpenRec /\ r.raw = open[ip].raw /\ r.bot = open[ip].bot /\ r.console = x /\ r.dial = open[ip].dial
      <3>. HIDE DEF x
      <3>. QED BY <1>0, <2>1, <2>2 DEF OpenRec
    <2>. QED BY <1>0, <2>3 DEF OpenRec, OpenOf
  <1>. HIDE DEF r
  <1>9. open' \in [Ips -> OpenRec] /\ OpenOf(ip)' = OpenOf(ip) + 1 /\ \A j \in Ips \ {ip} : OpenOf(j)' = OpenOf(j)
    BY <1>0, <1>1, <1>8, OpenPut
  <1>10. CountTrue' /\ ClientsFit'
    <2>1. CountTrue'
      BY <1>0, <1>1, <1>7, <1>9, CountIn
    <2>. QED BY <1>0, <1>1, <1>9, <2>1, OneMoreClient
  <1>11. /\ IsTable(rows', RowRec, MaxRows)
         /\ \A j \in DOMAIN rows : rows[j].until > time => j \in DOMAIN rows' /\ rows'[j].until = rows[j].until
         /\ \A j \in DOMAIN rows' : rows'[j].until = 0 \/ (j \in DOMAIN rows /\ rows'[j].until = rows[j].until)
    BY <1>0, <1>1, Increment
  <1>12. BlocksHeld'
    BY <1>1, <1>11, BlocksStay
  <1>13. CgTypes'
    BY <1>1, <1>5, <1>7, <1>9, <1>11 DEF GateRowsInv, CgTypes
  <1>14. CleanWelcome'
    <2>. SUFFICES ASSUME ~squeezed', NEW j \in clean' PROVE Welcome(j)'
      BY DEF CleanWelcome
    <2>2. CASE j # ip
      <3>1. j \in clean
        BY <1>1, <2>2
      <3>2. Welcome(j)
        BY <1>7, <3>1 DEF GateRowsInv, CleanWelcome
      <3>3. j \in DOMAIN rows' => rows'[j].until <= time
        BY <1>0, <1>11, <3>2 DEF Welcome
      <3>4. j \in DOMAIN sshRows' /\ sshRows'[j].success = sshRows[j].success /\ sshRows'[j].until <= time
        BY <1>2, <1>4, <1>7, <2>2, <3>2 DEF SshSet, Welcome, recent_ok
      <3>. QED BY <1>1, <3>2, <3>3, <3>4, StaysWelcome
    <2>3. CASE j = ip
      <3>1. (ip \in DOMAIN rows' => rows'[ip].until <= time) /\ sshRows'[ip].until <= time
        <4>1. CASE (ip \in DOMAIN rows' => rows'[ip].until <= time) /\ sshRows'[ip].until <= time
          BY <4>1
        <4>2. CASE ~((ip \in DOMAIN rows' => rows'[ip].until <= time) /\ sshRows'[ip].until <= time)
          <5>1. ip \in clean
            BY <1>1, <2>3, <4>2
          <5>2. Welcome(ip) /\ ip \in DOMAIN sshRows
            BY <1>7, <5>1 DEF GateRowsInv, CleanWelcome, Welcome, recent_ok
          <5>3. ip \in DOMAIN rows' => rows'[ip].until <= time
            BY <1>0, <1>11, <5>2 DEF Welcome
          <5>4. t[ip].until = sshRows[ip].until
            BY <1>0, <5>2, SshFind DEF t
          <5>. QED BY <1>3, <1>4, <5>2, <5>3, <5>4 DEF Welcome
        <4>. QED BY <4>1, <4>2
      <3>2. recent_ok(ip)'
        BY <1>0, <1>1, <1>2, <1>3, <1>4 DEF recent_ok, SshSet
      <3>. QED BY <1>1, <2>3, <3>1, <3>2 DEF Welcome
    <2>. QED BY <2>2, <2>3
  <1>15. \A j \in Ips : open'[j].raw <= open[j].raw
    BY <1>0, <1>1, <1>8 DEF OpenRec
  <1>. QED BY <1>6, <1>10, <1>12, <1>13, <1>14, <1>15 DEF GateRowsInv

(* A step that leaves the rows and the counts of clients alone.            *)
LEMMA SameCounts ==
    ASSUME GateRowsInv, open' \in [Ips -> OpenRec], \A j \in Ips : OpenOf(j)' = OpenOf(j),
           UNCHANGED <<time, rows, served>>, ~squeezed' => ~squeezed
    PROVE  CountTrue' /\ ClientsFit' /\ BlocksHeld'
  <1>1. CountTrue'
    <2>1. \A j \in Ips : /\ ActiveOf(rows', j) <= OpenOf(j)'
                         /\ j \notin PeerIps /\ ~squeezed' => ActiveOf(rows', j) = OpenOf(j)'
      BY CountTrueBy DEF GateRowsInv
    <2>. QED BY <2>1 DEF CountTrue, ActiveOf
  <1>2. ClientsFit'
    <2>1. \A j \in Ips : OpenOf(j)' <= OpenOf(j)
      BY OpenType DEF GateRowsInv, CgTypes
    <2>. QED BY <2>1, NotMoreClients DEF GateRowsInv, CgTypes
  <1>3. BlocksHeld'
    BY DEF GateRowsInv, BlocksHeld
  <1>. QED BY <1>1, <1>2, <1>3

(* A login that ends, with nothing said.                                   *)
LEMMA LoginEndsKeeps ==
    ASSUME GateRowsInv, NEW ip \in Ips, LoginEnds(ip)
    PROVE  GateRowsInv' /\ \A j \in Ips : open'[j].raw <= open[j].raw
  <1>. DEFINE r == [open[ip] EXCEPT !.login = @ - 1]
  <1>0. open \in [Ips -> OpenRec] /\ open[ip] \in OpenRec
    BY OpenType DEF GateRowsInv, CgTypes
  <1>1. open[ip].login > 0 /\ open' = [open EXCEPT ![ip] = r]
    BY DEF LoginEnds
  <1>2. r \in OpenRec /\ r.raw + r.bot + r.console + r.dial = OpenOf(ip) /\ r.raw = open[ip].raw
    BY <1>0, <1>1 DEF OpenRec, OpenOf
  <1>. HIDE DEF r
  <1>3. open' \in [Ips -> OpenRec] /\ \A j \in Ips : OpenOf(j)' = OpenOf(j)
    BY <1>0, <1>1, <1>2, OpenPut
  <1>4. CountTrue' /\ ClientsFit' /\ BlocksHeld'
    BY <1>3, SameCounts DEF LoginEnds
  <1>5. CgTypes' /\ SshBounded' /\ CleanWelcome'
    BY <1>3 DEF LoginEnds, GateRowsInv, CgTypes, SshBounded, CleanWelcome, Welcome, recent_ok
  <1>6. \A j \in Ips : open'[j].raw <= open[j].raw
    BY <1>0, <1>1, <1>2 DEF OpenRec
  <1>. QED BY <1>4, <1>5, <1>6 DEF GateRowsInv

(* A login that fails: the address is clean no more.                       *)
LEMMA LoginFailsKeeps ==
    ASSUME GateRowsInv, NEW ip \in Ips, LoginFails(ip)
    PROVE  GateRowsInv' /\ \A j \in Ips : open'[j].raw <= open[j].raw
  <1>. DEFINE r == [open[ip] EXCEPT !.login = @ - 1]
  <1>0. /\ time \in Nat /\ IsTable(sshRows, SshRec, MaxSshRows) /\ SshBounded /\ IsTable(rows, RowRec, MaxRows)
        /\ open \in [Ips -> OpenRec] /\ open[ip] \in OpenRec /\ squeezed \in BOOLEAN
    BY OpenType DEF GateRowsInv, CgTypes
  <1>1. /\ open[ip].login > 0 /\ open' = [open EXCEPT ![ip] = r] /\ sshRows' = ssh_failed(ip) /\ clean' = clean \ {ip}
        /\ Squeezes(ip) /\ UNCHANGED <<time, rows, known, served, arrivals>>
    BY DEF LoginFails
  <1>2. r \in OpenRec /\ r.raw + r.bot + r.console + r.dial = OpenOf(ip) /\ r.raw = open[ip].raw
    BY <1>0, <1>1 DEF OpenRec, OpenOf
  <1>. HIDE DEF r
  <1>3. open' \in [Ips -> OpenRec] /\ \A j \in Ips : OpenOf(j)' = OpenOf(j)
    BY <1>0, <1>1, <1>2, OpenPut
  <1>4. squeezed' \in BOOLEAN /\ (~squeezed' => ~squeezed /\ SshRoom(ip))
    BY <1>0, <1>1, NotSqueezed
  <1>5. CountTrue' /\ ClientsFit' /\ BlocksHeld'
    BY <1>1, <1>3, <1>4, SameCounts
  <1>6. SshSet(sshRows', ip)
    BY <1>0, <1>1, SshFailed
  <1>7. CgTypes' /\ SshBounded'
    BY <1>1, <1>3, <1>4, <1>6 DEF GateRowsInv, CgTypes, SshSet, SshBounded
  <1>8. CleanWelcome'
    <2>1. ASSUME ~squeezed', NEW j \in clean', Welcome(j)
          PROVE  j \in DOMAIN sshRows' /\ sshRows'[j].success = sshRows[j].success /\ sshRows'[j].until <= time
      BY <1>1, <1>4, <1>6, <2>1 DEF Welcome, recent_ok, SshSet
    <2>. QED BY <1>1, <1>4, <2>1, CleanStays
  <1>9. \A j \in Ips : open'[j].raw <= open[j].raw
    BY <1>0, <1>1, <1>2 DEF OpenRec
  <1>. QED BY <1>5, <1>7, <1>8, <1>9 DEF GateRowsInv

(* A bot that authenticates.                                               *)
LEMMA AuthOkKeeps ==
    ASSUME GateRowsInv, NEW ip \in Ips, AuthOk(ip)
    PROVE  GateRowsInv' /\ \A j \in Ips : open'[j].raw <= open[j].raw
  <1>. DEFINE r == [open[ip] EXCEPT !.raw = @ - 1, !.bot = @ + 1]
  <1>0. open \in [Ips -> OpenRec] /\ open[ip] \in OpenRec
    BY OpenType DEF GateRowsInv, CgTypes
  <1>1. open[ip].raw > 0 /\ open' = [open EXCEPT ![ip] = r]
    BY DEF AuthOk
  <1>2. r \in OpenRec /\ r.raw + r.bot + r.console + r.dial = OpenOf(ip) /\ r.raw <= open[ip].raw
    <2>. DEFINE x == open[ip].raw - 1
                l == open[ip].bot + 1
    <2>1. x \in Nat /\ l \in Nat
      BY <1>0, <1>1 DEF OpenRec
    <2>2. r = [open[ip] EXCEPT !.raw = x, !.bot = l]
      OBVIOUS
    <2>. HIDE DEF r
    <2>3. r \in OpenRec /\ r.raw = x /\ r.bot = l /\ r.console = open[ip].console /\ r.dial = open[ip].dial
      <3>. HIDE DEF x, l
      <3>. QED BY <1>0, <2>1, <2>2 DEF OpenRec
    <2>. QED BY <1>0, <2>3 DEF OpenRec, OpenOf
  <1>. HIDE DEF r
  <1>3. open' \in [Ips -> OpenRec] /\ \A j \in Ips : OpenOf(j)' = OpenOf(j)
    BY <1>0, <1>1, <1>2, OpenPut
  <1>4. CountTrue' /\ ClientsFit' /\ BlocksHeld'
    BY <1>3, SameCounts DEF AuthOk
  <1>5. CgTypes' /\ SshBounded' /\ CleanWelcome'
    BY <1>3 DEF AuthOk, GateRowsInv, CgTypes, SshBounded, CleanWelcome, Welcome, recent_ok
  <1>6. \A j \in Ips : open'[j].raw <= open[j].raw
    BY <1>0, <1>1, <1>2 DEF OpenRec
  <1>. QED BY <1>4, <1>5, <1>6 DEF GateRowsInv

(* A bot that fails to: recorded, and closed.                              *)
LEMMA AuthFailsKeeps ==
    ASSUME GateRowsInv, NEW ip \in Ips, AuthFails(ip)
    PROVE  GateRowsInv' /\ \A j \in Ips : open'[j].raw <= open[j].raw
  <1>. DEFINE t == record_failed_auth(rows, ip)
              r == [open[ip] EXCEPT !.raw = @ - 1]
  <1>0. /\ time \in Nat /\ IsTable(sshRows, SshRec, MaxSshRows) /\ IsTable(rows, RowRec, MaxRows) /\ CgTypes /\ CountTrue
        /\ open \in [Ips -> OpenRec] /\ open[ip] \in OpenRec /\ squeezed \in BOOLEAN /\ ClientsFit
    BY OpenType DEF GateRowsInv, CgTypes
  <1>1. /\ open[ip].raw > 0 /\ rows' = decrement(t, ip) /\ Blocks(t) /\ open' = [open EXCEPT ![ip] = r]
        /\ clean' = clean \ {ip} /\ Squeezes(ip) /\ UNCHANGED <<time, sshRows, known, arrivals>>
    BY DEF AuthFails, disconnect_client
  <1>2. RowSet(rows, t, ip)
    BY <1>0, FailedAuth
  <1>. HIDE DEF t
  <1>3. squeezed' \in BOOLEAN /\ (~squeezed' => ~squeezed)
    BY <1>0, <1>1, NotSqueezed
  <1>4. r \in OpenRec /\ r.raw + r.bot + r.console + r.dial = OpenOf(ip) - 1 /\ OpenOf(ip) > 0 /\ r.raw <= open[ip].raw
    BY <1>0, <1>1 DEF OpenRec, OpenOf
  <1>. HIDE DEF r
  <1>5. /\ open' \in [Ips -> OpenRec] /\ OpenOf(ip)' = OpenOf(ip) - 1
        /\ \A j \in Ips \ {ip} : OpenOf(j)' = OpenOf(j)
    BY <1>0, <1>1, <1>4, OpenPut
  <1>6. IsTable(t, RowRec, MaxRows) /\ \A j \in Ips : ActiveOf(t, j) = ActiveOf(rows, j)
    BY <1>2 DEF RowSet
  <1>7. CountTrue'
    BY <1>0, <1>1, <1>3, <1>4, <1>5, <1>6, CountOut
  <1>8. ClientsFit'
    <2>1. \A j \in Ips : OpenOf(j)' <= OpenOf(j)
      BY <1>0, <1>5, OpenType
    <2>. QED BY <1>0, <1>5, <2>1, NotMoreClients
  <1>9. /\ IsTable(rows', RowRec, MaxRows)
        /\ DOMAIN rows' = DOMAIN t /\ \A j \in DOMAIN t : rows'[j].until = t[j].until
    BY <1>1, <1>6, Decrement
  <1>10. \A j \in DOMAIN t : t[j].until \in Nat
    BY <1>6 DEF IsTable, RowRec
  <1>11. CgTypes'
    <2>1. served' \in [Ips -> Nat]
      BY <1>1, <1>10 DEF Blocks, GateRowsInv, CgTypes
    <2>. QED BY <1>1, <1>3, <1>5, <1>9, <2>1 DEF GateRowsInv, CgTypes
  <1>12. BlocksHeld'
    <2>. SUFFICES ASSUME NEW j \in Ips, served'[j] > time PROVE j \in DOMAIN rows' /\ rows'[j].until >= served'[j]
      BY <1>1 DEF BlocksHeld
    <2>1. served'[j] = IF j \in DOMAIN t /\ t[j].until > time THEN t[j].until ELSE served[j]
      BY <1>1 DEF Blocks
    <2>2. CASE j \in DOMAIN t /\ t[j].until > time
      BY <1>9, <1>10, <2>1, <2>2
    <2>3. CASE ~(j \in DOMAIN t /\ t[j].until > time)
      <3>1. served'[j] = served[j] /\ served[j] \in Nat
        BY <2>1, <2>3 DEF GateRowsInv, CgTypes
      <3>2. j \in DOMAIN rows /\ rows[j].until >= served[j]
        BY <3>1 DEF GateRowsInv, BlocksHeld
      <3>3. rows[j].until \in Nat
        BY <1>0, <3>2 DEF IsTable, RowRec
      <3>4. rows[j].until > time
        BY <1>0, <3>1, <3>2, <3>3
      <3>5. CASE j # ip
        BY <1>2, <2>3, <3>2, <3>4, <3>5 DEF RowSet
      <3>6. CASE j = ip
        <4>1. rows[ip] \in RowRec /\ find_or_create(rows, ip) = rows
          BY <1>0, <3>2, <3>6, FindOrCreate DEF IsTable
        <4>2. t[ip].until = rows[ip].until \/ t[ip].until = time + FailBlock
          BY <3>2, <3>6, <4>1 DEF t, record_failed_auth, RowRec
        <4>3. t[ip].until = time + FailBlock /\ ~(t[ip].until > time) /\ FailBlock \in Nat /\ FailBlock > 0
          BY <1>2, <2>3, <3>2, <3>4, <3>6, <4>2, ConnGateAssumption DEF RowSet
        <4>. QED BY <1>0, <4>3
      <3>. QED BY <3>5, <3>6
    <2>. QED BY <2>2, <2>3
  <1>13. SshBounded'
    BY <1>1 DEF GateRowsInv, SshBounded
  <1>14. CleanWelcome'
    <2>1. \A j \in clean' : j \in DOMAIN rows' => rows'[j].until = rows[j].until /\ j \in DOMAIN rows
      BY <1>1, <1>2, <1>9 DEF RowSet
    <2>. SUFFICES ASSUME ~squeezed', NEW j \in clean' PROVE Welcome(j)'
      BY DEF CleanWelcome
    <2>2. Welcome(j)
      BY <1>1, <1>3 DEF GateRowsInv, CleanWelcome
    <2>3. j \in DOMAIN rows' => rows'[j].until <= time
      BY <2>1, <2>2 DEF Welcome
    <2>. QED BY <1>1, <2>2, <2>3, StaysWelcome DEF Welcome, recent_ok
  <1>15. \A j \in Ips : open'[j].raw <= open[j].raw
    BY <1>0, <1>1, <1>4 DEF OpenRec
  <1>. QED BY <1>7, <1>8, <1>11, <1>12, <1>13, <1>14, <1>15 DEF GateRowsInv

(* A client that goes.                                                     *)
LEMMA ClosesKeeps ==
    ASSUME GateRowsInv, NEW ip \in Ips, NEW kind \in {"raw", "bot", "console", "dial"}, Closes(ip, kind)
    PROVE  GateRowsInv' /\ \A j \in Ips : open'[j].raw <= open[j].raw
  <1>. DEFINE r == [open[ip] EXCEPT ![kind] = @ - 1]
  <1>0. open \in [Ips -> OpenRec] /\ open[ip] \in OpenRec
    BY OpenType DEF GateRowsInv, CgTypes
  <1>1. /\ open[ip][kind] > 0 /\ open' = [open EXCEPT ![ip] = r] /\ rows' = disconnect_client(rows, ip)
        /\ UNCHANGED <<time, sshRows, known, served, clean, squeezed, failures, arrivals>>
    BY DEF Closes
  <1>2. r \in OpenRec /\ r.raw + r.bot + r.console + r.dial = OpenOf(ip) - 1 /\ OpenOf(ip) > 0 /\ r.raw <= open[ip].raw
    <2>1. CASE kind = "raw"
      BY <1>0, <1>1, <2>1 DEF OpenRec, OpenOf
    <2>2. CASE kind = "bot"
      BY <1>0, <1>1, <2>2 DEF OpenRec, OpenOf
    <2>3. CASE kind = "console"
      BY <1>0, <1>1, <2>3 DEF OpenRec, OpenOf
    <2>4. CASE kind = "dial"
      BY <1>0, <1>1, <2>4 DEF OpenRec, OpenOf
    <2>. QED BY <2>1, <2>2, <2>3, <2>4
  <1>. HIDE DEF r
  <1>3. /\ IsTable(rows', RowRec, MaxRows) /\ open' \in [Ips -> OpenRec] /\ CountTrue' /\ ClientsFit' /\ BlocksHeld'
        /\ DOMAIN rows' = DOMAIN rows /\ \A j \in DOMAIN rows : rows'[j].until = rows[j].until
    BY <1>1, <1>2, Disconnected
  <1>4. CgTypes' /\ SshBounded'
    BY <1>1, <1>3 DEF GateRowsInv, CgTypes, SshBounded
  <1>5. CleanWelcome'
    BY <1>1, <1>3 DEF GateRowsInv, CleanWelcome, Welcome, recent_ok
  <1>6. \A j \in Ips : open'[j].raw <= open[j].raw
    BY <1>0, <1>1, <1>2 DEF OpenRec
  <1>. QED BY <1>3, <1>4, <1>5, <1>6 DEF GateRowsInv

(* A dial, which no row counts when it starts.                             *)
LEMMA DialKeeps ==
    ASSUME GateRowsInv, NEW ip \in Ips, Dial(ip)
    PROVE  GateRowsInv' /\ \A j \in Ips : open'[j].raw <= open[j].raw
  <1>. DEFINE r == [open[ip] EXCEPT !.dial = 1]
  <1>0. open \in [Ips -> OpenRec] /\ open[ip] \in OpenRec /\ CountTrue /\ ClientsFit
    BY OpenType DEF GateRowsInv, CgTypes
  <1>1. /\ ip \in PeerIps /\ open[ip].dial = 0 /\ Clients < MaxOpen /\ open' = [open EXCEPT ![ip] = r]
        /\ UNCHANGED <<time, rows, sshRows, known, served, clean, squeezed, failures, arrivals>>
    BY DEF Dial
  <1>2. r \in OpenRec /\ r.raw + r.bot + r.console + r.dial = OpenOf(ip) + 1 /\ r.raw = open[ip].raw
    <2>1. ASSUME NEW n \in Nat, NEW q, q = [open[ip] EXCEPT !.dial = n]
          PROVE  q \in OpenRec /\ q.raw = open[ip].raw /\ q.bot = open[ip].bot /\ q.console = open[ip].console /\ q.dial = n
      BY <1>0, <2>1 DEF OpenRec
    <2>2. r \in OpenRec /\ r.raw = open[ip].raw /\ r.bot = open[ip].bot /\ r.console = open[ip].console /\ r.dial = 1
      BY <2>1
    <2>. HIDE DEF r
    <2>. QED BY <1>0, <1>1, <2>2 DEF OpenRec, OpenOf
  <1>. HIDE DEF r
  <1>3. open' \in [Ips -> OpenRec] /\ OpenOf(ip)' = OpenOf(ip) + 1 /\ \A j \in Ips \ {ip} : OpenOf(j)' = OpenOf(j)
    BY <1>0, <1>1, <1>2, OpenPut
  <1>4. ClientsFit'
    BY <1>0, <1>1, <1>3, OneMoreClient
  <1>5. CountTrue'
    <2>0. \A j \in Ips : OpenOf(j) \in Nat /\ ActiveOf(rows, j) \in Nat
      BY OpenType DEF GateRowsInv, CgTypes, ActiveOf, IsTable, RowRec
    <2>1. \A j \in Ips : /\ ActiveOf(rows', j) <= OpenOf(j)'
                         /\ j \notin PeerIps /\ ~squeezed' => ActiveOf(rows', j) = OpenOf(j)'
      BY <1>0, <1>1, <1>3, <2>0, CountTrueBy
    <2>. QED BY <2>1 DEF CountTrue, ActiveOf
  <1>6. CgTypes' /\ SshBounded' /\ CleanWelcome' /\ BlocksHeld'
    BY <1>1, <1>3 DEF GateRowsInv, CgTypes, SshBounded, CleanWelcome, Welcome, recent_ok, BlocksHeld
  <1>7. \A j \in Ips : open'[j].raw <= open[j].raw
    BY <1>0, <1>1, <1>2 DEF OpenRec
  <1>. QED BY <1>4, <1>5, <1>6, <1>7 DEF GateRowsInv

(* cleanup_old_ip_limits: the rows that go count nothing and block nobody. *)
LEMMA CleanupKeeps ==
    ASSUME GateRowsInv, cleanup
    PROVE  GateRowsInv' /\ open' = open
  <1>. DEFINE kept == {j \in DOMAIN rows : rows[j].active > 0 \/ rows[j].until > 0 \/ time - rows[j].first <= RowMemory}
  <1>0. /\ time \in Nat /\ MaxRows \in Nat /\ IsTable(rows, RowRec, MaxRows) /\ open \in [Ips -> OpenRec] /\ CountTrue
        /\ \A j \in DOMAIN rows : rows[j].active \in Nat /\ rows[j].until \in Nat
    BY ConnGateAssumption DEF GateRowsInv, CgTypes, IsTable, RowRec
  <1>1. /\ rows' = [j \in kept |-> rows[j]]
        /\ UNCHANGED <<time, sshRows, open, known, served, clean, squeezed, failures, arrivals>>
    BY DEF cleanup
  <1>2. /\ kept \subseteq DOMAIN rows
        /\ \A j \in DOMAIN rows \ kept : rows[j].active = 0 /\ rows[j].until = 0
    BY <1>0
  <1>. HIDE DEF kept
  <1>3. DOMAIN rows' = kept /\ \A j \in kept : rows'[j] = rows[j]
    BY <1>1
  <1>4. IsTable(rows', RowRec, MaxRows)
    <2>1. IsFiniteSet(kept) /\ Cardinality(kept) <= Cardinality(DOMAIN rows)
      BY <1>0, <1>2, FS_Subset DEF IsTable
    <2>2. Cardinality(kept) \in Nat /\ Cardinality(DOMAIN rows) \in Nat
      BY <1>0, <2>1, FS_CardinalityType DEF IsTable
    <2>3. rows' \in [kept -> RowRec]
      BY <1>0, <1>1, <1>2 DEF IsTable
    <2>. QED BY <1>0, <1>2, <1>3, <2>1, <2>2, <2>3 DEF IsTable
  <1>5. \A j \in Ips : ActiveOf(rows', j) = ActiveOf(rows, j) /\ OpenOf(j)' = OpenOf(j)
    BY <1>1, <1>2, <1>3 DEF ActiveOf, OpenOf
  <1>6. CountTrue'
    <2>1. \A j \in Ips : /\ ActiveOf(rows', j) <= OpenOf(j)'
                         /\ j \notin PeerIps /\ ~squeezed' => ActiveOf(rows', j) = OpenOf(j)'
      BY <1>0, <1>1, <1>5, CountTrueBy
    <2>. QED BY <2>1 DEF CountTrue, ActiveOf
  <1>7. ClientsFit'
    BY <1>1 DEF GateRowsInv, ClientsFit, Clients, Slots, OpenOf
  <1>8. \A j \in DOMAIN rows : rows[j].until > time => j \in DOMAIN rows' /\ rows'[j].until = rows[j].until
    <2>. SUFFICES ASSUME NEW j \in DOMAIN rows, rows[j].until > time PROVE j \in kept
      BY <1>3
    <2>1. rows[j].until # 0
      BY <1>0
    <2>. QED BY <1>2, <2>1
  <1>9. BlocksHeld'
    BY <1>1, <1>8, BlocksStay
  <1>10. CgTypes' /\ SshBounded'
    BY <1>1, <1>4 DEF GateRowsInv, CgTypes, SshBounded
  <1>11. CleanWelcome'
    BY <1>1, <1>2, <1>3 DEF GateRowsInv, CleanWelcome, Welcome, recent_ok
  <1>. QED BY <1>1, <1>6, <1>7, <1>9, <1>10, <1>11 DEF GateRowsInv

(* The clock.                                                              *)
LEMMA PassesKeeps ==
    ASSUME GateRowsInv, Passes
    PROVE  GateRowsInv' /\ open' = open
  <1>0. time \in Nat \ {0} /\ SshBlockMax \in Nat /\ SuccessMemory \in Nat
    BY ConnGateAssumption DEF GateRowsInv, CgTypes
  <1>1. /\ time' = time + 1
        /\ clean' = {ip \in clean : ip \in DOMAIN sshRows /\ time' - sshRows[ip].success < SuccessMemory}
        /\ served' = [ip \in Ips |-> IF served[ip] > time' THEN served[ip] ELSE 0]
        /\ UNCHANGED <<rows, sshRows, open, known, squeezed, failures, arrivals>>
    BY DEF Passes
  <1>2. CgTypes'
    <2>1. served' \in [Ips -> Nat]
      BY <1>1 DEF GateRowsInv, CgTypes
    <2>2. time' \in Nat \ {0}
      BY <1>0, <1>1
    <2>. QED BY <1>1, <2>1, <2>2 DEF GateRowsInv, CgTypes
  <1>3. ClientsFit' /\ CountTrue'
    BY <1>1 DEF GateRowsInv, ClientsFit, Clients, Slots, OpenOf, CountTrue
  <1>4. BlocksHeld'
    <2>. SUFFICES ASSUME NEW j \in Ips, served'[j] > time' PROVE j \in DOMAIN rows /\ rows[j].until >= served'[j]
      BY <1>1 DEF BlocksHeld
    <2>0. served[j] \in Nat
      BY DEF GateRowsInv, CgTypes
    <2>1. served'[j] = served[j] /\ served[j] > time'
      BY <1>0, <1>1, <2>0
    <2>2. served[j] > time
      BY <1>0, <1>1, <2>0, <2>1
    <2>. QED BY <2>1, <2>2 DEF GateRowsInv, BlocksHeld
  <1>5. SshBounded'
    <2>. SUFFICES ASSUME NEW j \in DOMAIN sshRows PROVE sshRows[j].until <= time' + SshBlockMax
      BY <1>1 DEF SshBounded
    <2>1. sshRows[j].until \in Int /\ sshRows[j].until <= time + SshBlockMax
      BY DEF GateRowsInv, CgTypes, IsTable, SshRec, SshBounded
    <2>. QED BY <1>0, <1>1, <2>1
  <1>6. CleanWelcome'
    <2>. SUFFICES ASSUME ~squeezed, NEW j \in clean' PROVE Welcome(j)'
      BY <1>1 DEF CleanWelcome
    <2>1. j \in clean /\ time' - sshRows[j].success < SuccessMemory
      BY <1>1
    <2>2. Welcome(j)
      BY <2>1 DEF GateRowsInv, CleanWelcome
    <2>3. sshRows[j].until \in Int /\ (j \in DOMAIN rows => rows[j].until \in Nat)
      BY <2>2 DEF GateRowsInv, CgTypes, IsTable, SshRec, RowRec, Welcome, recent_ok
    <2>4. sshRows[j].until <= time' /\ (j \in DOMAIN rows => rows[j].until <= time')
      BY <1>0, <1>1, <2>2, <2>3 DEF Welcome
    <2>5. recent_ok(j)'
      BY <1>1, <2>1, <2>2 DEF Welcome, recent_ok
    <2>. QED BY <1>1, <2>4, <2>5 DEF Welcome
  <1>. QED BY <1>1, <1>2, <1>3, <1>4, <1>5, <1>6 DEF GateRowsInv

(* Every step keeps the rows true, and takes no connection of an address   *)
(* that is blocked.                                                        *)
LEMMA GateStep ==
    GateRowsInv /\ [CgNext]_cgVars =>
        GateRowsInv' /\ \A ip \in Ips : open'[ip].raw > open[ip].raw => time >= served[ip]
  <1>. SUFFICES ASSUME GateRowsInv, [CgNext]_cgVars
                PROVE  GateRowsInv' /\ \A ip \in Ips : open'[ip].raw > open[ip].raw => time >= served[ip]
    OBVIOUS
  <1>0. \A ip \in Ips : open[ip].raw \in Nat
    BY DEF GateRowsInv, CgTypes, OpenRec
  <1>1. ASSUME GateRowsInv', \A ip \in Ips : open'[ip].raw <= open[ip].raw
        PROVE  GateRowsInv' /\ \A ip \in Ips : open'[ip].raw > open[ip].raw => time >= served[ip]
    <2>1. \A ip \in Ips : open'[ip].raw \in Nat
      BY <1>1 DEF GateRowsInv, CgTypes, OpenRec
    <2>. QED BY <1>0, <1>1, <2>1
  <1>2. ASSUME NEW ip \in Ips, NEW lucky \in BOOLEAN, accept_one(ip, lucky)
        PROVE  GateRowsInv' /\ \A j \in Ips : open'[j].raw > open[j].raw => time >= served[j]
    <2>1. GateRowsInv' /\ (open' # open => time >= served[ip])
      BY <1>2, AcceptKeeps
    <2>2. \A j \in Ips \ {ip} : open'[j] = open[j]
      BY <1>2 DEF accept_one, GateRowsInv, CgTypes
    <2>. QED BY <1>0, <2>1, <2>2
  <1>3. ASSUME NEW ip \in Ips,
               \/ handoff(ip) \/ open_console(ip) \/ LoginEnds(ip) \/ LoginFails(ip) \/ AuthOk(ip) \/ AuthFails(ip)
               \/ Dial(ip) \/ \E kind \in {"raw", "bot", "console", "dial"} : Closes(ip, kind)
        PROVE  GateRowsInv' /\ \A j \in Ips : open'[j].raw <= open[j].raw
    BY <1>3, HandoffKeeps, OpenConsoleKeeps, LoginEndsKeeps, LoginFailsKeeps, AuthOkKeeps, AuthFailsKeeps, DialKeeps,
       ClosesKeeps
  <1>4. CASE cleanup \/ Passes
    BY <1>0, <1>4, CleanupKeeps, PassesKeeps
  <1>5. CASE UNCHANGED cgVars
    <2>1. GateRowsInv'
      BY <1>5 DEF cgVars, GateRowsInv, CgTypes, ClientsFit, Clients, Slots, OpenOf, CountTrue, BlocksHeld, SshBounded,
                  CleanWelcome, Welcome, recent_ok
    <2>. QED BY <1>0, <1>5, <2>1 DEF cgVars
  <1>6. CASE CgNext
    BY <1>1, <1>2, <1>3, <1>4, <1>6 DEF CgNext
  <1>. QED BY <1>5, <1>6

(* The empty tables.                                                       *)
LEMMA GateInit == CgInit => GateRowsInv
  <1>. SUFFICES ASSUME CgInit PROVE GateRowsInv
    OBVIOUS
  <1>0. {MaxRows, MaxSshRows, MaxOpen} \subseteq Nat
    BY ConnGateAssumption
  <1>1. rows = NoRow /\ sshRows = NoRow /\ time = 1 /\ clean = {} /\ squeezed = FALSE /\ served = [ip \in Ips |-> 0]
    BY DEF CgInit
  <1>2. DOMAIN NoRow = {} /\ NoRow \in [{} -> RowRec] /\ NoRow \in [{} -> SshRec]
    BY DEF NoRow
  <1>3. IsFiniteSet({}) /\ Cardinality({}) = 0
    BY FS_EmptySet
  <1>4. IsTable(NoRow, RowRec, MaxRows) /\ IsTable(NoRow, SshRec, MaxSshRows)
    BY <1>0, <1>2, <1>3 DEF IsTable
  <1>5. open \in [Ips -> OpenRec] /\ \A ip \in Ips : OpenOf(ip) = 0
    BY DEF CgInit, OpenRec, OpenOf
  <1>6. Slots = {}
    BY <1>5 DEF Slots
  <1>7. CgTypes
    <2>1. squeezed \in BOOLEAN
      BY <1>1
    <2>2. served \in [Ips -> Nat] /\ time \in Nat \ {0} /\ clean \subseteq Ips
      BY <1>1
    <2>3. IsTable(rows, RowRec, MaxRows) /\ IsTable(sshRows, SshRec, MaxSshRows)
      BY <1>1, <1>4
    <2>. QED BY <1>5, <2>1, <2>2, <2>3 DEF CgTypes
  <1>8. ClientsFit
    BY <1>0, <1>3, <1>6 DEF ClientsFit, Clients
  <1>9. CountTrue /\ BlocksHeld /\ SshBounded /\ CleanWelcome
    BY <1>1, <1>2, <1>5 DEF CountTrue, BlocksHeld, SshBounded, CleanWelcome
  <1>. QED BY <1>7, <1>8, <1>9 DEF GateRowsInv

(* What the tables let in, from the invariant.                             *)
LEMMA RowsTrueHolds == GateRowsInv => RowsTrue
  <1>. SUFFICES ASSUME GateRowsInv PROVE RowsTrue
    OBVIOUS
  <1>0. /\ time \in Nat /\ MaxOpen \in Nat /\ PerIp \in Nat /\ IsTable(rows, RowRec, MaxRows)
        /\ IsTable(sshRows, SshRec, MaxSshRows) /\ SshBounded /\ open \in [Ips -> OpenRec] /\ ClientsFit /\ CountTrue
        /\ clean \subseteq Ips
    BY ConnGateAssumption DEF GateRowsInv, CgTypes
  <1>1. \A ip \in Ips : ActiveOf(rows, ip) \in Nat /\ OpenOf(ip) \in Nat
    BY <1>0, OpenType DEF ActiveOf, IsTable, RowRec
  <1>2. CgTypeOK
    <2>1. ASSUME NEW ip \in DOMAIN rows PROVE rows[ip].active \in 0 .. MaxOpen
      <3>1. ip \in Ips /\ ActiveOf(rows, ip) = rows[ip].active
        BY <1>0 DEF IsTable, ActiveOf
      <3>2. ActiveOf(rows, ip) <= OpenOf(ip) /\ OpenOf(ip) <= MaxOpen
        BY <1>0, <3>1, CountTrueBy, OpenFits
      <3>. QED BY <1>0, <1>1, <3>1, <3>2
    <2>. QED BY <1>0, <2>1 DEF CgTypeOK, IsTable, SshBounded
  <1>3. AdminGetsIn
    <2>. SUFFICES ASSUME NEW ip \in clean, ~squeezed, OpenOf(ip) < PerIp
                  PROVE  /\ (ip \in DOMAIN known => time - known[ip] < KnownMemory) => startup_admit(ip, FALSE)
                         /\ is_ip_allowed(ip).ok /\ ssh_connect(ip).ok
      BY DEF AdminGetsIn
    <2>1. Welcome(ip) /\ ip \in Ips
      BY <1>0 DEF GateRowsInv, CleanWelcome
    <2>2. (ip \in DOMAIN known => time - known[ip] < KnownMemory) => ip_known(ip)
      BY <2>1 DEF ip_known, Welcome
    <2>3. ip_known(ip) => startup_admit(ip, FALSE)
      BY DEF startup_admit
    <2>4. ActiveOf(rows, ip) < PerIp
      BY <1>0, <1>1, <2>1, CountTrueBy
    <2>5. is_ip_allowed(ip).ok
      BY <1>0, <2>1, <2>4, Allowed DEF Welcome
    <2>6. ssh_connect(ip).ok
      BY <1>0, <2>1, SshConnect DEF Welcome
    <2>. QED BY <2>2, <2>3, <2>5, <2>6
  <1>. QED BY <1>0, <1>2, <1>3 DEF RowsTrue

(* For any addresses, tables of any size, limits and order of connections, *)
(* logins, failures and sweeps: the tables keep to their sizes, an address *)
(* is charged for no connection that is gone, and one its admin logged in  *)
(* from is let in again (find_or_create, is_ip_allowed, ssh_table_connect).*)
THEOREM RowsTrueAlways == CgSpec => []RowsTrue
  <1>. QED BY GateInit, GateStep, RowsTrueHolds, PTL DEF CgSpec

(* And a block is served in full, whatever rows are reused or swept.       *)
THEOREM BlockServedAlways == CgSpec => BlockServed
  <1>1. GateRowsInv /\ [CgNext]_cgVars =>
            [\A ip \in Ips : open'[ip].raw > open[ip].raw => time >= served[ip]]_cgVars
    BY GateStep
  <1>. QED BY <1>1, GateInit, GateStep, PTL DEF CgSpec, BlockServed

-----------------------------------------------------------------------------
(* Deleted bots.  What a session needs to be, and what a hub: one record.  *)
SessionRec ==
    [st : {"none", "challenge", "quarantine", "bot", "retiring"}, u : Uuids \cup {0}, q : BOOLEAN,
     superseded : BOOLEAN, late : BOOLEAN, full : BOOLEAN]
SessTypeOK == sess \in [Nodes -> [SessSlots -> SessionRec]] /\ DOMAIN hub = Nodes

(* The state of the hubs with the sessions: what SessionsTrue needs.       *)
SessionsInv == SessTypeOK /\ SessionsTrue

(* A session with some of its fields changed.                              *)
LEMMA StateSet ==
    ASSUME NEW c \in SessionRec, NEW st \in {"none", "challenge", "quarantine", "bot", "retiring"},
           NEW k, k = [c EXCEPT !.st = st]
    PROVE  k \in SessionRec /\ k.st = st /\ k.u = c.u /\ k.superseded = c.superseded
           /\ k.late = c.late /\ k.full = c.full
  BY DEF SessionRec

(* A session that a login made one of a bot.                               *)
LEMMA LoginSet ==
    ASSUME NEW c \in SessionRec, NEW b \in BOOLEAN, NEW k, k = [c EXCEPT !.st = "bot", !.late = b]
    PROVE  k \in SessionRec /\ k.st = "bot" /\ k.u = c.u /\ k.late = b
  BY DEF SessionRec

(* A session that a later one superseded.                                  *)
LEMMA SupersededSet ==
    ASSUME NEW c \in SessionRec, NEW k, k = [c EXCEPT !.superseded = TRUE]
    PROVE  k \in SessionRec /\ k.st = c.st /\ k.u = c.u /\ k.late = c.late /\ k.full = c.full /\ k.superseded
  BY DEF SessionRec

(* A session whose urgent lane was full when its bot was to be told.       *)
LEMMA FullSet ==
    ASSUME NEW c \in SessionRec, NEW k, k = [c EXCEPT !.full = TRUE, !.late = FALSE]
    PROVE  k \in SessionRec /\ k.st = c.st /\ k.u = c.u /\ k.superseded = c.superseded /\ k.full
  BY DEF SessionRec

(* A hub's list is as it was, wherever its other fields change.            *)
LEMMA SameListSessions ==
    ASSUME SessionsInv, NEW h \in Nodes, NEW x, DOMAIN x.rv = DOMAIN hub[h].rv,
           hub' = [hub EXCEPT ![h] = x], sess' = sess
    PROVE  SessionsInv'
  BY DEF SessionsInv, SessTypeOK, SessionsTrue, ToldToWipe, OneSession

(* retire_revoked_bots: every connected bot on the list is told, or its    *)
(* lane was full, whatever the registry and the list became.               *)
LEMMA RetireSessions ==
    ASSUME SessionsInv, NEW h \in Nodes, NEW x, hub' = [hub EXCEPT ![h] = x], Retires(h, x)
    PROVE  SessionsInv'
  <1>0. PICK full \in SUBSET SessSlots : sess' = [sess EXCEPT ![h] = retire_revoked_bots(@, x, full)]
    BY DEF Retires
  <1>. DEFINE On(s) == sess[h][s].st = "bot" /\ sess[h][s].u \in DOMAIN x.rv
              Told(s) == On(s) /\ s \notin full
              Missed(s) == On(s) /\ s \in full
  <1>1. \A s \in SessSlots :
           sess'[h][s] = IF ~On(s) THEN sess[h][s]
                         ELSE IF s \in full THEN [sess[h][s] EXCEPT !.full = TRUE, !.late = FALSE]
                         ELSE [sess[h][s] EXCEPT !.st = "retiring"]
    BY <1>0 DEF SessionsInv, SessTypeOK, retire_revoked_bots
  <1>2. \A g \in Nodes \ {h} : sess'[g] = sess[g] /\ hub'[g] = hub[g]
    BY <1>0 DEF SessionsInv, SessTypeOK
  <1>3. hub'[h] = x
    BY DEF SessionsInv, SessTypeOK
  <1>4. \A s \in SessSlots :
           /\ sess'[h][s].u = sess[h][s].u /\ sess'[h][s].superseded = sess[h][s].superseded
           /\ sess'[h][s] \in SessionRec
           /\ sess'[h][s].st = IF Told(s) THEN "retiring" ELSE sess[h][s].st
           /\ Missed(s) => sess'[h][s].full
    <2>. TAKE s \in SessSlots
    <2>1. sess[h][s] \in SessionRec
      BY DEF SessionsInv, SessTypeOK
    <2>2. CASE Told(s)
      <3>1. sess'[h][s] = [sess[h][s] EXCEPT !.st = "retiring"]
        BY <1>1, <2>2
      <3>. QED BY <2>1, <2>2, <3>1, StateSet
    <2>3. CASE Missed(s)
      <3>1. sess'[h][s] = [sess[h][s] EXCEPT !.full = TRUE, !.late = FALSE]
        BY <1>1, <2>3
      <3>. QED BY <2>1, <2>3, <3>1, FullSet
    <2>4. CASE ~On(s)
      <3>1. sess'[h][s] = sess[h][s]
        BY <1>1, <2>4
      <3>. QED BY <2>1, <2>4, <3>1
    <2>. QED BY <2>2, <2>3, <2>4
  <1>5. SessTypeOK'
    BY <1>0, <1>4 DEF SessionsInv, SessTypeOK, retire_revoked_bots
  <1>6. ToldToWipe'
    BY <1>2, <1>3, <1>4 DEF SessionsInv, SessionsTrue, ToldToWipe
  <1>7. OneSession'
    BY <1>2, <1>4 DEF SessionsInv, SessionsTrue, OneSession
  <1>. QED BY <1>5, <1>6, <1>7 DEF SessionsInv, SessionsTrue

(* A session that is not one of a bot disturbs nothing.                    *)
LEMMA OtherSession ==
    ASSUME SessionsInv, NEW h \in Nodes, NEW s \in SessSlots, NEW c \in SessionRec,
           c.st \notin {"bot", "retiring"}, sess' = [sess EXCEPT ![h][s] = c],
           DOMAIN hub' = Nodes, \A g \in Nodes : DOMAIN hub'[g].rv = DOMAIN hub[g].rv
    PROVE  SessionsInv'
  <1>1. \A g \in Nodes, t \in SessSlots : sess'[g][t] = IF g = h /\ t = s THEN c ELSE sess[g][t]
    BY DEF SessionsInv, SessTypeOK
  <1>2. SessTypeOK'
    BY DEF SessionsInv, SessTypeOK
  <1>3. ToldToWipe' /\ OneSession'
    BY <1>1 DEF SessionsInv, SessionsTrue, ToldToWipe, OneSession
  <1>. QED BY <1>2, <1>3 DEF SessionsInv, SessionsTrue

(* create_bot makes a live record, and a live bot joins no list.           *)
LEMMA CreateSessions ==
    ASSUME SessionsInv, NEW h \in Nodes, NEW u \in Uuids, create_bot(h, u)
    PROVE  SessionsInv'
  <1>. DEFINE b == Entered(NewBot, "pub", day)
              e == [b EXCEPT !.live = @ /\ u \notin DOMAIN hub[h].rv]
              y == WithReg(hub[h], Plus(hub[h].reg, u, e))
  <1>1. u \notin DOMAIN hub[h].reg /\ u \notin DOMAIN hub[h].rv
    BY DEF create_bot
  <1>2. e.live
    BY <1>1 DEF NewBot, Entered
  <1>3. y.reg[u] = e /\ y.rv = hub[h].rv
    <2>1. Plus(hub[h].reg, u, e)[u] = e
      BY DEF Plus
    <2>. QED BY <2>1 DEF WithReg
  <1>4. from_bot(y, u) = y
    BY <1>2, <1>3 DEF from_bot
  <1>5. update_entry(hub[h], u, "pub", day) \in {hub[h], y}
    BY <1>1, <1>4 DEF update_entry
  <1>6. DOMAIN update_entry(hub[h], u, "pub", day).rv = DOMAIN hub[h].rv
    BY <1>3, <1>5
  <1>. QED BY <1>6, SameListSessions DEF create_bot

(* The hub list of a bot leaves the revoke list as it is.                  *)
LEMMA HubListSessions ==
    ASSUME SessionsInv, NEW h \in Nodes, NEW s \in SessSlots, push_hub_list(h, s)
    PROVE  SessionsInv'
  <1>. DEFINE u == sess[h][s].u
              ts == Larger2(day, hub[h].reg[u].hl + 1)
              y == update_entry(hub[h], u, "hl", ts)
  <1>1. y.rv = hub[h].rv
    BY DEF update_entry, WithReg
  <1>2. hub' = [hub EXCEPT ![h] = y] /\ sess' = sess
    BY DEF push_hub_list
  <1>. HIDE DEF y
  <1>. QED BY <1>1, <1>2, SameListSessions

(* A login: the bots before it on the hub are superseded, and it is late   *)
(* when the bot is on the list.                                            *)
LEMMA ProvesSessions ==
    ASSUME SessionsInv, NEW h \in Nodes, NEW s \in SessSlots, proves(h, s)
    PROVE  SessionsInv'
  <1>. DEFINE c == sess[h][s]
              revoked == c.u \in DOMAIN hub[h].rv
              keyed == IF c.q THEN revoked ELSE c.u \in DOMAIN hub[h].reg /\ hub[h].reg[c.u].pub > 0
  <1>0. c \in SessionRec /\ NoSess \in SessionRec
    BY DEF SessionsInv, SessTypeOK, SessionRec, NoSess
  <1>1. DOMAIN hub' = Nodes /\ \A g \in Nodes : DOMAIN hub'[g].rv = DOMAIN hub[g].rv
    BY DEF SessionsInv, SessTypeOK, proves, WithReg
  <1>2. CASE ~keyed
    <2>1. sess' = [sess EXCEPT ![h][s] = NoSess]
      BY <1>2 DEF proves
    <2>. QED BY <1>0, <1>1, <2>1, OtherSession DEF NoSess
  <1>3. CASE keyed /\ c.q
    <2>. DEFINE k == [c EXCEPT !.st = "quarantine"]
    <2>1. sess' = [sess EXCEPT ![h][s] = k]
      BY <1>3 DEF proves, SessionsInv, SessTypeOK
    <2>2. k \in SessionRec /\ k.st = "quarantine"
      BY <1>0 DEF SessionRec
    <2>. QED BY <1>1, <2>1, <2>2, OtherSession
  <1>4. CASE keyed /\ ~c.q
    <2>. DEFINE k == [c EXCEPT !.st = "bot", !.late = revoked]
                Past(t) == sess[h][t].st \in {"bot", "retiring"} /\ sess[h][t].u = c.u
    <2>1. sess' = [sess EXCEPT ![h] = [supersede(@, c.u) EXCEPT ![s] = k]]
      BY <1>4 DEF proves
    <2>2. k \in SessionRec /\ k.u = c.u /\ k.st = "bot" /\ k.late = revoked
      <3>1. revoked \in BOOLEAN
        OBVIOUS
      <3>2. k = [c EXCEPT !.st = "bot", !.late = revoked]
        OBVIOUS
      <3>. HIDE DEF revoked, k, c
      <3>. QED BY <1>0, <3>1, <3>2, LoginSet
    <2>3. \A t \in SessSlots \ {s} :
             sess'[h][t] = IF Past(t) THEN [sess[h][t] EXCEPT !.superseded = TRUE] ELSE sess[h][t]
      BY <2>1 DEF supersede, SessionsInv, SessTypeOK
    <2>4. sess'[h][s] = k
      BY <2>1 DEF supersede, SessionsInv, SessTypeOK
    <2>5. \A t \in SessSlots \ {s} :
             /\ sess'[h][t] \in SessionRec
             /\ sess'[h][t].st = sess[h][t].st /\ sess'[h][t].u = sess[h][t].u
             /\ sess'[h][t].late = sess[h][t].late /\ sess'[h][t].full = sess[h][t].full
             /\ Past(t) => sess'[h][t].superseded
             /\ ~Past(t) => sess'[h][t].superseded = sess[h][t].superseded
      <3>. TAKE t \in SessSlots \ {s}
      <3>1. sess[h][t] \in SessionRec
        BY DEF SessionsInv, SessTypeOK
      <3>2. CASE Past(t)
        <4>1. sess'[h][t] = [sess[h][t] EXCEPT !.superseded = TRUE]
          BY <2>3, <3>2
        <4>. QED BY <3>1, <3>2, <4>1, SupersededSet
      <3>. QED BY <2>3, <3>1, <3>2
    <2>6. \A g \in Nodes \ {h} : sess'[g] = sess[g]
      BY <2>1 DEF SessionsInv, SessTypeOK
    <2>7. SessTypeOK'
      <3>1. [supersede(sess[h], c.u) EXCEPT ![s] = k] \in [SessSlots -> SessionRec]
        BY <2>1, <2>2, <2>4, <2>5 DEF supersede, SessionsInv, SessTypeOK
      <3>. QED BY <1>1, <2>1, <3>1 DEF SessionsInv, SessTypeOK
    <2>8. ToldToWipe'
      <3>. SUFFICES ASSUME NEW g \in Nodes, NEW t \in SessSlots, sess'[g][t].st = "bot",
                           sess'[g][t].u \in DOMAIN hub'[g].rv
                    PROVE  sess'[g][t].late \/ sess'[g][t].full
        BY DEF ToldToWipe
      <3>1. CASE g = h /\ t = s
        BY <1>1, <2>2, <2>4, <3>1
      <3>2. CASE ~(g = h /\ t = s)
        <4>1. /\ sess'[g][t].st = sess[g][t].st /\ sess'[g][t].u = sess[g][t].u
              /\ sess'[g][t].late = sess[g][t].late /\ sess'[g][t].full = sess[g][t].full
          BY <2>5, <2>6, <3>2
        <4>2. sess[g][t].late \/ sess[g][t].full
          BY <1>1, <4>1 DEF SessionsInv, SessionsTrue, ToldToWipe
        <4>. QED BY <4>1, <4>2
      <3>. QED BY <3>1, <3>2
    <2>9. OneSession'
      <3>. SUFFICES ASSUME NEW g \in Nodes, NEW a \in SessSlots, NEW b \in SessSlots, a # b,
                           sess'[g][a].st \in {"bot", "retiring"}, sess'[g][b].st \in {"bot", "retiring"},
                           sess'[g][a].u = sess'[g][b].u
                    PROVE  sess'[g][a].superseded \/ sess'[g][b].superseded
        BY DEF OneSession
      <3>1. CASE g # h
        BY <2>6, <3>1 DEF SessionsInv, SessionsTrue, OneSession
      <3>2. CASE g = h /\ (a = s \/ b = s)
        <4>1. ASSUME NEW t \in SessSlots \ {s}, sess'[h][t].st \in {"bot", "retiring"}, sess'[h][t].u = c.u
              PROVE  sess'[h][t].superseded
          BY <2>5, <4>1
        <4>2. sess'[h][s].u = c.u
          BY <2>2, <2>4
        <4>3. CASE a = s
          BY <3>2, <4>1, <4>2, <4>3
        <4>4. CASE b = s
          BY <3>2, <4>1, <4>2, <4>4
        <4>. QED BY <3>2, <4>3, <4>4
      <3>3. CASE g = h /\ a # s /\ b # s
        <4>1. sess[g][a].superseded \/ sess[g][b].superseded
          BY <2>5, <3>3 DEF SessionsInv, SessionsTrue, OneSession
        <4>2. ASSUME NEW t \in {a, b}, sess[g][t].superseded PROVE sess'[g][t].superseded
          BY <2>5, <3>3, <4>2
        <4>. QED BY <4>1, <4>2
      <3>. QED BY <3>1, <3>2, <3>3
    <2>. QED BY <2>7, <2>8, <2>9 DEF SessionsInv, SessionsTrue
  <1>. QED BY <1>2, <1>3, <1>4

(* Every step of the registry keeps the sessions true.                     *)
LEMMA SessionsStep == SessionsInv /\ [RvkNext]_rvkVars => SessionsInv'
  <1>. SUFFICES ASSUME SessionsInv, [RvkNext]_rvkVars PROVE SessionsInv'
    OBVIOUS
  <1>0. NoSess \in SessionRec /\ NoSess.st = "none"
    BY DEF SessionRec, NoSess
  <1>1. ASSUME NEW h \in Nodes, NEW u \in Uuids, create_bot(h, u) PROVE SessionsInv'
    BY <1>1, CreateSessions
  <1>2. ASSUME NEW h \in Nodes, NEW u \in Uuids, bot_del(h, u) PROVE SessionsInv'
    <2>. DEFINE x == update_entry(hub[h], u, "d", Larger2(day, hub[h].reg[u].d + 1))
    <2>1. hub' = [hub EXCEPT ![h] = x] /\ Retires(h, x)
      BY <1>2 DEF bot_del
    <2>. HIDE DEF x
    <2>. QED BY <2>1, RetireSessions
  <1>3. ASSUME NEW h \in Nodes, NEW u \in Uuids, NEW s \in SessSlots, hello(h, s, u) PROVE SessionsInv'
    <2>. DEFINE k == [NoSess EXCEPT !.st = "challenge", !.u = u, !.q = u \in DOMAIN hub[h].rv]
    <2>1. k \in SessionRec /\ k.st = "challenge"
      <3>1. (u \in DOMAIN hub[h].rv) \in BOOLEAN
        OBVIOUS
      <3>2. \A b \in BOOLEAN : [NoSess EXCEPT !.st = "challenge", !.u = u, !.q = b] \in SessionRec
        BY DEF SessionRec, NoSess
      <3>. QED BY <3>1, <3>2 DEF NoSess
    <2>2. sess' = [sess EXCEPT ![h][s] = k] /\ hub' = hub
      BY <1>3 DEF hello
    <2>. QED BY <2>1, <2>2, OtherSession DEF SessionsInv, SessTypeOK
  <1>4. ASSUME NEW h \in Nodes, process_sync(h) PROVE SessionsInv'
    <2>. DEFINE x == Applied(hub[h], Head(net[h]))
    <2>1. CASE <<x.reg, x.rv>> = <<hub[h].reg, hub[h].rv>>
      BY <1>4, <2>1, SameListSessions DEF process_sync
    <2>2. CASE <<x.reg, x.rv>> # <<hub[h].reg, hub[h].rv>>
      <3>1. hub' = [hub EXCEPT ![h] = x] /\ Retires(h, x)
        BY <1>4, <2>2 DEF process_sync
      <3>. HIDE DEF x
      <3>. QED BY <3>1, RetireSessions
    <2>. QED BY <2>1, <2>2
  <1>5. ASSUME NEW h \in Nodes, purge_now(h) PROVE SessionsInv'
    BY <1>5, SameListSessions DEF purge_now, purge_bots
  <1>6. ASSUME NEW h \in Nodes, HubRestarts(h) PROVE SessionsInv'
    <2>1. SessTypeOK'
      BY <1>0, <1>6 DEF HubRestarts, SessionsInv, SessTypeOK
    <2>2. ToldToWipe' /\ OneSession'
      BY <1>0, <1>6 DEF HubRestarts, SessionsInv, SessTypeOK, SessionsTrue, ToldToWipe, OneSession
    <2>. QED BY <2>1, <2>2 DEF SessionsInv, SessionsTrue
  <1>7. ASSUME NEW h \in Nodes, NEW s \in SessSlots, proves(h, s) PROVE SessionsInv'
    BY <1>7, ProvesSessions
  <1>8. ASSUME NEW h \in Nodes, NEW s \in SessSlots, retire_ack(h, s) PROVE SessionsInv'
    <2>1. sess' = [sess EXCEPT ![h][s] = NoSess]
      BY <1>8 DEF retire_ack
    <2>2. DOMAIN hub' = Nodes /\ \A g \in Nodes : DOMAIN hub'[g].rv = DOMAIN hub[g].rv
      BY <1>8 DEF retire_ack, WithRv, SessionsInv, SessTypeOK
    <2>. QED BY <1>0, <2>1, <2>2, OtherSession
  <1>9. ASSUME NEW h \in Nodes, NEW s \in SessSlots, SessionEnds(h, s) PROVE SessionsInv'
    BY <1>0, <1>9, OtherSession DEF SessionEnds, SessionsInv, SessTypeOK
  <1>11. ASSUME NEW h \in Nodes, NEW s \in SessSlots, push_hub_list(h, s) PROVE SessionsInv'
    BY <1>11, HubListSessions
  <1>10. CASE UNCHANGED <<hub, sess>>
    BY <1>10 DEF SessionsInv, SessTypeOK, SessionsTrue, ToldToWipe, OneSession
  <1>. QED
    BY <1>1, <1>2, <1>3, <1>4, <1>5, <1>6, <1>7, <1>8, <1>9, <1>10, <1>11
       DEF RvkNext, LinkLost, LinkBack, DayPasses, rvkVars

(* For any number of bots, connections, moves and mishaps, a connected bot *)
(* on the revoke list has been told to wipe itself unless, since the hub   *)
(* last told its bots, it proved its key after the delete was known, or    *)
(* its urgent lane was full then; and a bot has one session in use         *)
(* (retire_revoked_bots, supersede_bot_sessions).                          *)
THEOREM SessionsTrueAlways == RvkSpec => []SessionsTrue
  <1>1. RvkInit => SessionsInv
    BY DEF RvkInit, SessionsInv, SessTypeOK, SessionRec, NoSess, SessionsTrue, ToldToWipe, OneSession
  <1>2. SessionsInv => SessionsTrue
    BY DEF SessionsInv
  <1>. QED BY <1>1, <1>2, SessionsStep, PTL DEF RvkSpec

(* Induction along a sequence, with a set for what holds.                  *)
LEMMA Induct ==
    ASSUME NEW n \in Nat, NEW G, 0 \in G, \A k \in 0 .. n - 1 : k \in G => k + 1 \in G
    PROVE  n \in G
  <1>. DEFINE S == {k \in 0 .. n : k \notin G}
              T == [k \in S |-> k]
  <1>1. SUFFICES ASSUME S # {} PROVE FALSE
    OBVIOUS
  <1>5. \A k \in S : T[k] \in Nat
    OBVIOUS
  <1>. HIDE DEF S, T
  <1>2. PICK m \in S : \A k \in S : T[m] <= T[k]
    BY <1>1, <1>5, LeastOf
  <1>. USE DEF S, T
  <1>3. m \in 1 .. n /\ m - 1 \in 0 .. n - 1
    OBVIOUS
  <1>4. m - 1 \notin S
    BY <1>2, <1>3
  <1>. QED BY <1>3, <1>4

(* The lines of a frame, one after the other: the hub after each of them.  *)
LEMMA AppliedRun ==
    ASSUME NEW S, NEW lines \in Seq(S), NEW x
    PROVE  \E f : /\ f[0] = x /\ Applied(x, lines) = f[Len(lines)]
                  /\ \A n \in 0 .. Len(lines) - 1 : f[n + 1] = apply(f[n], lines[n + 1])
  <1>. DEFINE Run(f, m) == f = [n \in 0 .. m |-> IF n = 0 THEN x ELSE apply(f[n - 1], lines[n])]
              G == {m \in 0 .. Len(lines) : \E f : Run(f, m)}
  <1>1. Len(lines) \in Nat
    OBVIOUS
  <1>2. 0 \in G
    <2>. DEFINE e == [n \in 0 .. 0 |-> x]
    <2>1. Run(e, 0)
      OBVIOUS
    <2>. HIDE DEF e
    <2>2. \E f : Run(f, 0)
      BY <2>1
    <2>. QED BY <1>1, <2>2
  <1>3. ASSUME NEW k \in 0 .. Len(lines) - 1, k \in G PROVE k + 1 \in G
    <2>1. PICK f : Run(f, k)
      BY <1>3
    <2>. DEFINE g == [n \in 0 .. k + 1 |-> IF n <= k THEN f[n] ELSE apply(f[k], lines[k + 1])]
    <2>2. ASSUME NEW n \in 0 .. k + 1
          PROVE  g[n] = IF n = 0 THEN x ELSE apply(g[n - 1], lines[n])
      <3>1. CASE n = 0
        BY <3>1, <2>1
      <3>2. CASE n \in 1 .. k
        <4>1. g[n] = f[n] /\ g[n - 1] = f[n - 1]
          BY <3>2
        <4>2. f[n] = apply(f[n - 1], lines[n])
          BY <2>1, <3>2
        <4>. QED BY <4>1, <4>2, <3>2
      <3>3. CASE n = k + 1
        <4>1. g[n] = apply(f[k], lines[k + 1]) /\ g[n - 1] = f[k]
          BY <3>3
        <4>. QED BY <4>1, <3>3
      <3>. QED BY <3>1, <3>2, <3>3
    <2>3. Run(g, k + 1)
      BY <2>2
    <2>. HIDE DEF g
    <2>4. \E e : Run(e, k + 1)
      BY <2>3
    <2>. QED BY <2>4, <1>1
  <1>. HIDE DEF G
  <1>4. Len(lines) \in G
    BY <1>1, <1>2, <1>3, Induct
  <1>. USE DEF G
  <1>. DEFINE f == CHOOSE e : Run(e, Len(lines))
  <1>5. Run(f, Len(lines))
    BY <1>4
  <1>6. Applied(x, lines) = f[Len(lines)]
    BY DEF Applied
  <1>. HIDE DEF f
  <1>7. f[0] = x /\ \A n \in 0 .. Len(lines) - 1 : f[n + 1] = apply(f[n], lines[n + 1])
    BY <1>1, <1>5
  <1>. QED BY <1>6, <1>7

-----------------------------------------------------------------------------
(* A revoked bot never comes back.  What the lists and the lines of sync   *)
(* frames are, and the order of the lines: once the bots are sent,         *)
(* nothing of the revoke list follows.                                     *)
RvRec == [pub : Nat, wiped : Nat, del : Nat]
EntryKeys == {"d", "pub", "hl"}
BotRec == [live : BOOLEAN, d : Nat, pub : Nat, hl : Nat, keys : Seq(EntryKeys)]
Lists(R) == UNION {[D -> R] : D \in SUBSET Uuids}
HubRec == [reg : Lists(BotRec), rv : Lists(RvRec), floor : Nat, hold : Nat]
SyncLine ==
    [k : {"rv"}, u : Uuids, r : RvRec] \cup [k : {"d", "hl"}, u : Uuids, r : Nat]
    \cup [k : {"bot"}, u : Uuids, r : BotRec] \cup [k : {"purge"}, u : {0}, r : {0}]
ListFirst(q) == \A i, j \in DOMAIN q : i < j /\ q[i].k = "bot" => q[j].k # "rv"
SyncFrame == {q \in Seq(SyncLine) : ListFirst(q)}

ListsTyped == hub \in [Nodes -> HubRec] /\ net \in [Nodes -> Seq(SyncFrame)] /\ day \in Nat

(* A bot that could log in: live, and with its key.                        *)
LiveIn(x, u) == u \in DOMAIN x.reg /\ x.reg[u].live /\ x.reg[u].pub > 0
OffList(x, u) == LiveIn(x, u) => u \notin DOMAIN x.rv

(* A list is a function on some of the bots.                               *)
LEMMA ListOf ==
    ASSUME NEW R, NEW f
    PROVE  f \in Lists(R) <=> /\ f = [u \in DOMAIN f |-> f[u]] /\ DOMAIN f \subseteq Uuids
                              /\ \A u \in DOMAIN f : f[u] \in R
  BY DEF Lists

(* A list with an entry put in.                                            *)
LEMMA ListPlus ==
    ASSUME NEW R, NEW f, f \in Lists(R), NEW u, u \in Uuids, NEW r, r \in R, NEW g, g = Plus(f, u, r)
    PROVE  g \in Lists(R)
  <1>1. \A v \in DOMAIN f : f[v] \in R /\ v \in Uuids
    BY ListOf
  <1>. QED BY <1>1 DEF Plus, Lists

(* A list with an entry taken out.                                         *)
LEMMA ListMinus ==
    ASSUME NEW R, NEW f \in Lists(R), NEW u
    PROVE  Minus(f, u) \in Lists(R) /\ DOMAIN Minus(f, u) \subseteq DOMAIN f
  <1>1. \A v \in DOMAIN f : f[v] \in R /\ v \in Uuids
    BY ListOf
  <1>. DEFINE g == Minus(f, u)
  <1>2. DOMAIN g = DOMAIN f \ {u} /\ g = [v \in DOMAIN f \ {u} |-> f[v]]
    BY DEF Minus
  <1>3. g \in [DOMAIN f \ {u} -> R] /\ DOMAIN f \ {u} \in SUBSET Uuids
    BY <1>1, <1>2
  <1>. HIDE DEF g
  <1>4. g \in Lists(R)
    BY <1>3 DEF Lists
  <1>. QED BY <1>2, <1>4 DEF g

(* What a hub holds.                                                       *)
LEMMA HubFields ==
    ASSUME NEW x \in HubRec
    PROVE  /\ x.reg \in Lists(BotRec) /\ x.rv \in Lists(RvRec) /\ x.floor \in Nat /\ x.hold \in Nat
           /\ DOMAIN x.reg \subseteq Uuids /\ DOMAIN x.rv \subseteq Uuids
           /\ \A u \in DOMAIN x.reg : x.reg[u] \in BotRec
           /\ \A u \in DOMAIN x.rv : x.rv[u] \in RvRec
  <1>1. x.reg \in Lists(BotRec) /\ x.rv \in Lists(RvRec) /\ x.floor \in Nat /\ x.hold \in Nat
    BY DEF HubRec
  <1>. QED BY <1>1, ListOf

(* A hub with another revoke list.                                         *)
LEMMA HubWithRv ==
    ASSUME NEW x \in HubRec, NEW list \in Lists(RvRec), NEW y, y = [x EXCEPT !.rv = list]
    PROVE  y \in HubRec /\ y.reg = x.reg /\ y.rv = list
  BY DEF HubRec

(* merge changes the list only, and adds one bot at most.                  *)
LEMMA MergeLists ==
    ASSUME NEW x \in HubRec, NEW u \in Uuids, NEW r \in RvRec
    PROVE  /\ merge(x, u, r) \in HubRec /\ merge(x, u, r).reg = x.reg
           /\ DOMAIN merge(x, u, r).rv \subseteq DOMAIN x.rv \cup {u}
  <1>1. CASE u \in DOMAIN x.rv
    <2>. DEFINE list == [x.rv EXCEPT ![u] = Merged(@, r)]
    <2>1. Merged(x.rv[u], r) \in RvRec
      BY <1>1, HubFields DEF RvRec, Merged, Larger2, Smaller2
    <2>2. list \in Lists(RvRec) /\ DOMAIN list = DOMAIN x.rv
      BY <1>1, <2>1, HubFields, ListOf
    <2>3. merge(x, u, r) = [x EXCEPT !.rv = list]
      BY <1>1 DEF merge, HubRec
    <2>. HIDE DEF list
    <2>. QED BY <2>2, <2>3, HubWithRv
  <1>2. CASE u \notin DOMAIN x.rv
    <2>. DEFINE grown == Plus(x.rv, u, r)
                swapped == Plus(Minus(x.rv, Oldest(x.rv)), u, r)
    <2>4. x.rv \in Lists(RvRec)
      BY HubFields
    <2>6. grown = Plus(x.rv, u, r) /\ swapped = Plus(Minus(x.rv, Oldest(x.rv)), u, r)
      OBVIOUS
    <2>3. \/ merge(x, u, r) = x
          \/ merge(x, u, r) = [x EXCEPT !.rv = grown]
          \/ merge(x, u, r) = [x EXCEPT !.rv = swapped]
      BY <1>2 DEF merge
    <2>. HIDE DEF grown, swapped
    <2>1. grown \in Lists(RvRec) /\ DOMAIN grown = DOMAIN x.rv \cup {u}
      <3>1. grown \in Lists(RvRec)
        BY <2>4, <2>6, ListPlus
      <3>2. DOMAIN grown = DOMAIN x.rv \cup {u}
        BY <2>6 DEF Plus
      <3>. QED BY <3>1, <3>2
    <2>5. Minus(x.rv, Oldest(x.rv)) \in Lists(RvRec) /\ DOMAIN Minus(x.rv, Oldest(x.rv)) \subseteq DOMAIN x.rv
      BY <2>4, ListMinus
    <2>2. swapped \in Lists(RvRec) /\ DOMAIN swapped \subseteq DOMAIN x.rv \cup {u}
      <3>1. swapped \in Lists(RvRec) /\ DOMAIN swapped = DOMAIN Minus(x.rv, Oldest(x.rv)) \cup {u}
        <4>1. swapped \in Lists(RvRec)
          BY <2>5, <2>6, ListPlus
        <4>2. DOMAIN swapped = DOMAIN Minus(x.rv, Oldest(x.rv)) \cup {u}
          BY <2>6 DEF Plus
        <4>. QED BY <4>1, <4>2
      <3>. QED BY <2>5, <3>1
    <2>. QED BY <2>1, <2>2, <2>3, HubWithRv
  <1>. QED BY <1>1, <1>2

(* from_bot puts a deleted bot on the list, and nothing else.              *)
LEMMA FromBotLists ==
    ASSUME NEW x \in HubRec, NEW u \in DOMAIN x.reg
    PROVE  /\ from_bot(x, u) \in HubRec /\ from_bot(x, u).reg = x.reg
           /\ DOMAIN from_bot(x, u).rv \subseteq DOMAIN x.rv \cup {u}
           /\ x.reg[u].live => from_bot(x, u) = x
  <1>. DEFINE r == [pub |-> x.reg[u].pub, wiped |-> 0, del |-> x.reg[u].d]
  <1>1. u \in Uuids /\ r \in RvRec
    BY HubFields DEF BotRec, RvRec
  <1>2. from_bot(x, u) = x \/ (~x.reg[u].live /\ from_bot(x, u) = merge(x, u, r))
    BY DEF from_bot
  <1>. HIDE DEF r
  <1>. QED BY <1>1, <1>2, MergeLists

(* A record with an entry, and live only if it may be.                     *)
EntryOf(b, key, ts, u, S) ==
    [Entered(b, key, ts) EXCEPT !.live = @ /\ ~(key = "d" \/ (key = "pub" /\ u \in S))]

(* Its fields.                                                             *)
LEMMA EnteredRec ==
    ASSUME NEW b \in BotRec, NEW key \in EntryKeys, NEW ts \in Nat, NEW S, NEW u,
           NEW e, e = EntryOf(b, key, ts, u, S)
    PROVE  /\ e \in BotRec
           /\ e.live => b.live /\ key # "d" /\ (key = "pub" => u \notin S)
           /\ e.pub = IF key = "pub" THEN ts ELSE b.pub
  <1>1. Append(b.keys, key) \in Seq(EntryKeys) /\ b.keys \in Seq(EntryKeys)
    BY DEF BotRec
  <1>2. PICK ks \in Seq(EntryKeys) : Entered(b, key, ts) = [b EXCEPT ![key] = ts, !.keys = ks]
    BY <1>1 DEF Entered, BotRec
  <1>. HIDE DEF EntryKeys
  <1>3. CASE key = "d"
    BY <1>2, <1>3 DEF BotRec, EntryOf
  <1>4. CASE key = "pub"
    BY <1>2, <1>4 DEF BotRec, EntryOf
  <1>5. CASE key = "hl"
    BY <1>2, <1>5 DEF BotRec, EntryOf
  <1>. QED BY <1>3, <1>4, <1>5 DEF EntryKeys

(* update_entry, for one entry of a bot: nobody on the list could log in   *)
(* after it who could not before, and only a key lets anybody.             *)
LEMMA UpdateLists ==
    ASSUME NEW x \in HubRec, NEW u \in Uuids, NEW key \in EntryKeys, NEW ts \in Nat,
           NEW y, y = update_entry(x, u, key, ts)
    PROVE  /\ y \in HubRec
           /\ \A v : OffList(x, v) => OffList(y, v)
           /\ key # "pub" => \A v : ~LiveIn(x, v) => ~LiveIn(y, v)
  <1>. DEFINE b == IF u \in DOMAIN x.reg THEN x.reg[u] ELSE NewBot
              e == EntryOf(b, key, ts, u, DOMAIN x.rv)
              reg == Plus(x.reg, u, e)
              z == WithReg(x, reg)
  <1>1. b \in BotRec
    BY HubFields DEF BotRec, NewBot
  <1>11. e = EntryOf(b, key, ts, u, DOMAIN x.rv)
    OBVIOUS
  <1>3. y = x \/ (key = "hl" /\ y = z) \/ (key # "hl" /\ y = from_bot(z, u))
    BY DEF update_entry, EntryOf
  <1>4. x.reg \in Lists(BotRec)
    BY HubFields
  <1>10. reg = Plus(x.reg, u, e)
    OBVIOUS
  <1>13. b.live /\ b.pub > 0 <=> LiveIn(x, u)
    BY DEF LiveIn, NewBot
  <1>. HIDE DEF b, e, reg
  <1>2. /\ e \in BotRec
        /\ e.live => b.live /\ key # "d" /\ (key = "pub" => u \notin DOMAIN x.rv)
        /\ e.pub = IF key = "pub" THEN ts ELSE b.pub
    BY <1>1, <1>11, EnteredRec
  <1>5. /\ reg \in Lists(BotRec) /\ DOMAIN reg = DOMAIN x.reg \cup {u}
        /\ reg[u] = e /\ \A v \in DOMAIN reg \ {u} : reg[v] = x.reg[v]
    <2>1. reg \in Lists(BotRec)
      BY <1>2, <1>4, <1>10, ListPlus
    <2>2. /\ DOMAIN reg = DOMAIN x.reg \cup {u}
          /\ reg[u] = e /\ \A v \in DOMAIN reg \ {u} : reg[v] = x.reg[v]
      BY <1>10 DEF Plus
    <2>. QED BY <2>1, <2>2
  <1>6. z \in HubRec /\ z.reg = reg /\ z.rv = x.rv
    BY <1>5 DEF WithReg, HubRec
  <1>. HIDE DEF z
  <1>7. /\ from_bot(z, u) \in HubRec /\ from_bot(z, u).reg = reg
        /\ DOMAIN from_bot(z, u).rv \subseteq DOMAIN x.rv \cup {u}
        /\ e.live => from_bot(z, u) = z
    <2>1. u \in DOMAIN z.reg /\ z.reg[u] = e
      BY <1>5, <1>6
    <2>. QED BY <1>6, <2>1, FromBotLists
  <1>8. CASE y = x
    BY <1>8
  <1>9. CASE y = z \/ y = from_bot(z, u)
    <2>1. y \in HubRec /\ y.reg = reg /\ DOMAIN y.rv \subseteq DOMAIN x.rv \cup {u}
      BY <1>6, <1>7, <1>9
    <2>2. LiveIn(y, u) => (key = "pub" => u \notin DOMAIN x.rv) /\ y.rv = x.rv /\ b.live /\ (key # "pub" => b.pub > 0)
      <3>1. LiveIn(y, u) => e.live /\ e.pub > 0
        BY <2>1, <1>5 DEF LiveIn
      <3>. QED BY <3>1, <1>2, <1>6, <1>7, <1>9
    <2>3. ASSUME NEW v, v # u PROVE (LiveIn(y, v) <=> LiveIn(x, v)) /\ (v \in DOMAIN y.rv => v \in DOMAIN x.rv)
      BY <2>1, <2>3, <1>5 DEF LiveIn
    <2>6. key # "pub" /\ LiveIn(y, u) => LiveIn(x, u)
      BY <2>2, <1>13
    <2>4. ASSUME NEW v, OffList(x, v) PROVE OffList(y, v)
      <3>1. CASE v = u /\ key = "pub"
        BY <2>2, <3>1 DEF OffList
      <3>3. CASE v = u /\ key # "pub"
        BY <2>2, <2>4, <2>6, <3>3 DEF OffList
      <3>2. CASE v # u
        BY <2>3, <2>4, <3>2 DEF OffList
      <3>. QED BY <3>1, <3>2, <3>3
    <2>5. ASSUME key # "pub", NEW v, ~LiveIn(x, v) PROVE ~LiveIn(y, v)
      BY <2>3, <2>5, <2>6
    <2>. QED BY <2>1, <2>4, <2>5
  <1>. QED BY <1>3, <1>8, <1>9

(* One entry of a bot's line.                                              *)
LEMMA EntryLists ==
    ASSUME NEW x \in HubRec, NEW u \in Uuids, NEW r \in BotRec, NEW n \in Nat \ {0},
           NEW y, y = sync_bot_entry(x, u, r, n)
    PROVE  y \in HubRec /\ \A v : OffList(x, v) => OffList(y, v)
  <1>1. CASE n <= Len(r.keys)
    <2>1. r.keys[n] \in EntryKeys
      BY <1>1 DEF BotRec
    <2>2. r[r.keys[n]] \in Nat
      BY <2>1 DEF BotRec, EntryKeys
    <2>3. y = update_entry(x, u, r.keys[n], r[r.keys[n]])
      BY <1>1 DEF sync_bot_entry
    <2>. QED BY <2>1, <2>2, <2>3, UpdateLists
  <1>2. CASE ~(n <= Len(r.keys))
    BY <1>2 DEF sync_bot_entry
  <1>. QED BY <1>1, <1>2

(* execute_purge takes bots away, and the list stays.                      *)
LEMMA PurgeLists ==
    ASSUME ListsTyped, NEW x \in HubRec, NEW y, y = purge_bots(x)
    PROVE  y \in HubRec /\ y.rv = x.rv /\ \A v : LiveIn(y, v) => LiveIn(x, v)
  <1>. DEFINE D == {v \in DOMAIN x.reg : x.reg[v].d = 0}
              reg == [u \in D |-> x.reg[u]]
  <1>1. reg \in [D -> BotRec] /\ D \in SUBSET Uuids
    BY HubFields
  <1>2. reg \in Lists(BotRec)
    BY <1>1 DEF Lists
  <1>3. \A v \in D : reg[v] = x.reg[v] /\ v \in DOMAIN x.reg
    OBVIOUS
  <1>4. DOMAIN reg = D
    OBVIOUS
  <1>5. y = [reg |-> reg, rv |-> x.rv, floor |-> IF x.floor < day \/ x.hold <= day THEN day ELSE x.floor,
             hold |-> day + FloorHold]
    BY DEF purge_bots
  <1>. HIDE DEF reg, D
  <1>6. y \in HubRec /\ y.rv = x.rv /\ y.reg = reg
    BY <1>2, <1>5, HubFields, RevokeAssumption DEF HubRec, ListsTyped
  <1>. QED BY <1>3, <1>4, <1>6 DEF LiveIn

(* A line of a frame.                                                      *)
LEMMA LineLists ==
    ASSUME ListsTyped, NEW x \in HubRec, NEW l \in SyncLine, NEW y, y = apply(x, l)
    PROVE  /\ y \in HubRec
           /\ l.k # "bot" => \A v : ~LiveIn(x, v) => ~LiveIn(y, v)
           /\ l.k # "rv" => \A v : OffList(x, v) => OffList(y, v)
  <1>1. CASE l.k = "rv"
    <2>1. l.u \in Uuids /\ l.r \in RvRec /\ y = merge(x, l.u, l.r)
      BY <1>1 DEF SyncLine, apply
    <2>2. y \in HubRec /\ y.reg = x.reg
      BY <2>1, MergeLists
    <2>. QED BY <1>1, <2>2 DEF LiveIn
  <1>2. CASE l.k = "purge"
    <2>1. y = purge_bots(x)
      BY <1>2 DEF apply
    <2>2. y \in HubRec /\ y.rv = x.rv /\ \A v : LiveIn(y, v) => LiveIn(x, v)
      BY <2>1, PurgeLists
    <2>. QED BY <2>2 DEF OffList
  <1>3. CASE l.k \in {"d", "hl"}
    <2>1. l.u \in Uuids /\ l.r \in Nat /\ y = update_entry(x, l.u, l.k, l.r)
      BY <1>3 DEF SyncLine, apply
    <2>2. /\ y \in HubRec /\ \A v : OffList(x, v) => OffList(y, v)
          /\ l.k # "pub" => \A v : ~LiveIn(x, v) => ~LiveIn(y, v)
      BY <1>3, <2>1, UpdateLists DEF EntryKeys
    <2>. QED BY <1>3, <2>2
  <1>5. CASE l.k = "bot"
    <2>. DEFINE a == sync_bot_entry(x, l.u, l.r, 1)
                b == sync_bot_entry(a, l.u, l.r, 2)
    <2>1. l.u \in Uuids /\ l.r \in BotRec /\ y = sync_bot_entry(b, l.u, l.r, 3)
      BY <1>5 DEF SyncLine, apply
    <2>2. a \in HubRec /\ \A v : OffList(x, v) => OffList(a, v)
      BY <2>1, EntryLists
    <2>. HIDE DEF a
    <2>3. b \in HubRec /\ \A v : OffList(a, v) => OffList(b, v)
      BY <2>1, <2>2, EntryLists
    <2>. HIDE DEF b
    <2>4. y \in HubRec /\ \A v : OffList(b, v) => OffList(y, v)
      BY <2>1, <2>3, EntryLists
    <2>. QED BY <1>5, <2>2, <2>3, <2>4
  <1>4. l.k \in {"rv", "purge", "d", "hl", "bot"}
    BY DEF SyncLine
  <1>. QED BY <1>1, <1>2, <1>3, <1>4, <1>5

(* A frame: of the bots that could not log in, none can and is on the list.*)
LEMMA FrameLists ==
    ASSUME ListsTyped, NEW x \in HubRec, NEW q \in SyncFrame
    PROVE  Applied(x, q) \in HubRec /\ \A v : ~LiveIn(x, v) => OffList(Applied(x, q), v)
  <1>1. q \in Seq(SyncLine) /\ ListFirst(q) /\ Len(q) \in Nat
    BY DEF SyncFrame
  <1>2. PICK f : /\ f[0] = x /\ Applied(x, q) = f[Len(q)]
                 /\ \A n \in 0 .. Len(q) - 1 : f[n + 1] = apply(f[n], q[n + 1])
    BY <1>1, AppliedRun
  <1>. DEFINE Keyless(n) == \A i \in 1 .. n : q[i].k # "bot"
              Kept(n) == \A v : ~LiveIn(x, v) => OffList(f[n], v) /\ (Keyless(n) => ~LiveIn(f[n], v))
              G == {n \in 0 .. Len(q) : f[n] \in HubRec /\ Kept(n)}
  <1>3. 0 \in G
    BY <1>1, <1>2 DEF OffList
  <1>4. ASSUME NEW n \in 0 .. Len(q) - 1, n \in G PROVE n + 1 \in G
    <2>1. n + 1 \in 0 .. Len(q) /\ n + 1 \in DOMAIN q /\ q[n + 1] \in SyncLine
      BY <1>1
    <2>2. f[n] \in HubRec /\ Kept(n) /\ f[n + 1] = apply(f[n], q[n + 1])
      BY <1>2, <1>4
    <2>3. /\ f[n + 1] \in HubRec
          /\ q[n + 1].k # "bot" => \A v : ~LiveIn(f[n], v) => ~LiveIn(f[n + 1], v)
          /\ q[n + 1].k # "rv" => \A v : OffList(f[n], v) => OffList(f[n + 1], v)
      BY <2>1, <2>2, LineLists
    <2>4. ASSUME NEW v, ~LiveIn(x, v) PROVE OffList(f[n + 1], v) /\ (Keyless(n + 1) => ~LiveIn(f[n + 1], v))
      <3>1. Keyless(n + 1) => Keyless(n) /\ q[n + 1].k # "bot"
        BY <2>1
      <3>2. q[n + 1].k = "rv" => Keyless(n)
        BY <1>1, <2>1 DEF ListFirst
      <3>3. OffList(f[n], v) /\ (Keyless(n) => ~LiveIn(f[n], v))
        BY <2>2, <2>4
      <3>. HIDE DEF Keyless
      <3>4. CASE q[n + 1].k = "rv"
        <4>1. ~LiveIn(f[n + 1], v)
          BY <2>3, <3>2, <3>3, <3>4
        <4>. QED BY <4>1 DEF OffList
      <3>5. CASE q[n + 1].k # "rv"
        BY <2>3, <3>1, <3>3, <3>5
      <3>. QED BY <3>4, <3>5
    <2>. QED BY <2>1, <2>3, <2>4
  <1>. HIDE DEF G
  <1>5. Len(q) \in G
    BY <1>1, <1>3, <1>4, Induct
  <1>. QED BY <1>2, <1>5 DEF G

-----------------------------------------------------------------------------
(* The elements of a finite set, in some order.                            *)
LEMMA SetListed ==
    ASSUME NEW S, IsFiniteSet(S)
    PROVE  SetToSeq(S) \in Seq(S) /\ DOMAIN SetToSeq(S) = 1 .. Cardinality(S) /\ Cardinality(S) \in Nat
  <1>1. Cardinality(S) \in Nat /\ ExistsBijection(1 .. Cardinality(S), S)
    BY FS_CardinalityType
  <1>. DEFINE F == {f \in [1 .. Cardinality(S) -> S] : IsInjective(f)}
  <1>2. \E f \in [1 .. Cardinality(S) -> S] : IsInjective(f)
    BY <1>1 DEF ExistsBijection, Bijection, Injection
  <1>3. SetToSeq(S) \in [1 .. Cardinality(S) -> S]
    BY <1>2 DEF SetToSeq
  <1>. QED BY <1>1, <1>3

(* A line about a bot.                                                     *)
LEMMA BotLine ==
    ASSUME NEW k \in {"d", "hl"}, NEW u \in Uuids, NEW r \in Nat
    PROVE  Line(k, u, r) \in SyncLine /\ Line(k, u, r).k = k
  BY DEF Line, SyncLine

(* A line of the revoke list.                                              *)
LEMMA RvLine ==
    ASSUME NEW u \in Uuids, NEW r \in RvRec
    PROVE  Line("rv", u, r) \in SyncLine /\ Line("rv", u, r).k = "rv"
  BY DEF Line, SyncLine

(* The lines of the bots.                                                  *)
LEMMA BotFrame ==
    ASSUME NEW x \in HubRec
    PROVE  BotLines(x) \in Seq(SyncLine) /\ \A i \in DOMAIN BotLines(x) : BotLines(x)[i].k = "bot"
  <1>. DEFINE bots == SetToSeq(DOMAIN x.reg)
              B == [i \in DOMAIN bots |-> Line("bot", bots[i], x.reg[bots[i]])]
  <1>1. IsFiniteSet(DOMAIN x.reg)
    BY HubFields, FS_Subset, RevokeAssumption
  <1>2. /\ bots \in Seq(DOMAIN x.reg) /\ DOMAIN bots = 1 .. Cardinality(DOMAIN x.reg)
        /\ Cardinality(DOMAIN x.reg) \in Nat
    BY <1>1, SetListed
  <1>3. BotLines(x) = B /\ DOMAIN B = 1 .. Cardinality(DOMAIN x.reg)
    BY <1>2 DEF BotLines
  <1>4. ASSUME NEW i \in DOMAIN bots PROVE B[i] \in SyncLine /\ B[i].k = "bot"
    <2>1. bots[i] \in DOMAIN x.reg
      BY <1>2
    <2>2. bots[i] \in Uuids /\ x.reg[bots[i]] \in BotRec
      BY <2>1, HubFields
    <2>3. B[i] = Line("bot", bots[i], x.reg[bots[i]])
      OBVIOUS
    <2>. QED BY <2>2, <2>3 DEF Line, SyncLine
  <1>5. B \in [1 .. Cardinality(DOMAIN x.reg) -> SyncLine]
    BY <1>2, <1>4
  <1>. HIDE DEF B, bots
  <1>6. \A n \in Nat : \A q \in [1 .. n -> SyncLine] : q \in Seq(SyncLine)
    OBVIOUS
  <1>. QED BY <1>2, <1>3, <1>4, <1>5, <1>6

(* generate_sync_packet: the revoke list, then the bots.                   *)
LEMMA PacketFrame ==
    ASSUME NEW x \in HubRec
    PROVE  generate_sync_packet(x) \in SyncFrame
  <1>. DEFINE rvs == SetToSeq(DOMAIN x.rv)
              A == [i \in DOMAIN rvs |-> Line("rv", rvs[i], x.rv[rvs[i]])]
              B == BotLines(x)
  <1>2. IsFiniteSet(DOMAIN x.rv)
    BY HubFields, FS_Subset, RevokeAssumption
  <1>4. rvs \in Seq(DOMAIN x.rv) /\ DOMAIN rvs = 1 .. Cardinality(DOMAIN x.rv) /\ Cardinality(DOMAIN x.rv) \in Nat
    BY <1>2, SetListed
  <1>6. generate_sync_packet(x) = A \o B
    BY DEF generate_sync_packet
  <1>7. ASSUME NEW i \in DOMAIN rvs PROVE A[i] \in SyncLine /\ A[i].k = "rv"
    <2>1. rvs[i] \in DOMAIN x.rv
      BY <1>4
    <2>2. rvs[i] \in Uuids /\ x.rv[rvs[i]] \in RvRec
      BY <2>1, HubFields
    <2>. QED BY <2>2, RvLine
  <1>8. B \in Seq(SyncLine) /\ \A i \in DOMAIN B : B[i].k = "bot"
    BY BotFrame
  <1>9. A \in Seq(SyncLine) /\ \A i \in DOMAIN A : A[i].k = "rv"
    <2>1. DOMAIN A = DOMAIN rvs
      OBVIOUS
    <2>2. A \in [1 .. Cardinality(DOMAIN x.rv) -> SyncLine]
      BY <1>4, <1>7
    <2>. HIDE DEF A, rvs
    <2>3. A \in Seq(SyncLine)
      <3>1. \A n \in Nat : \A q \in [1 .. n -> SyncLine] : q \in Seq(SyncLine)
        OBVIOUS
      <3>. QED BY <2>2, <1>4, <3>1
    <2>. QED BY <2>1, <2>3, <1>7
  <1>. HIDE DEF A, B
  <1>10. A \o B \in Seq(SyncLine)
    BY <1>8, <1>9
  <1>11. ASSUME NEW i \in DOMAIN (A \o B), NEW j \in DOMAIN (A \o B), i < j, (A \o B)[i].k = "bot"
         PROVE  (A \o B)[j].k # "rv"
    <2>1. Len(A) \in Nat /\ Len(B) \in Nat /\ DOMAIN (A \o B) = 1 .. Len(A) + Len(B)
          /\ DOMAIN A = 1 .. Len(A) /\ DOMAIN B = 1 .. Len(B)
      BY <1>8, <1>9
    <2>2. i \notin DOMAIN A
      <3>1. i \in DOMAIN A => (A \o B)[i] = A[i]
        BY <1>8, <1>9
      <3>. QED BY <1>9, <1>11, <3>1
    <2>3. j - Len(A) \in DOMAIN B
      BY <1>11, <2>1, <2>2
    <2>4. (A \o B)[j] = B[j - Len(A)]
      BY <1>8, <1>9, <2>1, <2>3
    <2>. QED BY <1>8, <2>3, <2>4
  <1>12. ListFirst(A \o B)
    BY <1>11 DEF ListFirst
  <1>. QED BY <1>6, <1>10, <1>12 DEF SyncFrame

-----------------------------------------------------------------------------
(* What a frame that is sent keeps of the wires.                           *)
LEMMA PostedTyped ==
    ASSUME ListsTyped, NEW h \in Nodes, NEW q \in SyncFrame
    PROVE  Posted(h, q) \in [Nodes -> Seq(SyncFrame)]
  BY DEF ListsTyped, Posted, Nodes

(* What changes of one hub, if anything does.                              *)
StaysOff(x, y) == \A v : v \in DOMAIN x.rv \cap DOMAIN y.rv /\ ~LiveIn(x, v) => ~LiveIn(y, v)
HubStep == \A h \in Nodes : StaysOff(hub[h], hub'[h])
(* One hub became y and the wires stay typed.                              *)
LEMMA OneHub ==
    ASSUME ListsTyped, NEW h \in Nodes, NEW y \in HubRec, StaysOff(hub[h], y), hub' = [hub EXCEPT ![h] = y],
           net' \in [Nodes -> Seq(SyncFrame)], day' = day
    PROVE  ListsTyped' /\ HubStep
  <1>1. hub' \in [Nodes -> HubRec] /\ \A g \in Nodes : hub'[g] = IF g = h THEN y ELSE hub[g]
    BY DEF ListsTyped
  <1>2. \A x : StaysOff(x, x)
    BY DEF StaysOff
  <1>. QED BY <1>1, <1>2 DEF ListsTyped, HubStep

(* No hub changed.                                                         *)
LEMMA SameHubs ==
    ASSUME ListsTyped, hub' = hub, net' \in [Nodes -> Seq(SyncFrame)], day' \in Nat
    PROVE  ListsTyped' /\ HubStep
  BY DEF ListsTyped, HubStep, StaysOff

(* A bot is created only off the list.                                     *)
LEMMA CreateKept ==
    ASSUME ListsTyped, NEW h \in Nodes, NEW u \in Uuids, create_bot(h, u)
    PROVE  ListsTyped' /\ HubStep
  <1>. DEFINE y == update_entry(hub[h], u, "pub", day)
  <1>1. hub[h] \in HubRec /\ day \in Nat /\ net \in [Nodes -> Seq(SyncFrame)]
    BY DEF ListsTyped
  <1>2. y \in HubRec /\ \A v : OffList(hub[h], v) => OffList(y, v)
    BY <1>1, UpdateLists DEF EntryKeys
  <1>3. hub' = [hub EXCEPT ![h] = y] /\ net' = net /\ day' = day
    BY DEF create_bot
  <1>. HIDE DEF y
  <1>4. StaysOff(hub[h], y)
    BY <1>2 DEF StaysOff, OffList
  <1>. QED BY <1>1, <1>2, <1>3, <1>4, OneHub

(* bot del lets nobody log in, and sends the tombstone before the list.     *)
LEMMA DeleteKept ==
    ASSUME ListsTyped, NEW h \in Nodes, NEW u \in Uuids, bot_del(h, u)
    PROVE  ListsTyped' /\ HubStep
  <1>. DEFINE ts == Larger2(day, hub[h].reg[u].d + 1)
              y == update_entry(hub[h], u, "d", ts)
              told == IF u \in DOMAIN y.rv THEN <<Line("rv", u, y.rv[u])>> ELSE <<>>
              q == <<Line("d", u, ts)>> \o told
  <1>1. hub[h] \in HubRec /\ day \in Nat
    BY DEF ListsTyped
  <1>2. ts \in Nat
    <2>1. hub[h].reg[u].d \in Nat
      BY <1>1, HubFields DEF bot_del, BotRec
    <2>. QED BY <1>1, <2>1 DEF Larger2
  <1>3. hub' = [hub EXCEPT ![h] = y] /\ net' = Posted(h, q) /\ day' = day
    BY DEF bot_del
  <1>. HIDE DEF ts
  <1>4. y \in HubRec /\ \A v : ~LiveIn(hub[h], v) => ~LiveIn(y, v)
    BY <1>1, <1>2, UpdateLists DEF EntryKeys
  <1>. HIDE DEF y
  <1>5. Line("d", u, ts) \in SyncLine /\ Line("d", u, ts).k = "d"
    BY <1>2, BotLine
  <1>6. told \in Seq(SyncLine) /\ Len(told) <= 1
    <2>1. u \in DOMAIN y.rv => Line("rv", u, y.rv[u]) \in SyncLine
      BY <1>4, HubFields, RvLine
    <2>. QED BY <2>1
  <1>. HIDE DEF told
  <1>7. q \in Seq(SyncLine) /\ Len(q) <= 2 /\ q[1] = Line("d", u, ts)
    BY <1>5, <1>6
  <1>. HIDE DEF q
  <1>8. q \in SyncFrame
    <2>1. ASSUME NEW i \in DOMAIN q, NEW j \in DOMAIN q, i < j, q[i].k = "bot" PROVE FALSE
      BY <1>5, <1>7, <2>1
    <2>. QED BY <1>7, <2>1 DEF SyncFrame, ListFirst
  <1>9. StaysOff(hub[h], y)
    BY <1>4 DEF StaysOff
  <1>10. net' \in [Nodes -> Seq(SyncFrame)]
    BY <1>3, <1>8, PostedTyped
  <1>. QED BY <1>3, <1>4, <1>9, <1>10, OneHub

(* A bot's hub list lets nobody log in.                                    *)
LEMMA HubListKept ==
    ASSUME ListsTyped, NEW h \in Nodes, NEW s \in SessSlots, push_hub_list(h, s)
    PROVE  ListsTyped' /\ HubStep
  <1>. DEFINE u == sess[h][s].u
              ts == Larger2(day, hub[h].reg[u].hl + 1)
              y == update_entry(hub[h], u, "hl", ts)
              q == <<Line("hl", u, ts)>>
  <1>1. hub[h] \in HubRec /\ day \in Nat /\ u \in DOMAIN hub[h].reg
    BY DEF ListsTyped, push_hub_list
  <1>2. hub[h].reg[u].hl \in Nat /\ u \in Uuids
    BY <1>1, HubFields DEF BotRec
  <1>3. ts \in Nat
    BY <1>1, <1>2 DEF Larger2
  <1>4. hub' = [hub EXCEPT ![h] = y] /\ net' = Posted(h, q) /\ day' = day
    BY DEF push_hub_list
  <1>. HIDE DEF ts, u
  <1>5. y \in HubRec /\ \A v : ~LiveIn(hub[h], v) => ~LiveIn(y, v)
    BY <1>1, <1>2, <1>3, UpdateLists DEF EntryKeys
  <1>6. q \in SyncFrame
    <2>1. Line("hl", u, ts) \in SyncLine
      BY <1>2, <1>3, BotLine
    <2>. QED BY <2>1 DEF SyncFrame, ListFirst
  <1>. HIDE DEF y, q
  <1>7. StaysOff(hub[h], y)
    BY <1>5 DEF StaysOff
  <1>8. net' \in [Nodes -> Seq(SyncFrame)]
    BY <1>4, <1>6, PostedTyped
  <1>. QED BY <1>4, <1>5, <1>7, <1>8, OneHub

(* A frame from the peer.                                                  *)
LEMMA SyncKept ==
    ASSUME ListsTyped, NEW h \in Nodes, process_sync(h)
    PROVE  ListsTyped' /\ HubStep
  <1>. DEFINE y == Applied(hub[h], Head(net[h]))
  <1>1. hub[h] \in HubRec /\ net \in [Nodes -> Seq(SyncFrame)] /\ net[h] # <<>>
    BY DEF ListsTyped, process_sync
  <1>2. Head(net[h]) \in SyncFrame
    BY <1>1
  <1>3. y \in HubRec /\ \A v : ~LiveIn(hub[h], v) => OffList(y, v)
    BY <1>1, <1>2, FrameLists
  <1>4. hub' = [hub EXCEPT ![h] = y] /\ net' = [net EXCEPT ![h] = Tail(@)] /\ day' = day
    BY DEF process_sync
  <1>. HIDE DEF y
  <1>5. StaysOff(hub[h], y)
    BY <1>3 DEF StaysOff, OffList
  <1>6. net' \in [Nodes -> Seq(SyncFrame)]
    BY <1>1, <1>4
  <1>. QED BY <1>3, <1>4, <1>5, <1>6, OneHub

(* hub purge now.                                                          *)
LEMMA PurgeKept ==
    ASSUME ListsTyped, NEW h \in Nodes, purge_now(h)
    PROVE  ListsTyped' /\ HubStep
  <1>. DEFINE y == purge_bots(hub[h])
              q == <<Line("purge", 0, 0)>>
  <1>1. hub[h] \in HubRec
    BY DEF ListsTyped
  <1>2. y \in HubRec /\ \A v : LiveIn(y, v) => LiveIn(hub[h], v)
    BY <1>1, PurgeLists
  <1>3. hub' = [hub EXCEPT ![h] = y] /\ net' = Posted(h, q) /\ day' = day
    BY DEF purge_now
  <1>4. q \in SyncFrame
    <2>1. Line("purge", 0, 0) \in SyncLine
      BY DEF Line, SyncLine
    <2>. QED BY <2>1 DEF SyncFrame, ListFirst
  <1>. HIDE DEF y, q
  <1>5. StaysOff(hub[h], y)
    BY <1>2 DEF StaysOff
  <1>6. net' \in [Nodes -> Seq(SyncFrame)]
    BY <1>3, <1>4, PostedTyped
  <1>. QED BY <1>2, <1>3, <1>5, <1>6, OneHub

(* A login lets nobody log in who could not.                               *)
LEMMA ProvesKept ==
    ASSUME ListsTyped, NEW h \in Nodes, NEW s \in SessSlots, proves(h, s)
    PROVE  ListsTyped' /\ HubStep
  <1>. DEFINE x == hub[h]
              u == sess[h][s].u
              revoked == u \in DOMAIN x.rv
              reg == [x.reg EXCEPT ![u].live = @ /\ ~revoked]
              y == WithReg(x, reg)
  <1>1. x \in HubRec /\ net \in [Nodes -> Seq(SyncFrame)] /\ day \in Nat
    BY DEF ListsTyped
  <1>2. net' = net /\ day' = day
    BY DEF proves
  <1>3. CASE hub' = hub
    BY <1>1, <1>2, <1>3, SameHubs
  <1>4. CASE u \in DOMAIN x.reg /\ hub' = [hub EXCEPT ![h] = y]
    <2>1. x.reg \in Lists(BotRec) /\ x.reg[u] \in BotRec
      BY <1>1, <1>4, HubFields
    <2>. DEFINE b == [x.reg[u] EXCEPT !.live = @ /\ ~revoked]
    <2>2. b \in BotRec /\ (b.live => x.reg[u].live) /\ b.pub = x.reg[u].pub
      BY <2>1 DEF BotRec
    <2>3. reg = [x.reg EXCEPT ![u] = b]
      BY <2>1
    <2>. HIDE DEF b, reg
    <2>4. reg \in Lists(BotRec) /\ DOMAIN reg = DOMAIN x.reg /\ \A v \in DOMAIN reg : reg[v] = IF v = u THEN b ELSE x.reg[v]
      BY <1>4, <2>1, <2>2, <2>3, ListOf
    <2>5. y \in HubRec /\ y.reg = reg
      BY <1>1, <2>4 DEF WithReg, HubRec
    <2>. HIDE DEF y
    <2>6. StaysOff(x, y)
      BY <2>2, <2>4, <2>5 DEF StaysOff, LiveIn
    <2>7. StaysOff(hub[h], y) /\ hub' = [hub EXCEPT ![h] = y]
      BY <1>4, <2>6
    <2>. QED BY <1>1, <1>2, <2>5, <2>7, OneHub
  <1>5. hub' = hub \/ (u \in DOMAIN x.reg /\ hub' = [hub EXCEPT ![h] = y])
    BY DEF proves
  <1>. QED BY <1>3, <1>4, <1>5

(* A wipe that is acknowledged stamps the list.                            *)
LEMMA AckKept ==
    ASSUME ListsTyped, NEW h \in Nodes, NEW s \in SessSlots, retire_ack(h, s)
    PROVE  ListsTyped' /\ HubStep
  <1>. DEFINE x == hub[h]
              u == sess[h][s].u
              list == [x.rv EXCEPT ![u].wiped = Larger2(@, day)]
              y == IF u \in DOMAIN x.rv THEN WithRv(x, list) ELSE x
              q == <<Line("rv", u, y.rv[u])>>
  <1>1. x \in HubRec /\ net \in [Nodes -> Seq(SyncFrame)] /\ day \in Nat
    BY DEF ListsTyped
  <1>2. /\ hub' = [hub EXCEPT ![h] = y] /\ day' = day
        /\ net' = IF u \in DOMAIN y.rv THEN Posted(h, q) ELSE net
    BY DEF retire_ack
  <1>3. y \in HubRec /\ y.reg = x.reg
    <2>1. CASE u \in DOMAIN x.rv
      <3>1. x.rv \in Lists(RvRec) /\ x.rv[u] \in RvRec
        BY <1>1, <2>1, HubFields
      <3>. DEFINE r == [x.rv[u] EXCEPT !.wiped = Larger2(@, day)]
      <3>2. r \in RvRec
        BY <1>1, <3>1 DEF RvRec, Larger2
      <3>3. list = [x.rv EXCEPT ![u] = r]
        BY <3>1
      <3>. HIDE DEF r, list
      <3>4. list \in Lists(RvRec)
        BY <2>1, <3>1, <3>2, <3>3, ListOf
      <3>5. y = WithRv(x, list)
        BY <2>1
      <3>. QED BY <1>1, <3>4, <3>5 DEF WithRv, HubRec
    <2>2. CASE u \notin DOMAIN x.rv
      BY <1>1, <2>2
    <2>. QED BY <2>1, <2>2
  <1>. HIDE DEF y, list
  <1>4. net' \in [Nodes -> Seq(SyncFrame)]
    <2>1. CASE u \in DOMAIN y.rv
      <3>1. Line("rv", u, y.rv[u]) \in SyncLine
        BY <1>3, <2>1, HubFields, RvLine
      <3>2. q \in SyncFrame
        BY <3>1 DEF SyncFrame, ListFirst
      <3>. HIDE DEF q
      <3>. QED BY <1>2, <2>1, <3>2, PostedTyped
    <2>2. CASE u \notin DOMAIN y.rv
      BY <1>1, <1>2, <2>2
    <2>. QED BY <2>1, <2>2
  <1>5. StaysOff(hub[h], y)
    BY <1>3 DEF StaysOff, LiveIn
  <1>. QED BY <1>2, <1>3, <1>4, <1>5, OneHub

(* The file gives back no bot that is on the list and could log in.        *)
LEMMA RestartKept ==
    ASSUME ListsTyped, NEW h \in Nodes, HubRestarts(h)
    PROVE  ListsTyped' /\ HubStep
  <1>. DEFINE x == hub[h]
              y == Reloaded(x)
              z == [reg |-> Nothing, rv |-> x.rv, floor |-> 0, hold |-> 0]
  <1>1. x \in HubRec /\ hub' = [hub EXCEPT ![h] = y] /\ day' = day /\ net' = [g \in Nodes |-> <<>>]
    BY DEF ListsTyped, HubRestarts
  <1>2. y = Applied(z, BotLines(x))
    BY DEF Reloaded
  <1>3. z \in HubRec /\ \A v : ~LiveIn(z, v)
    <2>1. Nothing \in [{} -> BotRec] /\ DOMAIN Nothing = {}
      BY DEF Nothing
    <2>2. Nothing \in Lists(BotRec)
      BY <2>1 DEF Lists
    <2>3. z.reg = Nothing
      OBVIOUS
    <2>4. z \in HubRec
      BY <1>1, <2>2, HubFields DEF HubRec
    <2>. QED BY <2>1, <2>3, <2>4 DEF LiveIn
  <1>4. BotLines(x) \in SyncFrame
    BY <1>1, BotFrame DEF SyncFrame, ListFirst
  <1>. HIDE DEF y, z
  <1>5. y \in HubRec /\ \A v : OffList(y, v)
    BY <1>2, <1>3, <1>4, FrameLists
  <1>6. StaysOff(hub[h], y)
    BY <1>5 DEF StaysOff, OffList
  <1>7. net' \in [Nodes -> Seq(SyncFrame)]
    BY <1>1
  <1>. QED BY <1>1, <1>5, <1>6, <1>7, OneHub

(* Every step keeps the types, and whoever is off stays off.               *)
LEMMA ListsStep == ListsTyped /\ [RvkNext]_rvkVars => ListsTyped' /\ HubStep
  <1>. SUFFICES ASSUME ListsTyped, [RvkNext]_rvkVars PROVE ListsTyped' /\ HubStep
    OBVIOUS
  <1>1. net \in [Nodes -> Seq(SyncFrame)] /\ day \in Nat /\ hub \in [Nodes -> HubRec]
    BY DEF ListsTyped
  <1>2. CASE UNCHANGED rvkVars
    BY <1>1, <1>2, SameHubs DEF rvkVars
  <1>3. ASSUME NEW h \in Nodes, NEW u \in Uuids, create_bot(h, u) PROVE ListsTyped' /\ HubStep
    BY <1>3, CreateKept
  <1>4. ASSUME NEW h \in Nodes, NEW u \in Uuids, bot_del(h, u) PROVE ListsTyped' /\ HubStep
    BY <1>4, DeleteKept
  <1>5. ASSUME NEW h \in Nodes, NEW u \in Uuids, NEW s \in SessSlots, hello(h, s, u) PROVE ListsTyped' /\ HubStep
    BY <1>1, <1>5, SameHubs DEF hello
  <1>6. ASSUME NEW h \in Nodes, process_sync(h) PROVE ListsTyped' /\ HubStep
    BY <1>6, SyncKept
  <1>7. ASSUME NEW h \in Nodes, purge_now(h) PROVE ListsTyped' /\ HubStep
    BY <1>7, PurgeKept
  <1>8. ASSUME NEW h \in Nodes, HubRestarts(h) PROVE ListsTyped' /\ HubStep
    BY <1>8, RestartKept
  <1>9. ASSUME NEW h \in Nodes, NEW s \in SessSlots, proves(h, s) PROVE ListsTyped' /\ HubStep
    BY <1>9, ProvesKept
  <1>10. ASSUME NEW h \in Nodes, NEW s \in SessSlots, retire_ack(h, s) PROVE ListsTyped' /\ HubStep
    BY <1>10, AckKept
  <1>11. ASSUME NEW h \in Nodes, NEW s \in SessSlots, SessionEnds(h, s) PROVE ListsTyped' /\ HubStep
    BY <1>1, <1>11, SameHubs DEF SessionEnds
  <1>12. CASE LinkLost
    <2>1. net' \in [Nodes -> Seq(SyncFrame)]
      BY <1>12 DEF LinkLost
    <2>. QED BY <1>1, <1>12, <2>1, SameHubs DEF LinkLost
  <1>13. CASE LinkBack
    <2>1. \A h \in Nodes : generate_sync_packet(hub[3 - h]) \in SyncFrame
      BY <1>1, PacketFrame DEF Nodes
    <2>2. net' \in [Nodes -> Seq(SyncFrame)]
      BY <1>13, <2>1 DEF LinkBack
    <2>. QED BY <1>1, <1>13, <2>2, SameHubs DEF LinkBack
  <1>14. CASE DayPasses
    BY <1>1, <1>14, SameHubs DEF DayPasses
  <1>15. ASSUME NEW h \in Nodes, NEW s \in SessSlots, push_hub_list(h, s) PROVE ListsTyped' /\ HubStep
    BY <1>15, HubListKept
  <1>. QED BY <1>2, <1>3, <1>4, <1>5, <1>6, <1>7, <1>8, <1>9, <1>10, <1>11, <1>12, <1>13, <1>14, <1>15 DEF RvkNext

(* Every bot starts live and off the lists.                                *)
LEMMA ListsInit == RvkInit => ListsTyped
  <1>. SUFFICES ASSUME RvkInit PROVE ListsTyped
    OBVIOUS
  <1>. DEFINE b == [NewBot EXCEPT !.pub = 1, !.hl = 1, !.keys = <<"pub", "hl">>]
              reg == [u \in Uuids |-> b]
  <1>0. b \in BotRec
    <2>1. <<"pub", "hl">> \in Seq(EntryKeys)
      BY DEF EntryKeys
    <2>. HIDE DEF EntryKeys
    <2>. QED BY <2>1 DEF NewBot, BotRec
  <1>1. reg \in [Uuids -> BotRec] /\ Nothing \in [{} -> RvRec]
    BY <1>0 DEF Nothing
  <1>2. reg \in Lists(BotRec) /\ Nothing \in Lists(RvRec)
    BY <1>1 DEF Lists
  <1>3. hub = [h \in Nodes |-> [reg |-> reg, rv |-> Nothing, floor |-> 0, hold |-> 0]]
    BY DEF RvkInit
  <1>. HIDE DEF reg
  <1>4. [reg |-> reg, rv |-> Nothing, floor |-> 0, hold |-> 0] \in HubRec
    BY <1>2 DEF HubRec
  <1>5. hub \in [Nodes -> HubRec]
    BY <1>3, <1>4
  <1>6. <<>> \in Seq(SyncFrame) /\ net = [h \in Nodes |-> <<>>] /\ day = 1
    BY DEF RvkInit
  <1>7. net \in [Nodes -> Seq(SyncFrame)]
    BY <1>6
  <1>. QED BY <1>5, <1>6, <1>7 DEF ListsTyped

(* Whatever syncs, purges, hub lists and restarts come, in whatever order: *)
(* a bot that is on a hub's list and could not log in there, live and with *)
(* its key, does not come to be able to.                                   *)
THEOREM NeverBackAlways == RvkSpec => NeverBack
  <1>1. ListsTyped /\ [RvkNext]_rvkVars =>
          [\A h \in Nodes, u \in Uuids :
             LET Usable(x) == u \in DOMAIN x.reg /\ x.reg[u].live /\ x.reg[u].pub > 0
             IN  u \in DOMAIN hub[h].rv \cap DOMAIN hub'[h].rv /\ ~Usable(hub[h]) => ~Usable(hub'[h])]_rvkVars
    BY ListsStep DEF HubStep, StaysOff, LiveIn
  <1>. QED BY <1>1, ListsInit, ListsStep, PTL DEF RvkSpec, NeverBack

-----------------------------------------------------------------------------
(* The channel store.  A vector of records that are all different, within  *)
(* the ceilings, and the store that is built from it.                      *)
Distinct(ent) == \A i, j \in 1 .. Len(ent) : ent[i].id = ent[j].id => i = j
Fits(ent) ==
    /\ \A c \in Chans \cup {Global} : Count(ent, LiveBans(c)) <= ban_ceiling(c)
    /\ \A k \in DOMAIN Cap : Count(ent, OfClass(k)) <= Cap[k]
Vector(ent) == ent \in Seq(Entry) /\ Distinct(ent) /\ Fits(ent)
Built(ent, learned) ==
    [ent |-> ent, map |-> Index(ent), n |-> ClassCounts(ent), bans |-> BanCounts(ent), learned |-> learned]
LiveChans(ent) == {c \in Chans : \E i \in 1 .. Len(ent) : ent[i].id = <<"c", c, "">> /\ ent[i].live}

(* What is counted is finite.                                              *)
LEMMA CountFinite ==
    ASSUME NEW ent \in Seq(Entry), NEW S
    PROVE  IsFiniteSet({i \in 1 .. Len(ent) : ent[i] \in S}) /\ Count(ent, S) \in Nat
  <1>1. IsFiniteSet(1 .. Len(ent))
    BY FS_Interval
  <1>2. {i \in 1 .. Len(ent) : ent[i] \in S} \in SUBSET (1 .. Len(ent))
    OBVIOUS
  <1>3. IsFiniteSet({i \in 1 .. Len(ent) : ent[i] \in S})
    BY <1>1, <1>2, FS_Subset
  <1>. QED BY <1>3, FS_CardinalityType DEF Count

(* One more record counts where it belongs.                                *)
LEMMA CountAppend ==
    ASSUME NEW ent \in Seq(Entry), NEW e \in Entry, NEW S
    PROVE  Count(Append(ent, e), S) = IF e \in S THEN Count(ent, S) + 1 ELSE Count(ent, S)
  <1>. DEFINE A == {i \in 1 .. Len(ent) : ent[i] \in S}
              B == {i \in 1 .. Len(Append(ent, e)) : Append(ent, e)[i] \in S}
  <1>1. B = IF e \in S THEN A \cup {Len(ent) + 1} ELSE A
    OBVIOUS
  <1>2. IsFiniteSet(A)
    BY CountFinite
  <1>5. Len(ent) + 1 \notin A
    OBVIOUS
  <1>3. Count(ent, S) = Cardinality(A) /\ Count(Append(ent, e), S) = Cardinality(B)
    BY DEF Count
  <1>. HIDE DEF A, B
  <1>4. Cardinality(A \cup {Len(ent) + 1}) = Cardinality(A) + 1
    BY <1>2, <1>5, FS_AddElement
  <1>. QED BY <1>1, <1>3, <1>4

(* The vector new is ent with e at i.                                      *)
EditedAt(ent, i, e, new) ==
    Len(new) = Len(ent) /\ \A j \in 1 .. Len(ent) : new[j] = IF j = i THEN e ELSE ent[j]

(* A record replaced by another: the count moves by one at most.           *)
LEMMA CountReplace ==
    ASSUME NEW ent \in Seq(Entry), NEW e, NEW S, NEW i \in 1 .. Len(ent),
           NEW new, EditedAt(ent, i, e, new)
    PROVE  Count(new, S)
             = IF e \in S /\ ent[i] \notin S THEN Count(ent, S) + 1
               ELSE IF e \notin S /\ ent[i] \in S THEN Count(ent, S) - 1 ELSE Count(ent, S)
  <1>. DEFINE A == {j \in 1 .. Len(ent) : ent[j] \in S}
              B == {j \in 1 .. Len(new) : new[j] \in S}
  <1>1. B = IF e \in S THEN A \cup {i} ELSE A \ {i}
    BY DEF EditedAt
  <1>2. IsFiniteSet(A) /\ (i \in A <=> ent[i] \in S) /\ Cardinality(A) \in Nat
    BY CountFinite DEF Count
  <1>3. Count(ent, S) = Cardinality(A) /\ Count(new, S) = Cardinality(B)
    BY DEF Count
  <1>. HIDE DEF A, B
  <1>4. Cardinality(A \cup {i}) = IF ent[i] \in S THEN Cardinality(A) ELSE Cardinality(A) + 1
    BY <1>2, FS_AddElement
  <1>5. Cardinality(A \ {i}) = IF ent[i] \in S THEN Cardinality(A) - 1 ELSE Cardinality(A)
    BY <1>2, FS_RemoveElement
  <1>6. CASE e \in S
    BY <1>6, <1>1, <1>3, <1>4
  <1>7. CASE e \notin S
    BY <1>7, <1>1, <1>3, <1>5
  <1>. QED BY <1>6, <1>7

(* Records taken from a vector, each once, count no more than the vector.  *)
TakenFrom(r, ent) == \A k \in 1 .. Len(r) : \E i \in 1 .. Len(ent) : r[k] = ent[i]
LEMMA CountTaken ==
    ASSUME NEW ent \in Seq(Entry), NEW r \in Seq(Entry), Distinct(r), TakenFrom(r, ent), NEW S
    PROVE  Count(r, S) <= Count(ent, S)
  <1>. DEFINE A == {i \in 1 .. Len(ent) : ent[i] \in S}
              B == {k \in 1 .. Len(r) : r[k] \in S}
              at(k) == CHOOSE i \in 1 .. Len(ent) : r[k] = ent[i]
              f == [k \in B |-> at(k)]
  <1>1. ASSUME NEW k \in B PROVE at(k) \in 1 .. Len(ent) /\ r[k] = ent[at(k)]
    BY DEF TakenFrom
  <1>. HIDE DEF at
  <1>2. ASSUME NEW k \in B PROVE f[k] \in A /\ r[k] = ent[f[k]]
    BY <1>1
  <1>3. f \in [B -> A]
    BY <1>2
  <1>4. ASSUME NEW j \in B, NEW k \in B, f[j] = f[k] PROVE j = k
    BY <1>2, <1>4 DEF Distinct
  <1>5. f \in Injection(B, A)
    BY <1>3, <1>4 DEF Injection, IsInjective
  <1>6. IsFiniteSet(A)
    BY CountFinite
  <1>. HIDE DEF A, B, f
  <1>7. Cardinality(B) <= Cardinality(A)
    BY <1>5, <1>6, FS_Injection
  <1>. QED BY <1>7 DEF Count, A, B

(* A vector of some of the records of another is one too.                  *)
LEMMA TakenVector ==
    ASSUME NEW ent, Vector(ent), NEW r \in Seq(Entry), Distinct(r), TakenFrom(r, ent)
    PROVE  Vector(r)
  <1>. ent \in Seq(Entry)
    BY DEF Vector
  <1>1. ASSUME NEW S PROVE Count(r, S) <= Count(ent, S) /\ Count(r, S) \in Nat /\ Count(ent, S) \in Nat
    BY CountTaken, CountFinite
  <1>2. ASSUME NEW c \in Chans \cup {Global} PROVE Count(r, LiveBans(c)) <= ban_ceiling(c)
    <2>1. Count(ent, LiveBans(c)) <= ban_ceiling(c) /\ ban_ceiling(c) \in Nat
      BY ChannelStoreAssumption DEF Vector, Fits, ban_ceiling
    <2>. QED BY <2>1, <1>1
  <1>3. ASSUME NEW k \in DOMAIN Cap PROVE Count(r, OfClass(k)) <= Cap[k]
    <2>1. Count(ent, OfClass(k)) <= Cap[k] /\ Cap[k] \in Nat
      BY ChannelStoreAssumption DEF Vector, Fits, Cap
    <2>. QED BY <2>1, <1>1
  <1>. QED BY <1>2, <1>3 DEF Vector, Fits

(* What an identity and a record are.                                      *)
LEMMA IdForm ==
    ASSUME NEW id \in Ids
    PROVE  /\ id = <<id[1], id[2], id[3]>>
           /\ id[1] \in {"c", "C", "B"} /\ id[2] \in Chans \cup {Global}
           /\ id[1] \in {"c", "C"} => id[2] \in Chans /\ id[3] = ""
           /\ Class(id) \in DOMAIN Cap
           /\ Class(id) = "old" <=> id[1] = "c"
           /\ Class(id) = "B" <=> id[1] = "B"
  <1>1. CASE id \in ChanId
    <2>1. PICK c \in Chans : id = <<"c", c, "">> \/ id = <<"C", c, "">>
      BY <1>1 DEF ChanId
    <2>2. CASE id = <<"c", c, "">>
      BY <2>2 DEF Class, Cap
    <2>3. CASE id = <<"C", c, "">>
      BY <2>3 DEF Class, Cap
    <2>. QED BY <2>1, <2>2, <2>3
  <1>2. CASE id \in BanId
    <2>1. PICK b \in Bans : id = <<"B", b[1], b[2]>>
      BY <1>2 DEF BanId
    <2>. QED BY <2>1, ChannelStoreAssumption DEF Class, Cap
  <1>. QED BY <1>1, <1>2 DEF Ids

(* The key of a channel.                                                   *)
LEMMA ChanKey == \A c : <<"c", c, "">>[1] = "c" /\ <<"c", c, "">>[2] = c /\ <<"C", c, "">>[1] = "C"
  OBVIOUS

(* An entry is the record of its four fields.                              *)
LEMMA EntryForm ==
    ASSUME NEW e \in Entry
    PROVE  /\ e.id \in Ids /\ e.live \in BOOLEAN /\ e.ts \in Stamps /\ e.exp \in Expiry
           /\ e = [id |-> e.id, live |-> e.live, ts |-> e.ts, exp |-> e.exp]
  BY DEF Entry

(* The index of a vector of different records.                             *)
LEMMA IndexAt ==
    ASSUME NEW ent \in Seq(Entry), Distinct(ent)
    PROVE  /\ DOMAIN Index(ent) = {ent[i].id : i \in 1 .. Len(ent)}
           /\ \A i \in 1 .. Len(ent) : Index(ent)[ent[i].id] = i
  <1>1. DOMAIN Index(ent) = {ent[i].id : i \in 1 .. Len(ent)}
    BY DEF Index
  <1>2. ASSUME NEW i \in 1 .. Len(ent) PROVE Index(ent)[ent[i].id] = i
    <2>1. Positions(ent, ent[i].id) = {i}
      BY DEF Positions, Distinct
    <2>2. Index(ent)[ent[i].id] = CHOOSE j \in {i} : \A k \in {i} : j <= k
      BY <2>1 DEF Index
    <2>. QED BY <2>2
  <1>. QED BY <1>1, <1>2

(* An index is known by its domain and where it points.                    *)
LEMMA IndexIs ==
    ASSUME NEW ent \in Seq(Entry), Distinct(ent), NEW D, NEW f, f = [id \in D |-> f[id]],
           D = {ent[i].id : i \in 1 .. Len(ent)}, \A i \in 1 .. Len(ent) : f[ent[i].id] = i
    PROVE  Index(ent) = f
  <1>1. Index(ent) = [id \in D |-> Index(ent)[id]]
    BY DEF Index
  <1>2. ASSUME NEW id \in D PROVE Index(ent)[id] = f[id]
    <2>1. PICK i \in 1 .. Len(ent) : id = ent[i].id
      OBVIOUS
    <2>. QED BY <2>1, IndexAt
  <1>. HIDE DEF Index
  <1>. QED BY <1>1, <1>2

(* global_find: the place of the record, or 0 if there is none.            *)
LEMMA FindAt ==
    ASSUME NEW ent, Vector(ent), NEW L, NEW id
    PROVE  \/ /\ global_find(Built(ent, L), id) = 0
              /\ id \notin DOMAIN Index(ent)
              /\ \A i \in 1 .. Len(ent) : ent[i].id # id
           \/ /\ global_find(Built(ent, L), id) \in 1 .. Len(ent)
              /\ id \in DOMAIN Index(ent)
              /\ ent[global_find(Built(ent, L), id)].id = id
  <1>1. ent \in Seq(Entry) /\ Distinct(ent)
    BY DEF Vector
  <1>2. DOMAIN Index(ent) = {ent[i].id : i \in 1 .. Len(ent)}
        /\ \A i \in 1 .. Len(ent) : Index(ent)[ent[i].id] = i
    BY <1>1, IndexAt
  <1>3. global_find(Built(ent, L), id) = IF id \in DOMAIN Index(ent) THEN Index(ent)[id] ELSE 0
    BY DEF global_find, Built
  <1>4. CASE id \in DOMAIN Index(ent)
    <2>1. PICK i \in 1 .. Len(ent) : ent[i].id = id
      BY <1>2, <1>4
    <2>. QED BY <2>1, <1>2, <1>3, <1>4
  <1>5. CASE id \notin DOMAIN Index(ent)
    BY <1>2, <1>3, <1>5
  <1>. QED BY <1>4, <1>5

(* A record that is found is where it is found.                            *)
LEMMA Found ==
    ASSUME NEW ent, Vector(ent), NEW L, NEW i \in 1 .. Len(ent)
    PROVE  global_find(Built(ent, L), ent[i].id) = i
  BY FindAt DEF Vector, Distinct

(* chan_live: the vector has the channel, live.                            *)
LEMMA ChanLive ==
    ASSUME NEW ent, Vector(ent), NEW L, NEW c \in Chans
    PROVE  chan_live(Built(ent, L), c) <=> c \in LiveChans(ent)
  <1>. DEFINE id == <<"c", c, "">>
              i == global_find(Built(ent, L), id)
  <1>1. chan_live(Built(ent, L), c) <=> (i # 0 /\ ent[i].live)
    BY DEF chan_live, Built
  <1>2. c \in LiveChans(ent) <=> \E j \in 1 .. Len(ent) : ent[j].id = id /\ ent[j].live
    BY DEF LiveChans
  <1>. HIDE DEF id
  <1>3. \/ i = 0 /\ \A j \in 1 .. Len(ent) : ent[j].id # id
        \/ i \in 1 .. Len(ent) /\ ent[i].id = id
    BY FindAt
  <1>4. \A j \in 1 .. Len(ent) : ent[j].id = id => i = j
    BY Found
  <1>. HIDE DEF i
  <1>5. Len(ent) \in Nat
    BY DEF Vector
  <1>6. CASE i = 0
    BY <1>1, <1>2, <1>3, <1>5, <1>6
  <1>7. CASE i # 0 /\ ent[i].live
    BY <1>1, <1>2, <1>3, <1>5, <1>7
  <1>8. CASE i # 0 /\ ~ent[i].live
    BY <1>1, <1>2, <1>3, <1>4, <1>5, <1>8
  <1>. QED BY <1>6, <1>7, <1>8

(* Where a record belongs: one class, and one channel if a live ban.       *)
LEMMA Belongs ==
    ASSUME NEW e \in Entry
    PROVE  /\ \A k : e \in OfClass(k) <=> Class(e.id) = k
           /\ \A c : e \in LiveBans(c) <=> e.id[1] = "B" /\ e.id[2] = c /\ e.live
  BY DEF OfClass, LiveBans

(* push and global_note_new of a record that is not there.                 *)
LEMMA NoteNew ==
    ASSUME NEW ent, Vector(ent), NEW L, NEW e \in Entry, \A i \in 1 .. Len(ent) : ent[i].id # e.id
    PROVE  /\ global_note_new(Built(ent, L), e) = Built(Append(ent, e), L)
           /\ Append(ent, e) \in Seq(Entry) /\ Distinct(Append(ent, e))
  <1>. DEFINE new == Append(ent, e)
              s == Built(ent, L)
              t == global_note_new(s, e)
  <1>1. ent \in Seq(Entry) /\ Distinct(ent)
    BY DEF Vector
  <1>2. new \in Seq(Entry) /\ Distinct(new) /\ Len(new) = Len(ent) + 1 /\ new[Len(ent) + 1] = e
        /\ \A i \in 1 .. Len(ent) : new[i] = ent[i]
    BY <1>1 DEF Distinct
  <1>3. DOMAIN s.map = {ent[i].id : i \in 1 .. Len(ent)} /\ \A i \in 1 .. Len(ent) : s.map[ent[i].id] = i
    BY <1>1, IndexAt DEF Built
  <1>4. Index(new) = t.map
    <2>. DEFINE D == DOMAIN s.map \cup {e.id}
                f == [id \in D |-> IF id \in DOMAIN s.map THEN s.map[id] ELSE Len(ent) + 1]
    <2>1. D = {new[i].id : i \in 1 .. Len(new)}
      <3>1. 1 .. Len(new) = (1 .. Len(ent)) \cup {Len(ent) + 1}
        BY <1>1, <1>2
      <3>. QED BY <3>1, <1>2, <1>3
    <2>2. ASSUME NEW i \in 1 .. Len(new) PROVE f[new[i].id] = i
      <3>1. CASE i = Len(ent) + 1
        BY <3>1, <1>2, <1>3
      <3>2. CASE i \in 1 .. Len(ent)
        BY <3>2, <1>2, <1>3
      <3>. QED BY <3>1, <3>2, <1>1, <1>2
    <2>3. f = [id \in D |-> f[id]]
      OBVIOUS
    <2>4. t.map = f
      BY DEF global_note_new, Built
    <2>. HIDE DEF D, f, t, new, s
    <2>. QED BY <2>1, <2>2, <2>3, <2>4, <1>2, IndexIs
  <1>5. ClassCounts(new) = t.n
    <2>1. s.n = ClassCounts(ent) /\ Class(e.id) \in DOMAIN Cap
      BY IdForm, EntryForm DEF Built
    <2>2. t.n = [k \in DOMAIN Cap |-> IF k = Class(e.id) THEN s.n[k] + 1 ELSE s.n[k]]
      BY <2>1 DEF global_note_new, ClassCounts
    <2>3. ASSUME NEW k \in DOMAIN Cap
          PROVE  Count(new, OfClass(k)) = IF k = Class(e.id) THEN s.n[k] + 1 ELSE s.n[k]
      <3>1. s.n[k] = Count(ent, OfClass(k))
        BY <2>1 DEF ClassCounts
      <3>. QED BY <3>1, <1>1, CountAppend, Belongs
    <2>. QED BY <2>2, <2>3 DEF ClassCounts
  <1>6. BanCounts(new) = t.bans
    <2>1. s.bans = BanCounts(ent) /\ e.id[2] \in Chans \cup {Global} /\ e.live \in BOOLEAN
      BY IdForm, EntryForm DEF Built
    <2>2. t.bans = [c \in Chans \cup {Global} |->
                      IF e.id[1] = "B" /\ e.live /\ c = e.id[2] THEN s.bans[c] + 1 ELSE s.bans[c]]
      BY <2>1 DEF global_note_new, BanCounts, gban_adjust
    <2>3. ASSUME NEW c \in Chans \cup {Global}
          PROVE  Count(new, LiveBans(c)) =
                   IF e.id[1] = "B" /\ e.live /\ c = e.id[2] THEN s.bans[c] + 1 ELSE s.bans[c]
      <3>1. s.bans[c] = Count(ent, LiveBans(c))
        BY <2>1 DEF BanCounts
      <3>. QED BY <3>1, <1>1, CountAppend, Belongs
    <2>. QED BY <2>2, <2>3 DEF BanCounts
  <1>7. t = [ent |-> t.ent, map |-> t.map, n |-> t.n, bans |-> t.bans, learned |-> t.learned]
        /\ t.ent = new /\ t.learned = L
    BY DEF global_note_new, Built
  <1>. HIDE DEF t, new
  <1>8. t = Built(new, L)
    BY <1>4, <1>5, <1>6, <1>7 DEF Built
  <1>. QED BY <1>8, <1>2 DEF t, new

(* What a write hands to the store, and when it is a record of the store.  *)
Written == [id : Ids, live : BOOLEAN, ts : Nat \ {0}, exp : Expiry]
ClockOK == clock \in 1 .. MaxClock
LEMMA InReach ==
    ASSUME ClockOK, NEW e \in Written, ~ts_ahead(e.ts)
    PROVE  e \in Entry
  <1>1. e.ts \in 1 .. MaxClock + MaxFuture + 1
    BY ChannelStoreAssumption DEF ClockOK, Written, ts_ahead
  <1>. QED BY <1>1 DEF Written, Entry, Stamps

(* The identities a purge alone may remove: those with a young stamp.      *)
Young(ent) == {ent[i].id : i \in {j \in 1 .. Len(ent) : ent[j].ts > clock - Keep}}

(* A record replaced in place: the index is as it was.                     *)
LEMMA Replaced ==
    ASSUME NEW ent, Vector(ent), NEW i \in 1 .. Len(ent), NEW e \in Entry, e.id = ent[i].id,
           NEW new, new \in Seq(Entry), EditedAt(ent, i, e, new)
    PROVE  /\ Distinct(new)
           /\ \A j \in 1 .. Len(ent) : new[j].id = ent[j].id
           /\ Index(new) = Index(ent)
           /\ ClassCounts(new) = ClassCounts(ent)
           /\ BanCounts(new) = IF e.id[1] = "B" /\ e.live # ent[i].live
                               THEN gban_adjust(BanCounts(ent), e.id[2], e.live) ELSE BanCounts(ent)
           /\ \A k \in DOMAIN Cap : Count(new, OfClass(k)) = Count(ent, OfClass(k))
           /\ \A c \in Chans \cup {Global} :
                Count(new, LiveBans(c)) <= Count(ent, LiveBans(c))
                \/ (e.id[1] = "B" /\ e.live /\ ~ent[i].live /\ c = e.id[2]
                    /\ Count(new, LiveBans(c)) = Count(ent, LiveBans(c)) + 1)
  <1>1. ent \in Seq(Entry) /\ Distinct(ent) /\ ent[i] \in Entry
    BY DEF Vector
  <1>2. new \in Seq(Entry) /\ Len(new) = Len(ent)
    BY DEF EditedAt
  <1>3. \A j \in 1 .. Len(ent) : new[j] = IF j = i THEN e ELSE ent[j]
    BY DEF EditedAt
  <1>4. \A j \in 1 .. Len(ent) : new[j].id = ent[j].id
    BY <1>3
  <1>5. Distinct(new)
    BY <1>1, <1>2, <1>4 DEF Distinct
  <1>6. Index(new) = Index(ent)
    <2>. DEFINE D == {ent[j].id : j \in 1 .. Len(ent)}
                f == Index(ent)
    <2>1. f = [id \in D |-> f[id]]
      BY DEF Index
    <2>2. D = {new[j].id : j \in 1 .. Len(new)}
      BY <1>2, <1>4
    <2>3. \A j \in 1 .. Len(new) : f[new[j].id] = j
      BY <1>1, <1>2, <1>4, IndexAt
    <2>. HIDE DEF D, f
    <2>4. Index(new) = f
      BY <2>1, <2>2, <2>3, <1>2, <1>5, IndexIs
    <2>. QED BY <2>4 DEF f
  <1>7. ASSUME NEW S
        PROVE  /\ Count(ent, S) \in Nat /\ Count(new, S) \in Nat
               /\ Count(new, S) = IF e \in S /\ ent[i] \notin S THEN Count(ent, S) + 1
                                  ELSE IF e \notin S /\ ent[i] \in S THEN Count(ent, S) - 1 ELSE Count(ent, S)
    <2>1. Count(ent, S) \in Nat
      BY <1>1, CountFinite
    <2>2. Count(new, S) \in Nat
      BY <1>2, CountFinite
    <2>3. Count(new, S) = IF e \in S /\ ent[i] \notin S THEN Count(ent, S) + 1
                          ELSE IF e \notin S /\ ent[i] \in S THEN Count(ent, S) - 1 ELSE Count(ent, S)
      BY <1>1, CountReplace
    <2>. QED BY <2>1, <2>2, <2>3
  <1>8. \A k \in DOMAIN Cap : Count(new, OfClass(k)) = Count(ent, OfClass(k))
    BY <1>1, <1>7, Belongs
  <1>9. ClassCounts(new) = ClassCounts(ent)
    BY <1>8 DEF ClassCounts
  <1>10. e.live \in BOOLEAN /\ ent[i].live \in BOOLEAN /\ e.id[2] \in Chans \cup {Global}
    BY <1>1, EntryForm, IdForm
  <1>11. ASSUME NEW c \in Chans \cup {Global}
         PROVE  Count(new, LiveBans(c)) =
                  IF e.id[1] = "B" /\ c = e.id[2] /\ e.live /\ ~ent[i].live THEN Count(ent, LiveBans(c)) + 1
                  ELSE IF e.id[1] = "B" /\ c = e.id[2] /\ ~e.live /\ ent[i].live THEN Count(ent, LiveBans(c)) - 1
                  ELSE Count(ent, LiveBans(c))
    <2>1. e \in LiveBans(c) <=> e.id[1] = "B" /\ e.id[2] = c /\ e.live
      BY Belongs
    <2>2. ent[i] \in LiveBans(c) <=> e.id[1] = "B" /\ e.id[2] = c /\ ent[i].live
      BY <1>1, Belongs
    <2>. QED BY <2>1, <2>2, <1>7, <1>10
  <1>12. BanCounts(new) = IF e.id[1] = "B" /\ e.live # ent[i].live
                          THEN gban_adjust(BanCounts(ent), e.id[2], e.live) ELSE BanCounts(ent)
    <2>1. CASE e.id[1] = "B" /\ e.live # ent[i].live
      <3>1. gban_adjust(BanCounts(ent), e.id[2], e.live) =
              [c \in Chans \cup {Global} |->
                 IF c = e.id[2] THEN IF e.live THEN BanCounts(ent)[c] + 1
                                     ELSE IF BanCounts(ent)[c] = 0 THEN 0 ELSE BanCounts(ent)[c] - 1
                 ELSE BanCounts(ent)[c]]
        BY <1>10 DEF gban_adjust, BanCounts
      <3>2. ASSUME NEW c \in Chans \cup {Global}
            PROVE  Count(new, LiveBans(c)) =
                     IF c = e.id[2] THEN IF e.live THEN BanCounts(ent)[c] + 1
                                         ELSE IF BanCounts(ent)[c] = 0 THEN 0 ELSE BanCounts(ent)[c] - 1
                     ELSE BanCounts(ent)[c]
        <4>1. BanCounts(ent)[c] = Count(ent, LiveBans(c)) /\ Count(ent, LiveBans(c)) \in Nat
              /\ Count(new, LiveBans(c)) \in Nat
          BY <1>7 DEF BanCounts
        <4>2. CASE c # e.id[2]
          BY <4>1, <4>2, <1>11
        <4>3. CASE c = e.id[2] /\ e.live
          BY <4>1, <4>3, <1>11, <1>10, <2>1
        <4>4. CASE c = e.id[2] /\ ~e.live
          <5>1. Count(new, LiveBans(c)) = Count(ent, LiveBans(c)) - 1
            BY <4>4, <1>11, <1>10, <2>1
          <5>. QED BY <5>1, <4>1, <4>4
        <4>. QED BY <4>2, <4>3, <4>4
      <3>. QED BY <2>1, <3>1, <3>2 DEF BanCounts
    <2>2. CASE ~(e.id[1] = "B" /\ e.live # ent[i].live)
      <3>1. \A c \in Chans \cup {Global} : Count(new, LiveBans(c)) = Count(ent, LiveBans(c))
        BY <2>2, <1>10, <1>11
      <3>2. BanCounts(new) = BanCounts(ent)
        BY <3>1 DEF BanCounts
      <3>. QED BY <2>2, <3>2
    <2>. QED BY <2>1, <2>2
  <1>13. \A c \in Chans \cup {Global} :
           Count(new, LiveBans(c)) <= Count(ent, LiveBans(c))
           \/ (e.id[1] = "B" /\ e.live /\ ~ent[i].live /\ c = e.id[2]
               /\ Count(new, LiveBans(c)) = Count(ent, LiveBans(c)) + 1)
    <2>. TAKE c \in Chans \cup {Global}
    <2>1. Count(ent, LiveBans(c)) \in Nat
      BY <1>7
    <2>2. CASE e.id[1] = "B" /\ c = e.id[2] /\ e.live /\ ~ent[i].live
      BY <2>1, <2>2, <1>11
    <2>3. CASE ~(e.id[1] = "B" /\ c = e.id[2] /\ e.live /\ ~ent[i].live)
      <3>1. Count(new, LiveBans(c)) = Count(ent, LiveBans(c)) - 1
            \/ Count(new, LiveBans(c)) = Count(ent, LiveBans(c))
        BY <2>3, <1>11
      <3>. QED BY <3>1, <2>1
    <2>. QED BY <2>2, <2>3
  <1>. QED BY <1>2, <1>3, <1>4, <1>5, <1>6, <1>8, <1>9, <1>12, <1>13

(* put_record of a record that is stored: the vector with the new version  *)
(* in its place, or as it was.                                             *)
LEMMA PutExisting ==
    ASSUME NEW ent, Vector(ent), NEW L, ClockOK, NEW i \in 1 .. Len(ent), NEW e \in Written, e.id = ent[i].id
    PROVE  \/ put_existing(Built(ent, L), i, e) = Built(ent, L)
           \/ /\ put_existing(Built(ent, L), i, e) = Built([ent EXCEPT ![i] = e], L)
              /\ e \in Entry /\ accepts(e, ent[i])
              /\ Vector([ent EXCEPT ![i] = e])
  <1>. DEFINE s == Built(ent, L)
              new == [ent EXCEPT ![i] = e]
              stop == \/ ~accepts(e, ent[i])
                      \/ e.id[1] = "B" /\ e.live /\ ~ent[i].live /\ BanCounts(ent)[e.id[2]] >= ban_ceiling(e.id[2])
              bans == IF e.id[1] = "B" /\ e.live # ent[i].live
                      THEN gban_adjust(BanCounts(ent), e.id[2], e.live) ELSE BanCounts(ent)
  <1>1. put_existing(s, i, e) = IF stop THEN s ELSE [s EXCEPT !.ent = [@ EXCEPT ![i] = e], !.bans = bans]
    BY DEF put_existing, Built
  <1>2. [s EXCEPT !.ent = [@ EXCEPT ![i] = e], !.bans = bans] =
          [ent |-> new, map |-> Index(ent), n |-> ClassCounts(ent), bans |-> bans, learned |-> L]
    <2>1. s.ent = ent /\ s = [ent |-> ent, map |-> Index(ent), n |-> ClassCounts(ent), bans |-> BanCounts(ent), learned |-> L]
      BY DEF Built
    <2>. HIDE DEF bans, s, new
    <2>. DEFINE t == [s EXCEPT !.ent = new, !.bans = bans]
    <2>2. /\ t.ent = new /\ t.map = Index(ent) /\ t.n = ClassCounts(ent) /\ t.bans = bans /\ t.learned = L
      BY <2>1
    <2>5. t = [k \in {"ent", "map", "n", "bans", "learned"} |-> t[k]]
      BY <2>1
    <2>3. t = [s EXCEPT !.ent = [@ EXCEPT ![i] = e], !.bans = bans]
      BY <2>1 DEF new
    <2>. HIDE DEF t
    <2>4. t = [ent |-> new, map |-> Index(ent), n |-> ClassCounts(ent), bans |-> bans, learned |-> L]
      BY <2>2, <2>5
    <2>. QED BY <2>3, <2>4
  <1>3. CASE stop
    BY <1>1, <1>3
  <1>4. CASE ~stop
    <2>1. accepts(e, ent[i]) /\ e \in Entry
      BY <1>4, InReach DEF accepts
    <2>6. new \in Seq(Entry) /\ EditedAt(ent, i, e, new)
      BY <2>1 DEF EditedAt, Vector
    <2>. HIDE DEF bans, stop, s
    <2>2. /\ new \in Seq(Entry) /\ Distinct(new) /\ Index(new) = Index(ent) /\ ClassCounts(new) = ClassCounts(ent)
          /\ BanCounts(new) = bans
          /\ \A k \in DOMAIN Cap : Count(new, OfClass(k)) = Count(ent, OfClass(k))
          /\ \A c \in Chans \cup {Global} :
                Count(new, LiveBans(c)) <= Count(ent, LiveBans(c))
                \/ (e.id[1] = "B" /\ e.live /\ ~ent[i].live /\ c = e.id[2]
                    /\ Count(new, LiveBans(c)) = Count(ent, LiveBans(c)) + 1)
      <3>. HIDE DEF new
      <3>. QED BY <2>1, <2>6, Replaced DEF bans
    <2>3. put_existing(s, i, e) = Built(new, L)
      BY <1>1, <1>2, <1>4, <2>2 DEF Built
    <2>4. Fits(new)
      <3>1. \A k \in DOMAIN Cap : Count(new, OfClass(k)) <= Cap[k]
        BY <2>2 DEF Vector, Fits
      <3>2. ASSUME NEW c \in Chans \cup {Global} PROVE Count(new, LiveBans(c)) <= ban_ceiling(c)
        <4>1. Count(ent, LiveBans(c)) <= ban_ceiling(c) /\ ban_ceiling(c) \in Nat
          BY ChannelStoreAssumption DEF Vector, Fits, ban_ceiling
        <4>2. Count(ent, LiveBans(c)) \in Nat /\ Count(new, LiveBans(c)) \in Nat
          BY <2>2, CountFinite DEF Vector
        <4>3. CASE Count(new, LiveBans(c)) <= Count(ent, LiveBans(c))
          BY <4>1, <4>2, <4>3
        <4>4. CASE e.id[1] = "B" /\ e.live /\ ~ent[i].live /\ c = e.id[2]
                   /\ Count(new, LiveBans(c)) = Count(ent, LiveBans(c)) + 1
          <5>1. ~(BanCounts(ent)[c] >= ban_ceiling(c))
            BY <4>4, <1>4 DEF stop
          <5>2. BanCounts(ent)[c] = Count(ent, LiveBans(c))
            BY DEF BanCounts
          <5>. QED BY <5>1, <5>2, <4>1, <4>2, <4>4
        <4>. QED BY <2>2, <4>3, <4>4
      <3>. QED BY <3>1, <3>2 DEF Fits
    <2>5. Vector(new)
      BY <2>2, <2>4 DEF Vector
    <2>. QED BY <2>1, <2>3, <2>5 DEF s
  <1>. QED BY <1>3, <1>4

(* evict_oldest_tombstone: one old tombstone of the class less, or none.   *)
LEMMA SwapRemoved ==
    ASSUME NEW ent, Vector(ent), NEW i \in 1 .. Len(ent), NEW new, new = swap_remove(ent, i)
    PROVE  /\ Vector(new) /\ Len(new) = Len(ent) - 1
           /\ \A j \in 1 .. Len(ent) : j # i => \E k \in 1 .. Len(new) : new[k] = ent[j]
           /\ \A k \in 1 .. Len(new) : \E j \in 1 .. Len(ent) : j # i /\ new[k] = ent[j]
  <1>1. ent \in Seq(Entry) /\ Distinct(ent) /\ Len(ent) \in Nat /\ Len(ent) >= 1
    BY DEF Vector
  <1>2. new \in Seq(Entry) /\ Len(new) = Len(ent) - 1
        /\ \A j \in 1 .. Len(new) : new[j] = IF j = i THEN ent[Len(ent)] ELSE ent[j]
    <2>1. new = [j \in 1 .. Len(ent) - 1 |-> IF j = i THEN ent[Len(ent)] ELSE ent[j]]
      BY DEF swap_remove
    <2>2. \A j \in 1 .. Len(ent) - 1 : new[j] \in Entry
      BY <1>1, <2>1
    <2>3. new \in Seq(Entry)
      BY <1>1, <2>1, <2>2
    <2>4. Len(new) = Len(ent) - 1
      BY <1>1, <2>1, <2>3
    <2>. QED BY <2>1, <2>3, <2>4
  <1>3. Distinct(new)
    <2>. SUFFICES ASSUME NEW j \in 1 .. Len(new), NEW k \in 1 .. Len(new), new[j].id = new[k].id PROVE j = k
      BY DEF Distinct
    <2>. DEFINE at(x) == IF x = i THEN Len(ent) ELSE x
    <2>1. at(j) \in 1 .. Len(ent) /\ at(k) \in 1 .. Len(ent) /\ new[j] = ent[at(j)] /\ new[k] = ent[at(k)]
      BY <1>1, <1>2
    <2>2. at(j) = at(k)
      BY <2>1, <1>1 DEF Distinct
    <2>. QED BY <2>2, <1>2
  <1>4. TakenFrom(new, ent)
    BY <1>1, <1>2 DEF TakenFrom
  <1>5. Vector(new)
    BY <1>2, <1>3, <1>4, TakenVector
  <1>6. ASSUME NEW j \in 1 .. Len(ent), j # i PROVE \E k \in 1 .. Len(new) : new[k] = ent[j]
    <2>1. CASE j = Len(ent)
      <3>1. i \in 1 .. Len(new) /\ new[i] = ent[j]
        BY <1>1, <1>2, <1>6, <2>1
      <3>. QED BY <3>1
    <2>2. CASE j # Len(ent)
      <3>1. j \in 1 .. Len(new) /\ new[j] = ent[j]
        BY <1>1, <1>2, <1>6, <2>2
      <3>. QED BY <3>1
    <2>. QED BY <2>1, <2>2
  <1>7. ASSUME NEW k \in 1 .. Len(new) PROVE \E j \in 1 .. Len(ent) : j # i /\ new[k] = ent[j]
    <2>1. CASE k = i
      BY <1>1, <1>2, <2>1
    <2>2. CASE k # i
      BY <1>1, <1>2, <2>2
    <2>. QED BY <2>1, <2>2
  <1>. QED BY <1>2, <1>5, <1>6, <1>7

(* A write to the settings or the bans keeps the live channels and, by     *)
(* identity, all that is young.                                            *)
Keeps(ent, new) == Vector(new) /\ LiveChans(ent) \subseteq LiveChans(new) /\ Young(ent) \subseteq Young(new)

(* What a write keeps, by steps: nothing done, and one after another.      *)
LEMMA KeepsSelf ==
    ASSUME NEW ent, Vector(ent)
    PROVE  Keeps(ent, ent)
  BY DEF Keeps

LEMMA KeepsOn ==
    ASSUME NEW a, NEW b, NEW c, Keeps(a, b), Keeps(b, c)
    PROVE  Keeps(a, c)
  BY DEF Keeps

(* evict_oldest_tombstone: index and counts stay exact, no young stamp goes.*)
LEMMA EvictKeeps ==
    ASSUME NEW ent, Vector(ent), NEW L, NEW k, k # "old", ClockOK
    PROVE  \E new : /\ evict_oldest_tombstone(Built(ent, L), k) = Built(new, L)
                    /\ Keeps(ent, new) /\ TakenFrom(new, ent)
  <1>. DEFINE s == Built(ent, L)
              old == Evictable(s, k)
              first(i) == \A j \in old : ent[i].ts < ent[j].ts \/ (ent[i].ts = ent[j].ts /\ i <= j)
              i == CHOOSE i \in old : first(i)
  <1>1. old = {j \in 1 .. Len(ent) : Class(ent[j].id) = k /\ ~ent[j].live /\ ent[j].ts <= clock - Keep}
    BY DEF Evictable, Built
  <1>2. evict_oldest_tombstone(s, k) = IF old = {} THEN s ELSE Built(swap_remove(ent, i), L)
    BY DEF evict_oldest_tombstone, global_reindex, Built
  <1>3. CASE old = {}
    <2>1. TakenFrom(ent, ent)
      BY DEF TakenFrom
    <2>. QED BY <1>2, <1>3, <2>1, KeepsSelf
  <1>4. CASE old # {}
    <2>1. \A j \in old : j \in 1 .. Len(ent) /\ j \in Nat /\ ent[j].ts \in Nat
      BY <1>1, EntryForm DEF Vector, Stamps
    <2>. HIDE DEF old
    <2>2. \E j \in old : first(j)
      <3>. DEFINE T == [j \in old |-> ent[j].ts]
      <3>1. \A j \in old : T[j] \in Nat
        BY <2>1
      <3>. HIDE DEF T
      <3>2. PICK m \in old : \A j \in old : T[m] <= T[j]
        BY <1>4, <3>1, LeastOf
      <3>. DEFINE low == {j \in old : ent[j].ts = ent[m].ts}
                  U == [j \in low |-> j]
      <3>3. m \in low /\ \A j \in low : U[j] \in Nat
        BY <2>1
      <3>. HIDE DEF low, U
      <3>4. PICK f \in low : \A j \in low : U[f] <= U[j]
        BY <3>3, LeastOf
      <3>5. ASSUME NEW j \in old PROVE ent[f].ts < ent[j].ts \/ (ent[f].ts = ent[j].ts /\ f <= j)
        <4>1. ent[f].ts = ent[m].ts /\ ent[m].ts <= ent[j].ts /\ f \in old
          BY <3>2 DEF T, low
        <4>2. j \in low => f <= j
          BY <3>4 DEF U
        <4>. QED BY <4>1, <4>2, <2>1 DEF low
      <3>. QED BY <3>5 DEF low
    <2>3. i \in old
      BY <2>2
    <2>. HIDE DEF i, first
    <2>. DEFINE new == swap_remove(ent, i)
    <2>4. i \in 1 .. Len(ent)
      BY <2>1, <2>3
    <2>. HIDE DEF new
    <2>5. /\ Vector(new)
          /\ \A j \in 1 .. Len(ent) : j # i => \E x \in 1 .. Len(new) : new[x] = ent[j]
          /\ \A x \in 1 .. Len(new) : \E j \in 1 .. Len(ent) : j # i /\ new[x] = ent[j]
      BY <2>4, SwapRemoved DEF new
    <2>6. Class(ent[i].id) # "old" /\ ~(ent[i].ts > clock - Keep)
      <3>1. Class(ent[i].id) = k /\ ent[i].ts <= clock - Keep
        BY <2>3, <1>1
      <3>2. ent[i].ts \in Nat /\ clock - Keep \in Int
        BY <2>1, <2>3, ChannelStoreAssumption DEF ClockOK
      <3>. QED BY <3>1, <3>2
    <2>7. LiveChans(ent) \subseteq LiveChans(new)
      <3>. SUFFICES ASSUME NEW c \in Chans, NEW j \in 1 .. Len(ent), ent[j].id = <<"c", c, "">>, ent[j].live
                    PROVE  \E x \in 1 .. Len(new) : new[x].id = <<"c", c, "">> /\ new[x].live
        BY DEF LiveChans
      <3>2. ent[j].id[1] = "c"
        BY ChanKey
      <3>3. Class(ent[j].id) = "old"
        BY <3>2 DEF Class
      <3>1. j # i
        BY <2>6, <3>3
      <3>. QED BY <3>1, <2>5
    <2>8. Young(ent) \subseteq Young(new)
      <3>. SUFFICES ASSUME NEW j \in 1 .. Len(ent), ent[j].ts > clock - Keep
                    PROVE  ent[j].id \in Young(new)
        BY DEF Young
      <3>1. j # i
        BY <2>6
      <3>2. PICK x \in 1 .. Len(new) : new[x] = ent[j]
        BY <3>1, <2>5
      <3>. QED BY <3>2 DEF Young
    <2>9. TakenFrom(new, ent)
      BY <2>5 DEF TakenFrom
    <2>10. evict_oldest_tombstone(s, k) = Built(new, L)
      BY <1>2, <1>4 DEF new
    <2>. QED BY <2>5, <2>7, <2>8, <2>9, <2>10 DEF Keeps
  <1>. QED BY <1>3, <1>4

(* A record that comes in beside the others.                               *)
LEMMA AppendKeeps ==
    ASSUME NEW ent, Vector(ent), NEW L, NEW e \in Entry, \A i \in 1 .. Len(ent) : ent[i].id # e.id,
           Count(ent, OfClass(Class(e.id))) < Cap[Class(e.id)],
           e.id[1] = "B" /\ e.live => Count(ent, LiveBans(e.id[2])) < ban_ceiling(e.id[2])
    PROVE  global_note_new(Built(ent, L), e) = Built(Append(ent, e), L) /\ Keeps(ent, Append(ent, e))
  <1>. DEFINE new == Append(ent, e)
  <1>1. global_note_new(Built(ent, L), e) = Built(new, L) /\ new \in Seq(Entry) /\ Distinct(new)
    BY NoteNew
  <1>2. ent \in Seq(Entry)
    BY DEF Vector
  <1>3. Len(new) = Len(ent) + 1 /\ \A i \in 1 .. Len(ent) : i \in 1 .. Len(new) /\ new[i] = ent[i]
    BY <1>2
  <1>4. \A c \in Chans \cup {Global} : Count(new, LiveBans(c)) <= ban_ceiling(c)
    <2>. TAKE c \in Chans \cup {Global}
    <2>1. Count(ent, LiveBans(c)) <= ban_ceiling(c) /\ ban_ceiling(c) \in Nat /\ Count(ent, LiveBans(c)) \in Nat
      BY <1>2, CountFinite, ChannelStoreAssumption DEF Vector, Fits, ban_ceiling
    <2>2. Count(new, LiveBans(c)) = IF e \in LiveBans(c) THEN Count(ent, LiveBans(c)) + 1 ELSE Count(ent, LiveBans(c))
      BY <1>2, CountAppend
    <2>3. e \in LiveBans(c) => Count(ent, LiveBans(c)) < ban_ceiling(c)
      BY Belongs
    <2>. QED BY <2>1, <2>2, <2>3
  <1>5. \A k \in DOMAIN Cap : Count(new, OfClass(k)) <= Cap[k]
    <2>. TAKE k \in DOMAIN Cap
    <2>4. Count(ent, OfClass(k)) <= Cap[k] /\ Count(ent, OfClass(k)) \in Nat
      BY <1>2, CountFinite DEF Vector, Fits
    <2>1. Count(ent, OfClass(k)) <= Cap[k] /\ Cap[k] \in Nat /\ Count(ent, OfClass(k)) \in Nat
      BY <2>4, ChannelStoreAssumption DEF Cap
    <2>2. Count(new, OfClass(k)) = IF e \in OfClass(k) THEN Count(ent, OfClass(k)) + 1 ELSE Count(ent, OfClass(k))
      BY <1>2, CountAppend
    <2>3. e \in OfClass(k) => Count(ent, OfClass(k)) < Cap[k]
      BY Belongs
    <2>. QED BY <2>1, <2>2, <2>3
  <1>. HIDE DEF new
  <1>6. Vector(new)
    BY <1>1, <1>4, <1>5 DEF Vector, Fits
  <1>7. LiveChans(ent) \subseteq LiveChans(new)
    BY <1>3 DEF LiveChans
  <1>8. Young(ent) \subseteq Young(new)
    BY <1>3 DEF Young
  <1>. QED BY <1>1, <1>6, <1>7, <1>8 DEF Keeps, new

(* An accepted version in place of the one that was there.                 *)
LEMMA EditKeeps ==
    ASSUME NEW ent, Vector(ent), NEW i \in 1 .. Len(ent), NEW e \in Entry, e.id = ent[i].id, accepts(e, ent[i]),
           NEW new, Vector(new), EditedAt(ent, i, e, new), ClockOK
    PROVE  /\ Young(ent) \subseteq Young(new)
           /\ \A c \in Chans : c \in LiveChans(ent) /\ e.id # <<"c", c, "">> => c \in LiveChans(new)
  <1>1. \A j \in 1 .. Len(ent) : j \in 1 .. Len(new) /\ new[j] = IF j = i THEN e ELSE ent[j]
    BY DEF EditedAt
  <1>2. ent[i] \in Entry
    BY DEF Vector
  <1>3. e.ts \in Nat /\ ent[i].ts \in Nat /\ e.ts >= ent[i].ts
    BY <1>2, EntryForm DEF accepts, Stamps
  <1>4. ASSUME NEW j \in 1 .. Len(ent), ent[j].ts > clock - Keep PROVE ent[j].id \in Young(new)
    <2>1. CASE j = i
      <3>2. new[j].ts = e.ts /\ new[j].id = ent[j].id /\ e.ts >= ent[j].ts
        BY <2>1, <1>1, <1>3
      <3>3. clock - Keep \in Int
        BY ChannelStoreAssumption DEF ClockOK
      <3>4. e.ts > clock - Keep
        BY <2>1, <3>3, <1>3, <1>4
      <3>1. new[j].ts > clock - Keep /\ new[j].id = ent[j].id
        BY <3>2, <3>4
      <3>. QED BY <3>1, <1>1 DEF Young
    <2>2. CASE j # i
      BY <2>2, <1>1, <1>4 DEF Young
    <2>. QED BY <2>1, <2>2
  <1>5. Young(ent) \subseteq Young(new)
    BY <1>4 DEF Young
  <1>6. ASSUME NEW c \in Chans, c \in LiveChans(ent), e.id # <<"c", c, "">> PROVE c \in LiveChans(new)
    <2>1. PICK j \in 1 .. Len(ent) : ent[j].id = <<"c", c, "">> /\ ent[j].live
      BY <1>6 DEF LiveChans
    <2>2. j # i
      BY <1>6, <2>1
    <2>. QED BY <2>1, <2>2, <1>1 DEF LiveChans
  <1>. QED BY <1>5, <1>6

(* put_record, for settings and bans.                                      *)
LEMMA PutRecord ==
    ASSUME NEW ent, Vector(ent), NEW L, ClockOK, NEW e \in Written, e.id[1] # "c"
    PROVE  \E new : put_record(Built(ent, L), e) = Built(new, L) /\ Keeps(ent, new)
  <1>. DEFINE s == Built(ent, L)
              i == global_find(s, e.id)
              s1 == IF global_room(s, e.id) THEN s ELSE evict_oldest_tombstone(s, Class(e.id))
              shut == \/ ~e.live /\ purge_floor_blocks(e.ts)
                      \/ e.id[1] = "B" /\ e.live /\ BanCounts(ent)[e.id[2]] >= ban_ceiling(e.id[2])
  <1>1. put_record(s, e) = IF ts_ahead(e.ts) THEN s ELSE IF i # 0 THEN put_existing(s, i, e)
                           ELSE IF shut THEN s ELSE IF global_room(s1, e.id) THEN global_note_new(s1, e) ELSE s1
    BY DEF put_record, Built
  <1>2. e.id \in Ids /\ e.live \in BOOLEAN
    BY DEF Written
  <1>3. \/ i = 0 /\ \A j \in 1 .. Len(ent) : ent[j].id # e.id
        \/ i \in 1 .. Len(ent) /\ ent[i].id = e.id
    BY FindAt
  <1>4. Class(e.id) # "old" /\ Class(e.id) \in DOMAIN Cap /\ e.id[2] \in Chans \cup {Global}
    BY <1>2, IdForm
  <1>5. \A x : Keeps(ent, ent)
    BY KeepsSelf
  <1>6. PICK mid : s1 = Built(mid, L) /\ Keeps(ent, mid) /\ TakenFrom(mid, ent)
    <2>1. TakenFrom(ent, ent)
      BY DEF TakenFrom
    <2>2. CASE global_room(s, e.id)
      BY <2>1, <2>2, <1>5
    <2>3. CASE ~global_room(s, e.id)
      <3>. HIDE DEF s
      <3>1. s1 = evict_oldest_tombstone(s, Class(e.id))
        BY <2>3
      <3>. QED BY <3>1, <1>4, EvictKeeps DEF s
    <2>. QED BY <2>2, <2>3
  <1>. HIDE DEF s1, i, shut, s
  <1>7. CASE ts_ahead(e.ts)
    BY <1>1, <1>5, <1>7 DEF s
  <1>8. CASE ~ts_ahead(e.ts) /\ i # 0
    <2>1. i \in 1 .. Len(ent) /\ ent[i].id = e.id /\ put_record(s, e) = put_existing(s, i, e)
      BY <1>1, <1>3, <1>8
    <2>2. CASE put_existing(s, i, e) = s
      BY <2>1, <2>2, <1>5 DEF s
    <2>3. CASE /\ put_existing(s, i, e) = Built([ent EXCEPT ![i] = e], L)
               /\ e \in Entry /\ accepts(e, ent[i]) /\ Vector([ent EXCEPT ![i] = e])
      <3>. DEFINE new == [ent EXCEPT ![i] = e]
      <3>1. EditedAt(ent, i, e, new)
        BY <2>1 DEF EditedAt, Vector
      <3>. HIDE DEF new
      <3>2. Vector(new) /\ put_record(s, e) = Built(new, L)
        BY <2>1, <2>3 DEF new
      <3>3. Young(ent) \subseteq Young(new)
            /\ \A c \in Chans : c \in LiveChans(ent) /\ e.id # <<"c", c, "">> => c \in LiveChans(new)
        BY <2>1, <2>3, <3>1, <3>2, EditKeeps
      <3>4. \A c : e.id # <<"c", c, "">>
        BY ChanKey
      <3>5. LiveChans(ent) \subseteq LiveChans(new)
        BY <3>3, <3>4 DEF LiveChans
      <3>. QED BY <3>2, <3>3, <3>5 DEF Keeps, s
    <2>. QED BY <2>1, <2>2, <2>3, PutExisting DEF s
  <1>9. CASE ~ts_ahead(e.ts) /\ i = 0 /\ shut
    BY <1>1, <1>5, <1>9 DEF s
  <1>10. CASE ~ts_ahead(e.ts) /\ i = 0 /\ ~shut /\ ~global_room(s1, e.id)
    BY <1>1, <1>6, <1>10 DEF s
  <1>11. CASE ~ts_ahead(e.ts) /\ i = 0 /\ ~shut /\ global_room(s1, e.id)
    <2>1. e \in Entry
      BY <1>11, InReach
    <2>2. Vector(mid) /\ mid \in Seq(Entry) /\ ent \in Seq(Entry) /\ Distinct(mid)
      BY <1>6 DEF Keeps, Vector
    <2>3. \A j \in 1 .. Len(mid) : mid[j].id # e.id
      <3>1. \A j \in 1 .. Len(ent) : ent[j].id # e.id
        BY <1>3, <1>11
      <3>. QED BY <3>1, <1>6 DEF TakenFrom
    <2>4. Count(mid, OfClass(Class(e.id))) < Cap[Class(e.id)]
      <3>1. s1.n[Class(e.id)] < Cap[Class(e.id)]
        BY <1>11 DEF global_room
      <3>2. s1.n = ClassCounts(mid)
        BY <1>6 DEF Built
      <3>. QED BY <3>1, <3>2, <1>4 DEF ClassCounts
    <2>5. ASSUME e.id[1] = "B" /\ e.live PROVE Count(mid, LiveBans(e.id[2])) < ban_ceiling(e.id[2])
      <3>1. ~(BanCounts(ent)[e.id[2]] >= ban_ceiling(e.id[2]))
        BY <2>5, <1>11 DEF shut
      <3>2. BanCounts(ent)[e.id[2]] = Count(ent, LiveBans(e.id[2]))
        BY <1>4 DEF BanCounts
      <3>3. Count(mid, LiveBans(e.id[2])) <= Count(ent, LiveBans(e.id[2]))
        BY <2>2, <1>6, CountTaken
      <3>4. Count(mid, LiveBans(e.id[2])) \in Nat /\ Count(ent, LiveBans(e.id[2])) \in Nat /\ ban_ceiling(e.id[2]) \in Nat
        BY <2>2, CountFinite, ChannelStoreAssumption DEF ban_ceiling
      <3>. QED BY <3>1, <3>2, <3>3, <3>4
    <2>6. global_note_new(Built(mid, L), e) = Built(Append(mid, e), L) /\ Keeps(mid, Append(mid, e))
      BY <2>1, <2>2, <2>3, <2>4, <2>5, AppendKeeps
    <2>7. Keeps(ent, Append(mid, e))
      BY <1>6, <2>6, KeepsOn
    <2>8. put_record(s, e) = global_note_new(s1, e)
      BY <1>1, <1>11
    <2>. QED BY <2>6, <2>7, <2>8, <1>6 DEF s
  <1>. QED BY <1>7, <1>8, <1>9, <1>10, <1>11

(* One record of Retain.                                                   *)
Retain1(ent, S, q, n) == IF ent[n] \in S THEN Append(q, ent[n]) ELSE q

(* Retain, record by record.                                               *)
LEMMA RetainRun ==
    ASSUME NEW ent \in Seq(Entry), NEW S
    PROVE  \E f : /\ f[0] = <<>> /\ Retain(ent, S) = f[Len(ent)]
                  /\ \A n \in 0 .. Len(ent) - 1 : f[n + 1] = Retain1(ent, S, f[n], n + 1)
  <1>. DEFINE Run(f, m) == f = [n \in 0 .. m |-> IF n = 0 THEN <<>> ELSE Retain1(ent, S, f[n - 1], n)]
              G == {m \in 0 .. Len(ent) : \E f : Run(f, m)}
  <1>1. Len(ent) \in Nat
    OBVIOUS
  <1>2. 0 \in G
    <2>. DEFINE e == [n \in 0 .. 0 |-> <<>>]
    <2>1. Run(e, 0)
      OBVIOUS
    <2>. HIDE DEF e
    <2>2. \E f : Run(f, 0)
      BY <2>1
    <2>. QED BY <1>1, <2>2
  <1>3. ASSUME NEW k \in 0 .. Len(ent) - 1, k \in G PROVE k + 1 \in G
    <2>1. PICK f : Run(f, k)
      BY <1>3
    <2>. DEFINE g == [n \in 0 .. k + 1 |-> IF n <= k THEN f[n] ELSE Retain1(ent, S, f[k], k + 1)]
    <2>2. ASSUME NEW n \in 0 .. k + 1
          PROVE  g[n] = IF n = 0 THEN <<>> ELSE Retain1(ent, S, g[n - 1], n)
      <3>1. CASE n = 0
        BY <3>1, <2>1
      <3>2. CASE n \in 1 .. k
        <4>1. g[n] = f[n] /\ g[n - 1] = f[n - 1]
          BY <3>2
        <4>2. f[n] = Retain1(ent, S, f[n - 1], n)
          BY <2>1, <3>2
        <4>. QED BY <4>1, <4>2, <3>2
      <3>3. CASE n = k + 1
        <4>1. g[n] = (Retain1(ent, S, f[k], k + 1)) /\ g[n - 1] = f[k]
          BY <3>3
        <4>. QED BY <4>1, <3>3
      <3>. QED BY <3>1, <3>2, <3>3
    <2>3. Run(g, k + 1)
      BY <2>2
    <2>. HIDE DEF g
    <2>4. \E e : Run(e, k + 1)
      BY <2>3
    <2>. QED BY <2>4, <1>1
  <1>. HIDE DEF G
  <1>4. Len(ent) \in G
    BY <1>1, <1>2, <1>3, Induct
  <1>. USE DEF G
  <1>. DEFINE f == CHOOSE e : Run(e, Len(ent))
  <1>5. Run(f, Len(ent))
    BY <1>4
  <1>6. Retain(ent, S) = f[Len(ent)]
    BY DEF Retain, Retain1
  <1>. HIDE DEF f
  <1>7. f[0] = <<>> /\ \A n \in 0 .. Len(ent) - 1 : f[n + 1] = Retain1(ent, S, f[n], n + 1)
    BY <1>1, <1>5
  <1>. QED BY <1>6, <1>7

(* The puts of a row, one after the other.                                 *)
LEMMA PutAllRun ==
    ASSUME NEW es \in Seq(Written), NEW s
    PROVE  \E f : /\ f[0] = s /\ PutAll(s, es) = f[Len(es)]
                  /\ \A n \in 0 .. Len(es) - 1 : f[n + 1] = put_record(f[n], es[n + 1])
  <1>. DEFINE Run(f, m) == f = [n \in 0 .. m |-> IF n = 0 THEN s ELSE put_record(f[n - 1], es[n])]
              G == {m \in 0 .. Len(es) : \E f : Run(f, m)}
  <1>1. Len(es) \in Nat
    OBVIOUS
  <1>2. 0 \in G
    <2>. DEFINE e == [n \in 0 .. 0 |-> s]
    <2>1. Run(e, 0)
      OBVIOUS
    <2>. HIDE DEF e
    <2>2. \E f : Run(f, 0)
      BY <2>1
    <2>. QED BY <1>1, <2>2
  <1>3. ASSUME NEW k \in 0 .. Len(es) - 1, k \in G PROVE k + 1 \in G
    <2>1. PICK f : Run(f, k)
      BY <1>3
    <2>. DEFINE g == [n \in 0 .. k + 1 |-> IF n <= k THEN f[n] ELSE put_record(f[k], es[k + 1])]
    <2>2. ASSUME NEW n \in 0 .. k + 1
          PROVE  g[n] = IF n = 0 THEN s ELSE put_record(g[n - 1], es[n])
      <3>1. CASE n = 0
        BY <3>1, <2>1
      <3>2. CASE n \in 1 .. k
        <4>1. g[n] = f[n] /\ g[n - 1] = f[n - 1]
          BY <3>2
        <4>2. f[n] = put_record(f[n - 1], es[n])
          BY <2>1, <3>2
        <4>. QED BY <4>1, <4>2, <3>2
      <3>3. CASE n = k + 1
        <4>1. g[n] = (put_record(f[k], es[k + 1])) /\ g[n - 1] = f[k]
          BY <3>3
        <4>. QED BY <4>1, <3>3
      <3>. QED BY <3>1, <3>2, <3>3
    <2>3. Run(g, k + 1)
      BY <2>2
    <2>. HIDE DEF g
    <2>4. \E e : Run(e, k + 1)
      BY <2>3
    <2>. QED BY <2>4, <1>1
  <1>. HIDE DEF G
  <1>4. Len(es) \in G
    BY <1>1, <1>2, <1>3, Induct
  <1>. USE DEF G
  <1>. DEFINE f == CHOOSE e : Run(e, Len(es))
  <1>5. Run(f, Len(es))
    BY <1>4
  <1>6. PutAll(s, es) = f[Len(es)]
    BY DEF PutAll
  <1>. HIDE DEF f
  <1>7. f[0] = s /\ \A n \in 0 .. Len(es) - 1 : f[n + 1] = put_record(f[n], es[n + 1])
    BY <1>1, <1>5
  <1>. QED BY <1>6, <1>7

(* What Retain keeps: the records that are in the set, each once.          *)
Filtered(r, ent, S) ==
    /\ r \in Seq(Entry) /\ Distinct(r) /\ TakenFrom(r, ent)
    /\ \A k \in 1 .. Len(r) : r[k] \in S
    /\ \A i \in 1 .. Len(ent) : ent[i] \in S => \E k \in 1 .. Len(r) : r[k] = ent[i]
LEMMA Retained ==
    ASSUME NEW ent \in Seq(Entry), Distinct(ent), NEW S, NEW r, r = Retain(ent, S)
    PROVE  Filtered(r, ent, S)
  <1>1. PICK f : /\ f[0] = <<>> /\ Retain(ent, S) = f[Len(ent)]
                 /\ \A n \in 0 .. Len(ent) - 1 :
                      f[n + 1] = Retain1(ent, S, f[n], n + 1)
    BY RetainRun
  <1>. DEFINE Holds(q, n) ==
                /\ q \in Seq(Entry) /\ Distinct(q)
                /\ \A k \in 1 .. Len(q) : q[k] \in S /\ \E i \in 1 .. n : q[k] = ent[i]
                /\ \A i \in 1 .. n : ent[i] \in S => \E k \in 1 .. Len(q) : q[k] = ent[i]
              G == {n \in 0 .. Len(ent) : Holds(f[n], n)}
  <1>2. Len(ent) \in Nat
    OBVIOUS
  <1>3. 0 \in G
    <2>1. Holds(<<>>, 0)
      BY DEF Distinct
    <2>2. Holds(f[0], 0)
      BY <2>1, <1>1
    <2>. HIDE DEF Holds
    <2>. QED BY <2>2, <1>2
  <1>4. ASSUME NEW n \in 0 .. Len(ent) - 1, n \in G PROVE n + 1 \in G
    <2>. DEFINE q == f[n]
                e == ent[n + 1]
    <2>1. Holds(q, n) /\ n + 1 \in 1 .. Len(ent) /\ e \in Entry
      BY <1>4
    <2>2. f[n + 1] = IF e \in S THEN Append(q, e) ELSE q
      BY <1>1 DEF Retain1
    <2>. HIDE DEF q
    <2>3. CASE e \notin S
      <3>1. Holds(q, n + 1)
        BY <2>1, <2>3
      <3>2. f[n + 1] = q
        BY <2>2, <2>3
      <3>. HIDE DEF Holds
      <3>. QED BY <3>1, <3>2, <2>1
    <2>4. CASE e \in S
      <3>. DEFINE p == Append(q, e)
      <3>1. p \in Seq(Entry) /\ Len(p) = Len(q) + 1 /\ p[Len(q) + 1] = e /\ \A k \in 1 .. Len(q) : p[k] = q[k]
        BY <2>1
      <3>2. \A k \in 1 .. Len(q) : q[k].id # e.id
        <4>. TAKE k \in 1 .. Len(q)
        <4>1. PICK i \in 1 .. n : q[k] = ent[i]
          BY <2>1
        <4>2. i \in 1 .. Len(ent) /\ i # n + 1
          BY <2>1
        <4>. QED BY <4>1, <4>2, <2>1 DEF Distinct
      <3>. HIDE DEF p, e
      <3>6. Len(q) \in Nat
        BY <2>1
      <3>7. \A k \in 1 .. Len(p) : k \in 1 .. Len(q) \/ k = Len(q) + 1
        BY <3>1, <3>6
      <3>3. Distinct(p)
        BY <2>1, <3>1, <3>2, <3>6, <3>7 DEF Distinct
      <3>4. \A k \in 1 .. Len(p) : p[k] \in S /\ \E i \in 1 .. n + 1 : p[k] = ent[i]
        <4>. TAKE k \in 1 .. Len(p)
        <4>1. CASE k \in 1 .. Len(q)
          <5>1. PICK i \in 1 .. n : q[k] = ent[i]
            BY <4>1, <2>1
          <5>2. p[k] = q[k] /\ q[k] \in S /\ i \in 1 .. n + 1
            BY <4>1, <2>1, <3>1
          <5>. QED BY <5>1, <5>2
        <4>2. CASE k = Len(q) + 1
          <5>1. p[k] = ent[n + 1] /\ n + 1 \in 1 .. n + 1
            BY <4>2, <3>1 DEF e
          <5>. QED BY <5>1, <2>4 DEF e
        <4>. QED BY <4>1, <4>2, <3>7
      <3>5. \A i \in 1 .. n + 1 : ent[i] \in S => \E k \in 1 .. Len(p) : p[k] = ent[i]
        <4>. SUFFICES ASSUME NEW i \in 1 .. n + 1, ent[i] \in S PROVE \E k \in 1 .. Len(p) : p[k] = ent[i]
          OBVIOUS
        <4>1. CASE i \in 1 .. n
          <5>1. PICK k \in 1 .. Len(q) : q[k] = ent[i]
            BY <4>1, <2>1
          <5>2. k \in 1 .. Len(p) /\ p[k] = ent[i]
            BY <5>1, <3>1, <3>6
          <5>. QED BY <5>2
        <4>2. CASE i = n + 1
          <5>1. Len(q) + 1 \in 1 .. Len(p) /\ p[Len(q) + 1] = ent[i]
            BY <4>2, <3>1, <3>6 DEF e
          <5>. QED BY <5>1
        <4>. QED BY <4>1, <4>2
      <3>8. f[n + 1] = p
        BY <2>2, <2>4 DEF p
      <3>9. Holds(p, n + 1)
        BY <3>1, <3>3, <3>4, <3>5
      <3>. HIDE DEF Holds
      <3>. QED BY <3>8, <3>9, <2>1
    <2>. QED BY <2>3, <2>4
  <1>. HIDE DEF G
  <1>5. Len(ent) \in G
    BY <1>2, <1>3, <1>4, Induct
  <1>6. Holds(r, Len(ent))
    <2>. HIDE DEF Holds
    <2>1. Holds(f[Len(ent)], Len(ent))
      BY <1>5 DEF G
    <2>. QED BY <1>1, <2>1
  <1>. QED BY <1>6 DEF TakenFrom, Filtered

(* Puts of settings and bans in a row.                                     *)
LEMMA PutAllKeeps ==
    ASSUME NEW ent, Vector(ent), NEW L, ClockOK, NEW es \in Seq(Written), \A n \in 1 .. Len(es) : es[n].id[1] # "c"
    PROVE  \E new : PutAll(Built(ent, L), es) = Built(new, L) /\ Keeps(ent, new)
  <1>1. PICK f : /\ f[0] = Built(ent, L) /\ PutAll(Built(ent, L), es) = f[Len(es)]
                 /\ \A n \in 0 .. Len(es) - 1 : f[n + 1] = put_record(f[n], es[n + 1])
    <2>. DEFINE s == Built(ent, L)
    <2>. HIDE DEF s
    <2>1. \E f : /\ f[0] = s /\ PutAll(s, es) = f[Len(es)]
                 /\ \A n \in 0 .. Len(es) - 1 : f[n + 1] = put_record(f[n], es[n + 1])
      BY PutAllRun
    <2>. QED BY <2>1 DEF s
  <1>. DEFINE G == {n \in 0 .. Len(es) : \E new : f[n] = Built(new, L) /\ Keeps(ent, new)}
  <1>2. Len(es) \in Nat
    OBVIOUS
  <1>3. 0 \in G
    BY <1>1, <1>2, KeepsSelf
  <1>4. ASSUME NEW n \in 0 .. Len(es) - 1, n \in G PROVE n + 1 \in G
    <2>1. PICK mid : f[n] = Built(mid, L) /\ Keeps(ent, mid)
      BY <1>4
    <2>2. n + 1 \in 1 .. Len(es) /\ es[n + 1] \in Written /\ es[n + 1].id[1] # "c"
      OBVIOUS
    <2>3. Vector(mid)
      BY <2>1 DEF Keeps
    <2>4. PICK new : put_record(Built(mid, L), es[n + 1]) = Built(new, L) /\ Keeps(mid, new)
      BY <2>2, <2>3, PutRecord
    <2>5. f[n + 1] = Built(new, L) /\ Keeps(ent, new)
      BY <1>1, <2>1, <2>4, KeepsOn
    <2>. QED BY <2>2, <2>5
  <1>. HIDE DEF G
  <1>5. Len(es) \in G
    BY <1>2, <1>3, <1>4, Induct
  <1>. QED BY <1>1, <1>5 DEF G

(* The deletes that take a channel's parts with it.                        *)
Dels(r, t) == [i \in DOMAIN r |-> [id |-> r[i].id, live |-> FALSE, ts |-> t, exp |-> 0]]

(* The deletes written for a row of entries.                               *)
LEMMA DelsForm ==
    ASSUME NEW r \in Seq(Entry), NEW t \in Nat \ {0}
    PROVE  /\ Dels(r, t) \in Seq(Written) /\ Len(Dels(r, t)) = Len(r)
           /\ \A n \in 1 .. Len(r) : Dels(r, t)[n] = [id |-> r[n].id, live |-> FALSE, ts |-> t, exp |-> 0]
  <1>1. DOMAIN r = 1 .. Len(r) /\ Len(r) \in Nat
    OBVIOUS
  <1>2. \A n \in 1 .. Len(r) : [id |-> r[n].id, live |-> FALSE, ts |-> t, exp |-> 0] \in Written
    BY EntryForm, ChannelStoreAssumption DEF Written, Expiry
  <1>. QED BY <1>1, <1>2 DEF Dels

(* chan_cascade_del: the learned state goes, then a row of puts of deletes.*)
LEMMA CascadeIs ==
    ASSUME NEW ent, Vector(ent), NEW L, NEW c, NEW t \in Nat \ {0}
    PROVE  /\ chan_cascade_del(Built(ent, L), c, t) = PutAll(Built(ent, L \ {c}), Dels(Retain(ent, PartsOf(c)), t))
           /\ Dels(Retain(ent, PartsOf(c)), t) \in Seq(Written)
           /\ \A n \in 1 .. Len(Dels(Retain(ent, PartsOf(c)), t)) : Dels(Retain(ent, PartsOf(c)), t)[n].id[1] # "c"
  <1>. DEFINE r == Retain(ent, PartsOf(c))
              s == Built(ent, L)
  <1>1. s.ent = ent
    BY DEF Built
  <1>2. [s EXCEPT !.learned = @ \ {c}] = Built(ent, L \ {c})
    BY DEF Built
  <1>3. chan_cascade_del(s, c, t) = PutAll([s EXCEPT !.learned = @ \ {c}], Dels(Retain(s.ent, PartsOf(c)), t))
    BY DEF chan_cascade_del, Deletes, Dels
  <1>4. r \in Seq(Entry) /\ \A n \in 1 .. Len(r) : r[n] \in PartsOf(c)
    <2>1. ent \in Seq(Entry) /\ Distinct(ent)
      BY DEF Vector
    <2>2. Filtered(r, ent, PartsOf(c))
      BY <2>1, Retained
    <2>. QED BY <2>2 DEF Filtered
  <1>. HIDE DEF s, r
  <1>5. /\ Dels(r, t) \in Seq(Written) /\ Len(Dels(r, t)) = Len(r)
        /\ \A n \in 1 .. Len(r) : Dels(r, t)[n] = [id |-> r[n].id, live |-> FALSE, ts |-> t, exp |-> 0]
    BY <1>4, DelsForm
  <1>6. \A n \in 1 .. Len(Dels(r, t)) : Dels(r, t)[n].id[1] # "c"
    <2>. TAKE n \in 1 .. Len(Dels(r, t))
    <2>2. n \in 1 .. Len(r)
      BY <1>5
    <2>3. Dels(r, t)[n] = [id |-> r[n].id, live |-> FALSE, ts |-> t, exp |-> 0]
      BY <2>2, <1>5
    <2>1. Dels(r, t)[n].id = r[n].id /\ r[n] \in PartsOf(c)
      BY <2>2, <2>3, <1>4
    <2>. QED BY <2>1 DEF PartsOf
  <1>. QED BY <1>1, <1>2, <1>3, <1>5, <1>6 DEF s, r

(* chan_cascade_del, whatever the stamp.                                   *)
LEMMA CascadeKeeps ==
    ASSUME NEW ent, Vector(ent), NEW L, ClockOK, NEW c, NEW t \in Nat \ {0}
    PROVE  \E new : chan_cascade_del(Built(ent, L), c, t) = Built(new, L \ {c}) /\ Keeps(ent, new)
  <1>. DEFINE es == Dels(Retain(ent, PartsOf(c)), t)
  <1>1. /\ chan_cascade_del(Built(ent, L), c, t) = PutAll(Built(ent, L \ {c}), es)
        /\ es \in Seq(Written) /\ \A n \in 1 .. Len(es) : es[n].id[1] # "c"
    BY CascadeIs
  <1>. HIDE DEF es
  <1>. QED BY <1>1, PutAllKeeps

(* A delete in reach of the clock and newer than the record it is of.      *)
LEMMA DeleteLands ==
    ASSUME NEW ent, Vector(ent), NEW L, ClockOK, NEW e \in Written, e.id[1] # "c", ~e.live, ~ts_ahead(e.ts),
           NEW i \in 1 .. Len(ent), ent[i].id = e.id, e.ts > ent[i].ts
    PROVE  \E new : /\ put_record(Built(ent, L), e) = Built(new, L) /\ Vector(new)
                    /\ EditedAt(ent, i, e, new)
  <1>. DEFINE s == Built(ent, L)
              new == [ent EXCEPT ![i] = e]
  <1>1. global_find(s, e.id) = i /\ i # 0
    BY Found
  <1>2. put_record(s, e) = put_existing(s, i, e)
    BY <1>1 DEF put_record
  <1>3. accepts(e, ent[i])
    BY DEF accepts
  <1>4. put_existing(s, i, e) # s \/ new = ent
    <2>1. e.live = FALSE
      BY DEF Written
    <2>2. put_existing(s, i, e).ent = new
      BY <1>3, <2>1 DEF put_existing, Built
    <2>3. s.ent = ent
      BY DEF Built
    <2>. QED BY <2>2, <2>3
  <1>5. EditedAt(ent, i, e, new) 
    BY DEF EditedAt, Vector
  <1>6. CASE put_existing(s, i, e) = s
    <2>1. new = ent
      BY <1>4, <1>6
    <2>2. EditedAt(ent, i, e, ent)
      BY <1>5, <2>1
    <2>. QED BY <1>2, <1>6, <2>2
  <1>7. CASE put_existing(s, i, e) # s
    <2>1. put_existing(s, i, e) = Built(new, L) /\ Vector(new)
      BY <1>7, PutExisting
    <2>. QED BY <2>1, <1>2, <1>5
  <1>. QED BY <1>6, <1>7

(* A stamp past those of a channel, and a vector without the live parts of *)
(* the channel.                                                            *)
Past(ent, c, t) == \A i \in 1 .. Len(ent) : ent[i].id[2] = c /\ ent[i].live => t > ent[i].ts
Rid(ent, c, new) ==
    /\ Len(new) = Len(ent)
    /\ \A i \in 1 .. Len(ent) :
         /\ new[i].id = ent[i].id /\ (new[i] = ent[i] \/ ~new[i].live)
         /\ ent[i].id[2] = c /\ ent[i].id[1] \in {"C", "B"} => ~new[i].live

(* The deletes of chan_cascade_del all land when their stamp is in reach   *)
(* and past every stamp of the channel.                                    *)
LEMMA CascadeLands ==
    ASSUME NEW ent, Vector(ent), NEW L, ClockOK, NEW c, NEW t \in Nat \ {0}, ~ts_ahead(t), Past(ent, c, t)
    PROVE  \E new : /\ chan_cascade_del(Built(ent, L), c, t) = Built(new, L \ {c})
                    /\ Vector(new) /\ Rid(ent, c, new)
  <1>. DEFINE r == Retain(ent, PartsOf(c))
              es == Dels(r, t)
              M == L \ {c}
              Del(id) == [id |-> id, live |-> FALSE, ts |-> t, exp |-> 0]
  <1>1. /\ chan_cascade_del(Built(ent, L), c, t) = PutAll(Built(ent, M), es) /\ es \in Seq(Written)
        /\ \A n \in 1 .. Len(es) : es[n].id[1] # "c"
    BY CascadeIs
  <1>2. ent \in Seq(Entry) /\ Distinct(ent) /\ Len(ent) \in Nat
    BY DEF Vector
  <1>. HIDE DEF r
  <1>3. /\ r \in Seq(Entry) /\ Distinct(r) /\ TakenFrom(r, ent) /\ \A k \in 1 .. Len(r) : r[k] \in PartsOf(c)
        /\ \A i \in 1 .. Len(ent) : ent[i] \in PartsOf(c) => \E k \in 1 .. Len(r) : r[k] = ent[i]
    <2>1. Filtered(r, ent, PartsOf(c))
      BY <1>2, Retained DEF r
    <2>. QED BY <2>1 DEF Filtered
  <1>4. Len(es) = Len(r) /\ \A n \in 1 .. Len(r) : es[n] = Del(r[n].id)
    BY <1>3, DelsForm
  <1>. HIDE DEF es, M
  <1>5. PICK f : /\ f[0] = Built(ent, M) /\ PutAll(Built(ent, M), es) = f[Len(es)]
                 /\ \A n \in 0 .. Len(es) - 1 : f[n + 1] = put_record(f[n], es[n + 1])
    BY <1>1, PutAllRun
  <1>. DEFINE Done(n) == {r[k].id : k \in 1 .. n}
              Holds(new, n) ==
                /\ Vector(new) /\ Len(new) = Len(ent)
                /\ \A i \in 1 .. Len(ent) : new[i] = IF ent[i].id \in Done(n) THEN Del(ent[i].id) ELSE ent[i]
              G == {n \in 0 .. Len(es) : \E new : f[n] = Built(new, M) /\ Holds(new, n)}
  <1>6. Len(es) \in Nat /\ Len(r) \in Nat
    BY <1>1, <1>4
  <1>7. 0 \in G
    <2>1. Done(0) = {}
      OBVIOUS
    <2>. HIDE DEF Done
    <2>2. Holds(ent, 0)
      BY <2>1
    <2>. HIDE DEF Holds
    <2>. QED BY <2>2, <1>5, <1>6
  <1>8. ASSUME NEW n \in 0 .. Len(es) - 1, n \in G PROVE n + 1 \in G
    <2>1. PICK mid : f[n] = Built(mid, M) /\ Holds(mid, n)
      BY <1>8
    <2>. DEFINE e == es[n + 1]
    <2>2. n + 1 \in 1 .. Len(r) /\ n + 1 \in 1 .. Len(es) /\ e = Del(r[n + 1].id) /\ e \in Written /\ e.id[1] # "c"
      BY <1>1, <1>4, <1>6
    <2>3. PICK i \in 1 .. Len(ent) : r[n + 1] = ent[i]
      BY <1>3, <2>2 DEF TakenFrom
    <2>4. ent[i].live /\ ent[i].id[2] = c
      BY <1>3, <2>2, <2>3 DEF PartsOf
    <2>5. ent[i].id \notin Done(n)
      <3>. SUFFICES ASSUME NEW k \in 1 .. n, r[k].id = r[n + 1].id PROVE FALSE
        BY <2>3
      <3>1. k \in 1 .. Len(r) /\ k # n + 1
        BY <2>2, <1>6
      <3>. QED BY <3>1, <1>3, <2>2 DEF Distinct
    <2>6. Done(n + 1) = Done(n) \cup {ent[i].id}
      BY <2>2, <2>3
    <2>7. Vector(mid) /\ Len(mid) = Len(ent)
          /\ \A j \in 1 .. Len(ent) : mid[j] = IF ent[j].id \in Done(n) THEN Del(ent[j].id) ELSE ent[j]
      BY <2>1
    <2>. HIDE DEF Done, e
    <2>8. mid[i] = ent[i] /\ i \in 1 .. Len(mid)
      BY <2>5, <2>7
    <2>9. e.id = ent[i].id /\ ~e.live /\ e.ts = t
      BY <2>2, <2>3
    <2>10. PICK new : /\ put_record(Built(mid, M), e) = Built(new, M) /\ Vector(new) /\ EditedAt(mid, i, e, new)
      <3>1. e.ts > mid[i].ts
        BY <2>4, <2>8, <2>9 DEF Past
      <3>. QED BY <2>2, <2>7, <2>8, <2>9, <3>1, DeleteLands
    <2>11. ASSUME NEW j \in 1 .. Len(ent)
           PROVE  new[j] = IF ent[j].id \in Done(n + 1) THEN Del(ent[j].id) ELSE ent[j]
      <3>1. CASE j = i
        BY <3>1, <2>2, <2>3, <2>6, <2>7, <2>10 DEF EditedAt
      <3>2. CASE j # i
        <4>1. new[j] = mid[j] /\ ent[j].id # ent[i].id
          BY <3>2, <2>7, <2>10, <1>2 DEF EditedAt, Distinct
        <4>. QED BY <4>1, <2>6, <2>7
      <3>. QED BY <3>1, <3>2
    <2>12. Holds(new, n + 1)
      BY <2>7, <2>10, <2>11 DEF EditedAt
    <2>13. f[n + 1] = Built(new, M)
      BY <1>5, <2>1, <2>10 DEF e
    <2>. HIDE DEF Holds
    <2>. QED BY <2>2, <2>12, <2>13
  <1>. HIDE DEF G
  <1>9. Len(es) \in G
    BY <1>6, <1>7, <1>8, Induct
  <1>10. PICK new : f[Len(es)] = Built(new, M) /\ Holds(new, Len(es))
    BY <1>9 DEF G
  <1>11. ASSUME NEW i \in 1 .. Len(ent)
         PROVE  /\ new[i].id = ent[i].id /\ (new[i] = ent[i] \/ ~new[i].live)
                /\ ent[i].id[2] = c /\ ent[i].id[1] \in {"C", "B"} => ~new[i].live
    <2>1. new[i] = IF ent[i].id \in Done(Len(es)) THEN Del(ent[i].id) ELSE ent[i]
      BY <1>10
    <2>2. ASSUME ent[i].id[2] = c, ent[i].id[1] \in {"C", "B"}, ent[i].live PROVE ent[i].id \in Done(Len(es))
      <3>1. ent[i] \in PartsOf(c)
        BY <2>2, <1>2 DEF PartsOf
      <3>2. PICK k \in 1 .. Len(r) : r[k] = ent[i]
        BY <3>1, <1>3
      <3>. QED BY <3>2, <1>4
    <2>. HIDE DEF Done
    <2>3. CASE ent[i].id \in Done(Len(es))
      BY <2>1, <2>3
    <2>4. CASE ent[i].id \notin Done(Len(es))
      BY <2>1, <2>2, <2>4
    <2>. QED BY <2>3, <2>4
  <1>12. Rid(ent, c, new)
    BY <1>10, <1>11 DEF Rid
  <1>. QED BY <1>1, <1>5, <1>10, <1>12 DEF M

(* An accepted c| version in place: the counts are as they were.           *)
LEMMA ChanEdit ==
    ASSUME NEW ent, Vector(ent), NEW L, NEW i \in 1 .. Len(ent), NEW e \in Entry, e.id = ent[i].id, e.id[1] = "c"
    PROVE  \E new : /\ [Built(ent, L) EXCEPT !.ent = [@ EXCEPT ![i] = e]] = Built(new, L)
                    /\ Vector(new) /\ EditedAt(ent, i, e, new)
  <1>. DEFINE s == Built(ent, L)
              new == [ent EXCEPT ![i] = e]
              t == [s EXCEPT !.ent = new]
  <1>1. new \in Seq(Entry) /\ EditedAt(ent, i, e, new)
    BY DEF Vector, EditedAt
  <1>2. [s EXCEPT !.ent = [@ EXCEPT ![i] = e]] = t
    BY DEF Built
  <1>3. t = [ent |-> new, map |-> Index(ent), n |-> ClassCounts(ent), bans |-> BanCounts(ent), learned |-> L]
    <2>. HIDE DEF new
    <2>. QED BY DEF Built
  <1>. HIDE DEF new
  <1>4. /\ Distinct(new) /\ Index(new) = Index(ent) /\ ClassCounts(new) = ClassCounts(ent)
        /\ BanCounts(new) = BanCounts(ent)
        /\ \A k \in DOMAIN Cap : Count(new, OfClass(k)) = Count(ent, OfClass(k))
    BY <1>1, Replaced
  <1>5. \A c \in Chans \cup {Global} : Count(new, LiveBans(c)) = Count(ent, LiveBans(c))
    BY <1>4 DEF BanCounts
  <1>6. Vector(new)
    BY <1>1, <1>4, <1>5 DEF Vector, Fits
  <1>7. t = Built(new, L)
    BY <1>3, <1>4 DEF Built
  <1>. HIDE DEF t
  <1>. QED BY <1>1, <1>2, <1>6, <1>7

(* A write to a channel: what was learned goes with the channel.           *)
Leads(ent, L, new, M) ==
    /\ Vector(new) /\ Young(ent) \subseteq Young(new)
    /\ M \subseteq L /\ (L \subseteq LiveChans(ent) => M \subseteq LiveChans(new))

(* update_global_entry, the cascade of a delete included.                  *)
LEMMA UpdateLeads ==
    ASSUME NEW ent, Vector(ent), NEW L \in SUBSET Chans, ClockOK, NEW e \in Written, e.id[1] = "c"
    PROVE  \E new, M : update_global_entry(Built(ent, L), e) = Built(new, M) /\ Leads(ent, L, new, M)
  <1>. DEFINE s == Built(ent, L)
              i == global_find(s, e.id)
              s1 == [s EXCEPT !.ent = [@ EXCEPT ![i] = e]]
  <1>1. s.ent = ent /\ e.live \in BOOLEAN /\ e.ts \in Nat \ {0} /\ e.id \in Ids
    BY DEF Built, Written
  <1>2. update_global_entry(s, e) =
          IF i # 0 THEN IF ~accepts(e, ent[i]) THEN s
                        ELSE IF e.live THEN s1 ELSE chan_cascade_del(s1, e.id[2], e.ts)
          ELSE IF ts_ahead(e.ts) \/ (~e.live /\ purge_floor_blocks(e.ts)) \/ ~global_room(s, e.id)
          THEN s ELSE global_note_new(s, e)
    BY <1>1 DEF update_global_entry
  <1>3. \/ i = 0 /\ \A j \in 1 .. Len(ent) : ent[j].id # e.id
        \/ i \in 1 .. Len(ent) /\ ent[i].id = e.id
    BY FindAt
  <1>4. Leads(ent, L, ent, L)
    BY DEF Leads
  <1>5. e.id[2] \in Chans /\ e.id = <<"c", e.id[2], "">> /\ Class(e.id) \in DOMAIN Cap
    BY <1>1, IdForm
  <1>. HIDE DEF s, i
  <1>6. CASE i # 0 /\ ~accepts(e, ent[i])
    BY <1>2, <1>4, <1>6 DEF s
  <1>7. CASE i # 0 /\ accepts(e, ent[i])
    <2>1. i \in 1 .. Len(ent) /\ ent[i].id = e.id /\ e \in Entry
      BY <1>3, <1>7, InReach DEF accepts
    <2>2. PICK mid : s1 = Built(mid, L) /\ Vector(mid) /\ EditedAt(ent, i, e, mid)
      BY <2>1, ChanEdit DEF s
    <2>3. /\ Young(ent) \subseteq Young(mid)
          /\ \A c \in Chans : c \in LiveChans(ent) /\ e.id # <<"c", c, "">> => c \in LiveChans(mid)
      BY <2>1, <2>2, <1>7, EditKeeps
    <2>4. \A c \in Chans : c # e.id[2] => e.id # <<"c", c, "">>
      BY ChanKey
    <2>. HIDE DEF s1
    <2>5. CASE e.live
      <3>1. e.id[2] \in LiveChans(mid)
        BY <2>1, <2>2, <2>5, <1>5 DEF EditedAt, LiveChans
      <3>2. LiveChans(ent) \subseteq LiveChans(mid)
        BY <2>3, <2>4, <3>1 DEF LiveChans
      <3>3. Leads(ent, L, mid, L)
        BY <2>2, <2>3, <3>2 DEF Leads
      <3>. QED BY <3>3, <2>2, <2>5, <1>2, <1>7 DEF s
    <2>6. CASE ~e.live
      <3>1. PICK new : chan_cascade_del(Built(mid, L), e.id[2], e.ts) = Built(new, L \ {e.id[2]}) /\ Keeps(mid, new)
        BY <2>2, <1>1, CascadeKeeps
      <3>2. L \subseteq LiveChans(ent) => L \ {e.id[2]} \subseteq LiveChans(new)
        BY <3>1, <2>3, <2>4 DEF Keeps
      <3>3. Leads(ent, L, new, L \ {e.id[2]})
        BY <2>3, <3>1, <3>2 DEF Leads, Keeps
      <3>4. update_global_entry(s, e) = Built(new, L \ {e.id[2]})
        BY <3>1, <2>2, <2>6, <1>2, <1>7
      <3>. QED BY <3>3, <3>4 DEF s
    <2>. QED BY <2>5, <2>6
  <1>8. CASE i = 0 /\ (ts_ahead(e.ts) \/ (~e.live /\ purge_floor_blocks(e.ts)) \/ ~global_room(s, e.id))
    BY <1>2, <1>4, <1>8 DEF s
  <1>9. CASE i = 0 /\ ~(ts_ahead(e.ts) \/ (~e.live /\ purge_floor_blocks(e.ts)) \/ ~global_room(s, e.id))
    <2>1. e \in Entry /\ \A j \in 1 .. Len(ent) : ent[j].id # e.id
      BY <1>3, <1>9, InReach
    <2>2. Count(ent, OfClass(Class(e.id))) < Cap[Class(e.id)]
      <3>1. s.n[Class(e.id)] < Cap[Class(e.id)]
        BY <1>9 DEF global_room
      <3>2. s.n = ClassCounts(ent)
        BY DEF s, Built
      <3>. QED BY <3>1, <3>2, <1>5 DEF ClassCounts
    <2>3. global_note_new(s, e) = Built(Append(ent, e), L) /\ Keeps(ent, Append(ent, e))
      BY <2>1, <2>2, AppendKeeps DEF s
    <2>4. Leads(ent, L, Append(ent, e), L)
      BY <2>3 DEF Leads, Keeps
    <2>5. update_global_entry(s, e) = global_note_new(s, e)
      BY <1>2, <1>9
    <2>. QED BY <2>3, <2>4, <2>5 DEF s
  <1>. QED BY <1>6, <1>7, <1>8, <1>9

(* Any write.                                                              *)
LEMMA PutLeads ==
    ASSUME NEW ent, Vector(ent), NEW L \in SUBSET Chans, ClockOK, NEW e \in Written
    PROVE  \E new, M : put(Built(ent, L), e) = Built(new, M) /\ Leads(ent, L, new, M)
  <1>1. CASE e.id[1] = "c"
    BY <1>1, UpdateLeads DEF put
  <1>2. CASE e.id[1] # "c"
    <2>1. PICK new : put_record(Built(ent, L), e) = Built(new, L) /\ Keeps(ent, new)
      BY <1>2, PutRecord
    <2>2. Leads(ent, L, new, L)
      BY <2>1 DEF Leads, Keeps
    <2>. QED BY <2>1, <2>2, <1>2 DEF put
  <1>. QED BY <1>1, <1>2

(* What a purge retains is a vector.                                       *)
LEMMA RetainedVector ==
    ASSUME NEW ent, Vector(ent), NEW S
    PROVE  Vector(Retain(ent, S))
  <1>. DEFINE r == Retain(ent, S)
  <1>1. ent \in Seq(Entry) /\ Distinct(ent)
    BY DEF Vector
  <1>. HIDE DEF r
  <1>2. r \in Seq(Entry) /\ Distinct(r) /\ TakenFrom(r, ent)
    <2>1. Filtered(r, ent, S)
      BY <1>1, Retained DEF r
    <2>. QED BY <2>1 DEF Filtered
  <1>3. Vector(r)
    BY <1>2, TakenVector
  <1>. QED BY <1>3 DEF r

(* No live part of a channel that is not live.                             *)
Whole(ent) ==
    \A i \in 1 .. Len(ent) : ent[i].live /\ ent[i].id[2] # Global => ent[i].id[2] \in LiveChans(ent)

(* purge_chan_orphans leaves nothing without its channel.                  *)
LEMMA OrphansGone ==
    ASSUME NEW ent, Vector(ent), NEW L \in SUBSET Chans
    PROVE  \E new : /\ purge_chan_orphans(Built(ent, L)) = Built(new, L \cap LiveChans(new))
                    /\ Vector(new) /\ Whole(new)
  <1>. DEFINE s == Built(ent, L)
              new == Retain(ent, Entry \ Orphans(s))
              s1 == IF new = ent THEN s ELSE Built(new, L)
  <1>0. ent \in Seq(Entry) /\ Distinct(ent)
    BY DEF Vector
  <1>1. purge_chan_orphans(s) = [s1 EXCEPT !.learned = {c \in @ : chan_live(s1, c)}]
    BY DEF purge_chan_orphans, Built, global_reindex
  <1>2. Vector(new)
    BY RetainedVector
  <1>3. s1 = Built(new, L)
    OBVIOUS
  <1>. HIDE DEF s1, new, s
  <1>4. {c \in L : chan_live(s1, c)} = L \cap LiveChans(new)
    BY <1>2, <1>3, ChanLive
  <1>5. purge_chan_orphans(s) = Built(new, L \cap LiveChans(new))
    BY <1>1, <1>3, <1>4 DEF Built
  <1>6. /\ new \in Seq(Entry) /\ TakenFrom(new, ent) /\ \A k \in 1 .. Len(new) : new[k] \in Entry \ Orphans(s)
        /\ \A i \in 1 .. Len(ent) : ent[i] \in Entry \ Orphans(s) => \E k \in 1 .. Len(new) : new[k] = ent[i]
    <2>1. Filtered(new, ent, Entry \ Orphans(s))
      BY <1>0, Retained DEF new
    <2>. QED BY <2>1 DEF Filtered
  <1>7. ASSUME NEW k \in 1 .. Len(new), new[k].live, new[k].id[2] # Global PROVE new[k].id[2] \in LiveChans(new)
    <2>. DEFINE c == new[k].id[2]
    <2>1. new[k] \in Entry /\ new[k] \notin Orphans(s) /\ new[k].id \in Ids
      BY <1>6, EntryForm
    <2>2. c \in Chans /\ new[k].id[1] \in {"c", "C", "B"} /\ (new[k].id[1] = "c" => new[k].id = <<"c", c, "">>)
      BY <2>1, <1>7, IdForm
    <2>3. CASE new[k].id[1] = "c"
      BY <2>2, <2>3, <1>7 DEF LiveChans
    <2>4. CASE new[k].id[1] # "c"
      <3>1. chan_live(s, c)
        BY <2>1, <2>2, <2>4, <1>7 DEF Orphans
      <3>2. c \in LiveChans(ent)
        BY <2>2, <3>1, ChanLive DEF s
      <3>3. PICK i \in 1 .. Len(ent) : ent[i].id = <<"c", c, "">> /\ ent[i].live
        BY <3>2 DEF LiveChans
      <3>7. ent[i] \in Entry
        BY <1>0
      <3>8. ent[i].id[1] = "c"
        BY <3>3, ChanKey
      <3>4. ent[i] \in Entry /\ ent[i].id[1] = "c"
        BY <3>7, <3>8
      <3>5. ent[i] \notin Orphans(s)
        BY <3>4 DEF Orphans
      <3>6. PICK j \in 1 .. Len(new) : new[j] = ent[i]
        BY <1>6, <3>4, <3>5
      <3>. QED BY <2>2, <3>3, <3>6 DEF LiveChans
    <2>. QED BY <2>3, <2>4
  <1>8. Whole(new)
    BY <1>7 DEF Whole
  <1>. QED BY <1>2, <1>5, <1>8 DEF s

-----------------------------------------------------------------------------
(* The store is always built from its vector, and what was learned is of   *)
(* channels that are live.                                                 *)
BuiltUp(s) ==
    /\ s = Built(s.ent, s.learned) /\ Vector(s.ent)
    /\ s.learned \in SUBSET Chans /\ s.learned \subseteq LiveChans(s.ent)
StoreInv == BuiltUp(store) /\ ClockOK

(* A store that is built is so again after a write, and what is young has  *)
(* its place in the index.                                                 *)
StepsOn(s, t) == BuiltUp(t) /\ Young(s.ent) \subseteq DOMAIN t.map
LEMMA LedOn ==
    ASSUME StoreInv, NEW new, NEW M, Leads(store.ent, store.learned, new, M), NEW t, t = Built(new, M)
    PROVE  StepsOn(store, t)
  <1>1. t.ent = new /\ t.learned = M /\ t.map = Index(new)
    BY DEF Built
  <1>2. Vector(new) /\ Young(store.ent) \subseteq Young(new) /\ M \subseteq LiveChans(new) /\ M \in SUBSET Chans
    BY DEF Leads, StoreInv, BuiltUp
  <1>3. DOMAIN Index(new) = {new[i].id : i \in 1 .. Len(new)}
    BY <1>2, IndexAt DEF Vector
  <1>4. Young(new) \subseteq DOMAIN Index(new)
    BY <1>3 DEF Young
  <1>5. BuiltUp(t)
    BY <1>1, <1>2 DEF BuiltUp
  <1>. QED BY <1>1, <1>2, <1>4, <1>5 DEF StepsOn

(* One write of any record.                                                *)
LEMMA PutStep ==
    ASSUME StoreInv, NEW e \in Written
    PROVE  StepsOn(store, put(store, e))
  <1>1. store = Built(store.ent, store.learned) /\ Vector(store.ent) /\ store.learned \in SUBSET Chans /\ ClockOK
    BY DEF StoreInv, BuiltUp
  <1>. DEFINE ent == store.ent
              L == store.learned
  <1>. HIDE DEF ent, L
  <1>2. PICK new, M : put(Built(ent, L), e) = Built(new, M) /\ Leads(ent, L, new, M)
    BY <1>1, PutLeads DEF ent, L
  <1>3. put(store, e) = Built(new, M) /\ Leads(store.ent, store.learned, new, M)
    BY <1>1, <1>2 DEF ent, L
  <1>. QED BY <1>3, LedOn

(* The stamps the operations give.                                         *)
LEMMA NextTs ==
    ASSUME ClockOK, NEW p \in Nat
    PROVE  next_ts(p) \in Nat \ {0} /\ next_ts(p) > p
  BY ChannelStoreAssumption DEF ClockOK, next_ts

(* The stamp found through the index is the stamp of a stored record.      *)
LEMMA GlobalTs ==
    ASSUME StoreInv, NEW id
    PROVE  /\ global_ts(store, id) \in Nat
           /\ global_find(store, id) # 0 => /\ global_find(store, id) \in 1 .. Len(store.ent)
                                            /\ store.ent[global_find(store, id)].ts \in Nat
  <1>. DEFINE ent == store.ent
              i == global_find(store, id)
  <1>1. Vector(ent) /\ store = Built(ent, store.learned)
    BY DEF StoreInv, BuiltUp
  <1>2. i = 0 \/ i \in 1 .. Len(ent)
    <2>1. global_find(Built(ent, store.learned), id) = 0 \/ global_find(Built(ent, store.learned), id) \in 1 .. Len(ent)
      BY <1>1, FindAt
    <2>. QED BY <1>1, <2>1
  <1>3. i # 0 => ent[i].ts \in Nat
    BY <1>1, <1>2, EntryForm DEF Vector, Stamps
  <1>. QED BY <1>2, <1>3 DEF global_ts

(* chan_del_stamp: past every stamp of the channel.                        *)
LEMMA DelStamp ==
    ASSUME StoreInv, NEW c, NEW t, t = chan_del_stamp(c)
    PROVE  t \in Nat \ {0} /\ \A i \in 1 .. Len(store.ent) : store.ent[i].id[2] = c => t > store.ent[i].ts
  <1>. DEFINE ent == store.ent
              of == {i \in 1 .. Len(ent) : ent[i].id[2] = c}
              all == {ent[i].ts : i \in of}
              top == CHOOSE u \in all : \A i \in of : ent[i].ts <= u
              N == MaxClock + MaxFuture + 1
  <1>1. chan_del_stamp(c) = IF of = {} THEN next_ts(0) ELSE next_ts(top)
    BY DEF chan_del_stamp
  <1>2. \A i \in of : ent[i].ts \in Nat /\ ent[i].ts <= N /\ N \in Nat
    <2>. TAKE i \in of
    <2>1. ent[i] \in Entry
      BY DEF StoreInv, BuiltUp, Vector
    <2>2. ent[i].ts \in 1 .. N
      BY <2>1, EntryForm DEF Stamps
    <2>3. N \in Nat
      BY ChannelStoreAssumption
    <2>. QED BY <2>2, <2>3
  <1>3. CASE of = {}
    <2>1. t \in Nat \ {0}
      BY <1>1, <1>3, NextTs DEF StoreInv
    <2>. QED BY <2>1, <1>3
  <1>4. CASE of # {}
    <2>. DEFINE T == [i \in of |-> N - ent[i].ts]
    <2>1. \A i \in of : T[i] \in Nat
      BY <1>2
    <2>. HIDE DEF of, T
    <2>2. PICK m \in of : \A i \in of : T[m] <= T[i]
      BY <1>4, <2>1, LeastOf
    <2>3. \A i \in of : ent[i].ts <= ent[m].ts
      BY <1>2, <2>2 DEF T
    <2>4. \E u \in all : \A i \in of : ent[i].ts <= u
      BY <2>3
    <2>5. top \in all /\ \A i \in of : ent[i].ts <= top
      BY <2>4
    <2>6. top \in Nat
      BY <1>2, <2>5
    <2>. HIDE DEF top, all
    <2>7. t = next_ts(top) /\ t \in Nat \ {0} /\ t > top
      BY <1>1, <1>4, <2>6, NextTs DEF StoreInv
    <2>8. ASSUME NEW i \in of PROVE t > ent[i].ts
      BY <1>2, <2>5, <2>6, <2>7
    <2>. QED BY <2>7, <2>8 DEF of
  <1>. QED BY <1>3, <1>4

(* del_channel, whatever its stamp.                                        *)
LEMMA DelStep ==
    ASSUME StoreInv, NEW c \in Chans, del_channel(c)
    PROVE  StepsOn(store, store')
  <1>. DEFINE t == chan_del_stamp(c)
              e == [id |-> <<"c", c, "">>, live |-> FALSE, ts |-> t, exp |-> 0]
              ent == store.ent
              L == store.learned
  <1>1. t \in Nat \ {0}
    BY DelStamp
  <1>2. store' = put(chan_cascade_del(store, c, t), e)
    BY DEF del_channel
  <1>. HIDE DEF t
  <1>3. e \in Written /\ e.id[1] = "c"
    <2>1. <<"c", c, "">> \in Ids
      BY DEF Ids, ChanId
    <2>2. 0 \in Expiry
      BY ChannelStoreAssumption DEF Expiry
    <2>. QED BY <1>1, <2>1, <2>2, ChanKey DEF Written
  <1>4. store = Built(ent, L) /\ Vector(ent) /\ L \in SUBSET Chans /\ L \subseteq LiveChans(ent) /\ ClockOK
    BY DEF StoreInv, BuiltUp
  <1>. HIDE DEF e, ent, L
  <1>5. PICK mid : chan_cascade_del(Built(ent, L), c, t) = Built(mid, L \ {c}) /\ Keeps(ent, mid)
    BY <1>1, <1>4, CascadeKeeps
  <1>6. Vector(mid) /\ L \ {c} \in SUBSET Chans
    BY <1>4, <1>5 DEF Keeps
  <1>. DEFINE K == L \ {c}
  <1>. HIDE DEF K
  <1>7. PICK new, M : put(Built(mid, K), e) = Built(new, M) /\ Leads(mid, K, new, M)
    BY <1>3, <1>4, <1>6, PutLeads DEF K
  <1>8. Leads(ent, L, new, M)
    BY <1>4, <1>5, <1>7 DEF Leads, Keeps, K
  <1>9. chan_cascade_del(store, c, t) = Built(mid, K)
    BY <1>4, <1>5 DEF K
  <1>10. store' = Built(new, M)
    BY <1>2, <1>7, <1>9
  <1>. QED BY <1>8, <1>10, LedOn DEF ent, L

(* bans_sweep.                                                             *)
LEMMA SweepStep ==
    ASSUME StoreInv, bans_sweep
    PROVE  StepsOn(store, store')
  <1>. DEFINE ent == store.ent
              L == store.learned
              S == {e \in Entry : e.id[1] = "B" /\ e.live /\ e.exp > 0 /\ e.exp <= clock}
              r == Retain(ent, S)
              es == [i \in DOMAIN r |-> [id |-> r[i].id, live |-> FALSE, ts |-> r[i].ts + 1, exp |-> 0]]
  <1>1. store' = PutAll(store, es)
    BY DEF bans_sweep, Deletes
  <1>2. store = Built(ent, L) /\ Vector(ent) /\ ClockOK /\ ent \in Seq(Entry) /\ Distinct(ent)
    BY DEF StoreInv, BuiltUp, Vector
  <1>. HIDE DEF r, ent, L
  <1>3. r \in Seq(Entry) /\ \A k \in 1 .. Len(r) : r[k] \in S
    <2>. HIDE DEF S
    <2>1. Filtered(r, ent, S)
      BY <1>2, Retained DEF r
    <2>. QED BY <2>1 DEF Filtered
  <1>4. \A n \in 1 .. Len(r) :
          [id |-> r[n].id, live |-> FALSE, ts |-> r[n].ts + 1, exp |-> 0] \in Written /\ r[n].id[1] = "B"
    <2>. TAKE n \in 1 .. Len(r)
    <2>1. r[n].id \in Ids /\ r[n].ts \in Nat /\ r[n].id[1] = "B"
      BY <1>3, EntryForm DEF Stamps
    <2>2. 0 \in Expiry
      BY ChannelStoreAssumption DEF Expiry
    <2>. QED BY <2>1, <2>2 DEF Written
  <1>5. DOMAIN r = 1 .. Len(r) /\ Len(r) \in Nat
    BY <1>3
  <1>6. es \in Seq(Written) /\ Len(es) = Len(r)
    BY <1>4, <1>5
  <1>7. \A n \in 1 .. Len(es) : es[n].id[1] # "c"
    BY <1>4, <1>5, <1>6
  <1>. HIDE DEF es
  <1>8. PICK new : PutAll(Built(ent, L), es) = Built(new, L) /\ Keeps(ent, new)
    BY <1>2, <1>6, <1>7, PutAllKeeps
  <1>9. Leads(ent, L, new, L)
    BY <1>8 DEF Leads, Keeps
  <1>10. store' = Built(new, L)
    BY <1>1, <1>2, <1>8
  <1>. QED BY <1>9, <1>10, LedOn DEF ent, L

(* execute_purge.                                                          *)
LEMMA PurgeStep ==
    ASSUME StoreInv, NEW cutoff, execute_purge(cutoff)
    PROVE  BuiltUp(store') /\ Whole(store'.ent)
  <1>. DEFINE L == store.learned
              kept == Retain(store.ent, {e \in Entry : e.live \/ (cutoff # 0 /\ e.ts >= cutoff)})
  <1>1. store' = purge_chan_orphans(Built(kept, L))
    BY DEF execute_purge, global_reindex, Built
  <1>2. Vector(kept) /\ L \in SUBSET Chans
    BY RetainedVector DEF StoreInv, BuiltUp
  <1>. HIDE DEF L, kept
  <1>3. PICK new : purge_chan_orphans(Built(kept, L)) = Built(new, L \cap LiveChans(new)) /\ Vector(new) /\ Whole(new)
    BY <1>2, OrphansGone
  <1>. DEFINE t == store'
  <1>4. t = Built(new, L \cap LiveChans(new))
    BY <1>1, <1>3
  <1>. HIDE DEF t
  <1>5. t.ent = new /\ t.learned = L \cap LiveChans(new)
    BY <1>4 DEF Built
  <1>6. BuiltUp(t) /\ Whole(t.ent)
    BY <1>2, <1>3, <1>4, <1>5 DEF BuiltUp
  <1>. QED BY <1>6 DEF t

(* learned_put.                                                            *)
LEMMA LearnStep ==
    ASSUME StoreInv, NEW c \in Chans, learned_put(c)
    PROVE  StepsOn(store, store')
  <1>. DEFINE ent == store.ent
              L == store.learned
              M == L \cup {c}
              t == store'
  <1>1. t = [store EXCEPT !.learned = M] /\ chan_live(store, c)
    BY DEF learned_put
  <1>2. store = Built(ent, L) /\ Vector(ent) /\ L \in SUBSET Chans /\ L \subseteq LiveChans(ent)
    BY DEF StoreInv, BuiltUp
  <1>. HIDE DEF ent, L, M, t
  <1>3. c \in LiveChans(ent)
    BY <1>1, <1>2, ChanLive
  <1>4. t = Built(ent, M)
    BY <1>1, <1>2 DEF Built
  <1>5. t.ent = ent /\ t.learned = M /\ t.map = Index(ent)
    BY <1>4 DEF Built
  <1>6. BuiltUp(t)
    BY <1>2, <1>3, <1>4, <1>5 DEF BuiltUp, M
  <1>7. Young(ent) \subseteq DOMAIN Index(ent)
    BY <1>2, IndexAt DEF Young, Vector
  <1>. QED BY <1>5, <1>6, <1>7 DEF StepsOn, t, ent

(* Every step: the store is built again, and all that is young is in the   *)
(* index after any step but a purge.                                       *)
LEMMA StoreStep ==
    ASSUME StoreInv, [CsNext]_csVars
    PROVE  /\ StoreInv'
           /\ Young(store.ent) \subseteq DOMAIN store'.map \/ \E cutoff \in 0 .. MaxClock : execute_purge(cutoff)
  <1>. DEFINE Good == StepsOn(store, store') /\ clock' \in 1 .. MaxClock
  <1>1. ClockOK /\ BuiltUp(store)
    BY DEF StoreInv
  <1>2. ASSUME Good PROVE StoreInv' /\ Young(store.ent) \subseteq DOMAIN store'.map
    BY <1>2 DEF StepsOn, StoreInv, ClockOK, BuiltUp, Vector, Fits, Distinct, Built, LiveChans
  <1>3. StepsOn(store, store)
    <2>1. Young(store.ent) \subseteq DOMAIN Index(store.ent)
      BY <1>1, IndexAt DEF Young, Vector, BuiltUp
    <2>2. store.map = Index(store.ent)
      BY <1>1 DEF BuiltUp, Built
    <2>. QED BY <1>1, <2>1, <2>2 DEF StepsOn
  <1>4. \A id \in Ids, live \in BOOLEAN, ts \in Nat \ {0}, exp \in Expiry :
          [id |-> id, live |-> live, ts |-> ts, exp |-> exp] \in Written
    BY DEF Written
  <1>5. 0 \in Expiry /\ Expiry \subseteq Nat
    BY ChannelStoreAssumption DEF Expiry
  <1>6. \A c \in Chans : <<"c", c, "">> \in Ids /\ <<"C", c, "">> \in Ids
    BY DEF Ids, ChanId
  <1>7. \A b \in Bans : <<"B", b[1], b[2]>> \in Ids
    BY DEF Ids, BanId
  <1>8. \A id : next_ts(global_ts(store, id)) \in Nat \ {0}
    BY <1>1, GlobalTs, NextTs
  <1>9. ASSUME Aside PROVE clock' \in 1 .. MaxClock
    BY <1>1, <1>9 DEF Aside, ClockOK
  <1>10. ASSUME NEW e \in Entry, sync_put(e) PROVE Good
    <2>1. e \in Written
      BY DEF Entry, Written, Stamps
    <2>. QED BY <1>9, <1>10, <2>1, PutStep DEF sync_put
  <1>11. ASSUME NEW c \in Chans, add_channel(c) PROVE Good
    <2>. DEFINE e == [id |-> <<"c", c, "">>, live |-> TRUE, exp |-> 0, ts |-> next_ts(global_ts(store, <<"c", c, "">>))]
    <2>1. e \in Written
      BY <1>4, <1>5, <1>6, <1>8
    <2>2. store' = put(store, e) /\ Aside
      BY <1>11 DEF add_channel
    <2>. HIDE DEF e
    <2>. QED BY <1>9, <2>1, <2>2, PutStep
  <1>12. ASSUME NEW c \in Chans, del_channel(c) PROVE Good
    <2>1. Aside
      BY <1>12 DEF del_channel
    <2>. QED BY <1>9, <1>12, <2>1, DelStep
  <1>13. ASSUME NEW c \in Chans, learned_put(c) PROVE Good
    <2>1. Aside
      BY <1>13 DEF learned_put
    <2>. QED BY <1>9, <1>13, <2>1, LearnStep
  <1>14. ASSUME NEW c \in Chans, NEW live \in BOOLEAN, chanset_put(c, live) PROVE Good
    <2>. DEFINE e == [id |-> <<"C", c, "">>, live |-> live, exp |-> 0, ts |-> next_ts(global_ts(store, <<"C", c, "">>))]
    <2>1. e \in Written
      BY <1>4, <1>5, <1>6, <1>8
    <2>2. store' = put(store, e) /\ Aside
      BY <1>14 DEF chanset_put
    <2>. HIDE DEF e
    <2>. QED BY <1>9, <2>1, <2>2, PutStep
  <1>15. ASSUME NEW b \in Bans, ban_del(b[1], b[2]) PROVE Good
    <2>. DEFINE id == <<"B", b[1], b[2]>>
                i == global_find(store, id)
                e == [id |-> id, live |-> FALSE, exp |-> 0, ts |-> next_ts(store.ent[i].ts)]
    <2>1. store' = put(store, e) /\ Aside /\ i # 0
      BY <1>15 DEF ban_del
    <2>2. id \in Ids
      BY <1>7
    <2>. HIDE DEF id
    <2>3. next_ts(store.ent[i].ts) \in Nat \ {0}
      BY <1>1, <2>1, GlobalTs, NextTs
    <2>4. e \in Written
      BY <1>4, <1>5, <2>2, <2>3
    <2>. HIDE DEF e
    <2>. QED BY <1>9, <2>1, <2>4, PutStep
  <1>16. ASSUME NEW b \in Bans, NEW exp \in Expiry, ban_add(b[1], b[2], exp) PROVE Good
    <2>. DEFINE id == <<"B", b[1], b[2]>>
                e == [id |-> id, live |-> TRUE, exp |-> exp, ts |-> next_ts(global_ts(store, id))]
    <2>1. store' = put(store, e) /\ Aside
      BY <1>16 DEF ban_add
    <2>2. e \in Written
      BY <1>4, <1>7, <1>8
    <2>. HIDE DEF e
    <2>. QED BY <1>9, <2>1, <2>2, PutStep
  <1>17. ASSUME bans_sweep PROVE Good
    <2>1. Aside
      BY <1>17 DEF bans_sweep
    <2>. QED BY <1>9, <1>17, <2>1, SweepStep
  <1>18. ASSUME NEW cutoff \in 0 .. MaxClock, execute_purge(cutoff) PROVE StoreInv'
    <2>1. clock' \in 1 .. MaxClock /\ BuiltUp(store')
      BY <1>1, <1>18, PurgeStep DEF execute_purge, ClockOK
    <2>. QED BY <2>1 DEF StoreInv, ClockOK, BuiltUp, Vector, Fits, Distinct, Built, LiveChans
  <1>19. ASSUME ClockTick PROVE Good
    BY <1>1, <1>3, <1>19, ChannelStoreAssumption DEF ClockTick, ClockOK
  <1>20. ASSUME Reboot PROVE Good
    BY <1>1, <1>3, <1>20, ChannelStoreAssumption DEF Reboot, ClockOK
  <1>21. ASSUME UNCHANGED csVars PROVE Good
    BY <1>1, <1>3, <1>21 DEF csVars, ClockOK
  <1>. HIDE DEF Good
  <1>22. CASE \E cutoff \in 0 .. MaxClock : execute_purge(cutoff)
    BY <1>18, <1>22
  <1>23. CASE ~\E cutoff \in 0 .. MaxClock : execute_purge(cutoff)
    <2>1. Good
      BY <1>10, <1>11, <1>12, <1>13, <1>14, <1>15, <1>16, <1>17, <1>19, <1>20, <1>21, <1>23 DEF CsNext
    <2>. QED BY <2>1, <1>2
  <1>. QED BY <1>22, <1>23

(* The empty store.                                                        *)
LEMMA StoreInit ==
    ASSUME CsInit
    PROVE  StoreInv
  <1>1. store = Built(<<>>, {}) /\ clock = 1
    BY DEF CsInit, global_reindex, Built
  <1>2. store.ent = <<>> /\ store.learned = {}
    BY <1>1 DEF Built
  <1>3. \A S : Count(<<>>, S) = 0
    <2>1. \A S : {i \in 1 .. Len(<<>>) : <<>>[i] \in S} = {}
      OBVIOUS
    <2>. QED BY <2>1, FS_EmptySet DEF Count
  <1>4. Fits(<<>>)
    <2>1. \A c \in Chans \cup {Global} : Count(<<>>, LiveBans(c)) <= ban_ceiling(c)
      BY <1>3, ChannelStoreAssumption DEF ban_ceiling
    <2>2. \A k \in DOMAIN Cap : Count(<<>>, OfClass(k)) <= Cap[k]
      BY <1>3, ChannelStoreAssumption DEF Cap
    <2>. QED BY <2>1, <2>2 DEF Fits
  <1>5. Vector(<<>>)
    BY <1>4 DEF Vector, Distinct
  <1>6. BuiltUp(store)
    BY <1>1, <1>2, <1>5 DEF BuiltUp
  <1>7. 1 <= MaxClock
    BY ChannelStoreAssumption
  <1>. QED BY <1>1, <1>6, <1>7 DEF StoreInv, ClockOK

(* A record of the vector, by its identity.                                *)
LEMMA LiveAt ==
    ASSUME NEW ent \in Seq(Entry), NEW L, NEW id
    PROVE  Live(Built(ent, L), id) <=> \E i \in 1 .. Len(ent) : ent[i].id = id /\ ent[i].live
  <1>1. Built(ent, L).ent = ent
    BY DEF Built
  <1>2. ToSet(ent) = {ent[i] : i \in 1 .. Len(ent)}
    BY DEF ToSet
  <1>. QED BY <1>1, <1>2 DEF Live

(* As many identities as records.                                          *)
LEMMA AsMany ==
    ASSUME NEW ent \in Seq(Entry), Distinct(ent)
    PROVE  Cardinality(DOMAIN Index(ent)) = Len(ent)
  <1>. DEFINE D == {ent[i].id : i \in 1 .. Len(ent)}
              f == [i \in 1 .. Len(ent) |-> ent[i].id]
  <1>1. DOMAIN Index(ent) = D
    BY IndexAt
  <1>2. f \in Surjection(1 .. Len(ent), D)
    BY DEF Surjection
  <1>3. f \in Injection(1 .. Len(ent), D)
    BY DEF Injection, IsInjective, Distinct
  <1>6. Len(ent) \in Nat
    OBVIOUS
  <1>4. IsFiniteSet(1 .. Len(ent)) /\ Cardinality(1 .. Len(ent)) = Len(ent)
    <2>. DEFINE n == Len(ent)
    <2>. HIDE DEF n
    <2>1. n \in Nat
      BY <1>6 DEF n
    <2>2. IsFiniteSet(1 .. n) /\ Cardinality(1 .. n) = IF 1 > n THEN 0 ELSE n - 1 + 1
      BY <2>1, FS_Interval
    <2>. QED BY <2>1, <2>2 DEF n
  <1>. HIDE DEF f, D
  <1>5. Cardinality(D) = Cardinality(1 .. Len(ent))
    BY <1>2, <1>3, <1>4, FS_Surjection
  <1>. QED BY <1>1, <1>4, <1>5

(* The live bans of a channel, by identity, are at most those counted.     *)
LEMMA LiveBansBound ==
    ASSUME NEW ent, Vector(ent), NEW L, NEW c \in Chans \cup {Global}
    PROVE  Cardinality({id \in BanId : id[2] = c /\ Live(Built(ent, L), id)}) <= ban_ceiling(c)
  <1>. DEFINE A == {i \in 1 .. Len(ent) : ent[i] \in LiveBans(c)}
              B == {id \in BanId : id[2] = c /\ Live(Built(ent, L), id)}
              f == [i \in A |-> ent[i].id]
  <1>1. ent \in Seq(Entry)
    BY DEF Vector
  <1>2. ASSUME NEW i \in A PROVE f[i] \in B
    <2>1. ent[i] \in Entry /\ ent[i].id[1] = "B" /\ ent[i].id[2] = c /\ ent[i].live
      BY DEF LiveBans
    <2>2. ent[i].id \in Ids /\ ent[i].id \notin ChanId
      <3>1. ent[i].id \in Ids
        BY <2>1, EntryForm
      <3>2. ASSUME ent[i].id \in ChanId PROVE FALSE
        <4>1. PICK d \in Chans : ent[i].id = <<"c", d, "">> \/ ent[i].id = <<"C", d, "">>
          BY <3>2 DEF ChanId
        <4>2. ent[i].id[1] = "c" \/ ent[i].id[1] = "C"
          BY <4>1, ChanKey
        <4>. QED BY <2>1, <4>2
      <3>. QED BY <3>1, <3>2
    <2>3. ent[i].id \in BanId
      BY <2>2 DEF Ids
    <2>4. Live(Built(ent, L), ent[i].id)
      BY <1>1, <2>1, LiveAt
    <2>. QED BY <2>1, <2>3, <2>4
  <1>3. ASSUME NEW id \in B PROVE \E i \in A : f[i] = id
    <2>1. PICK i \in 1 .. Len(ent) : ent[i].id = id /\ ent[i].live
      BY <1>1, <1>3, LiveAt
    <2>2. id[1] = "B" /\ id[2] = c
      BY <1>3 DEF BanId
    <2>3. ent[i] \in LiveBans(c)
      BY <1>1, <2>1, <2>2, Belongs
    <2>. QED BY <2>1, <2>3
  <1>4. f \in Surjection(A, B)
    BY <1>2, <1>3 DEF Surjection
  <1>5. IsFiniteSet(A) /\ Cardinality(A) = Count(ent, LiveBans(c)) /\ Cardinality(A) \in Nat
    BY <1>1, CountFinite DEF Count
  <1>6. Count(ent, LiveBans(c)) <= ban_ceiling(c) /\ ban_ceiling(c) \in Nat
    BY ChannelStoreAssumption DEF Vector, Fits, ban_ceiling
  <1>. HIDE DEF A, B, f
  <1>7. IsFiniteSet(B) /\ Cardinality(B) <= Cardinality(A)
    BY <1>4, <1>5, FS_Surjection
  <1>8. Cardinality(B) \in Nat
    BY <1>7, FS_CardinalityType
  <1>9. Cardinality(B) <= ban_ceiling(c)
    BY <1>5, <1>6, <1>7, <1>8
  <1>. QED BY <1>9 DEF B

(* A store that is built up is exact.                                      *)
LEMMA StoreTrueHolds ==
    ASSUME StoreInv
    PROVE  StoreTrue
  <1>. DEFINE ent == store.ent
              L == store.learned
  <1>1. store = Built(ent, L) /\ Vector(ent) /\ L \in SUBSET Chans /\ L \subseteq LiveChans(ent)
        /\ ent \in Seq(Entry) /\ Distinct(ent)
    BY DEF StoreInv, BuiltUp, Vector
  <1>2. IndexExact
    <2>1. store = global_reindex(store, store.ent)
      BY <1>1 DEF global_reindex, Built
    <2>2. store.map = Index(ent)
      BY <1>1 DEF Built
    <2>. QED BY <2>1, <2>2, <1>1, AsMany DEF IndexExact
  <1>. HIDE DEF ent, L
  <1>3. Bounded
    <2>1. \A c \in Chans \cup {Global} : Cardinality({id \in BanId : id[2] = c /\ Live(store, id)}) <= ban_ceiling(c)
      BY <1>1, LiveBansBound
    <2>2. \A k \in DOMAIN Cap : Count(ent, OfClass(k)) <= Cap[k]
      BY <1>1 DEF Vector, Fits
    <2>. QED BY <2>1, <2>2 DEF Bounded, ent
  <1>4. LearnedLive
    <2>. SUFFICES ASSUME NEW c \in L PROVE Live(store, <<"c", c, "">>)
      BY DEF LearnedLive, L
    <2>1. \E i \in 1 .. Len(ent) : ent[i].id = <<"c", c, "">> /\ ent[i].live
      BY <1>1 DEF LiveChans
    <2>. DEFINE id == <<"c", c, "">>
    <2>2. \E i \in 1 .. Len(ent) : ent[i].id = id /\ ent[i].live
      BY <2>1
    <2>. HIDE DEF id
    <2>3. Live(Built(ent, L), id)
      BY <2>2, <1>1, LiveAt
    <2>. QED BY <2>3, <1>1 DEF id
  <1>. QED BY <1>2, <1>3, <1>4 DEF StoreTrue

(* The index, the class counts and the ban counts that the store keeps     *)
(* beside its vector (storage.rs) are what a fresh count gives, no ceiling *)
(* is passed, and nothing learned is left of a channel that is not live,   *)
(* for any channels, bans and ceilings and after any sequence of writes,   *)
(* syncs, sweeps, purges and restarts.                                     *)
THEOREM StoreTrueAlways == CsSpec => []StoreTrue
  <1>1. CsInit => StoreInv
    BY StoreInit
  <1>2. StoreInv /\ [CsNext]_csVars => StoreInv'
    BY StoreStep
  <1>3. StoreInv => StoreTrue
    BY StoreTrueHolds
  <1>. QED BY <1>1, <1>2, <1>3, PTL DEF CsSpec

(* channel del in reach of the clock: nothing of the channel is left live. *)
LEMMA DelTakes ==
    ASSUME StoreInv, NEW c \in Chans, del_channel(c), ~ts_ahead(chan_del_stamp(c))
    PROVE  Empty(store', c)
  <1>. DEFINE t == chan_del_stamp(c)
              e == [id |-> <<"c", c, "">>, live |-> FALSE, ts |-> t, exp |-> 0]
              ent == store.ent
              L == store.learned
              K == L \ {c}
  <1>1. t \in Nat \ {0} /\ \A i \in 1 .. Len(ent) : ent[i].id[2] = c => t > ent[i].ts
    BY DelStamp
  <1>2. store' = put(chan_cascade_del(store, c, t), e) /\ ~ts_ahead(t)
    BY DEF del_channel
  <1>. HIDE DEF t
  <1>3. e \in Written /\ e.id = <<"c", c, "">> /\ e.id[1] = "c" /\ e.id[2] = c /\ ~e.live /\ e.ts = t
    <2>1. <<"c", c, "">> \in Ids
      BY DEF Ids, ChanId
    <2>2. 0 \in Expiry
      BY ChannelStoreAssumption DEF Expiry
    <2>. QED BY <1>1, <2>1, <2>2, ChanKey DEF Written
  <1>4. store = Built(ent, L) /\ Vector(ent) /\ L \in SUBSET Chans /\ ClockOK /\ ent \in Seq(Entry)
    BY DEF StoreInv, BuiltUp, Vector
  <1>. HIDE DEF e, ent, L, K
  <1>13. PICK mid : chan_cascade_del(Built(ent, L), c, t) = Built(mid, K) /\ Vector(mid) /\ Rid(ent, c, mid)
    <2>1. Past(ent, c, t)
      BY <1>1 DEF Past
    <2>2. t \in Nat \ {0} /\ ~ts_ahead(t) /\ Vector(ent) /\ ClockOK
      BY <1>1, <1>2, <1>4
    <2>. QED BY <2>1, <2>2, CascadeLands DEF K
  <1>5. /\ chan_cascade_del(Built(ent, L), c, t) = Built(mid, K) /\ Vector(mid) /\ Len(mid) = Len(ent)
        /\ \A i \in 1 .. Len(ent) :
             /\ mid[i].id = ent[i].id /\ (mid[i] = ent[i] \/ ~mid[i].live)
             /\ ent[i].id[2] = c /\ ent[i].id[1] \in {"C", "B"} => ~mid[i].live
    <2>1. Len(mid) = Len(ent)
      BY <1>13 DEF Rid
    <2>2. ASSUME NEW i \in 1 .. Len(ent)
          PROVE  /\ mid[i].id = ent[i].id /\ (mid[i] = ent[i] \/ ~mid[i].live)
                 /\ ent[i].id[2] = c /\ ent[i].id[1] \in {"C", "B"} => ~mid[i].live
      BY <1>13 DEF Rid
    <2>. QED BY <1>13, <2>1, <2>2
  <1>. DEFINE Gone(q) == \A i \in 1 .. Len(q) : q[i].id[2] = c => ~q[i].live
  <1>6. ASSUME NEW q, Vector(q), Gone(q), store' = Built(q, K) \/ store' = Built(q, K \ {c}) PROVE Empty(store', c)
    <2>1. c \notin K
      BY DEF K
    <2>2. store'.ent = q /\ c \notin store'.learned
      BY <2>1, <1>6 DEF Built
    <2>3. ToSet(q) = {q[i] : i \in 1 .. Len(q)}
      BY <1>6 DEF ToSet, Vector
    <2>. QED BY <2>2, <2>3, <1>6 DEF Empty
  <1>7. \A i \in 1 .. Len(mid) : mid[i].id[2] = c /\ mid[i].id # e.id => ~mid[i].live
    <2>. SUFFICES ASSUME NEW i \in 1 .. Len(mid), mid[i].id[2] = c, mid[i].id # e.id PROVE ~mid[i].live
      OBVIOUS
    <2>1. ent[i].id \in Ids /\ i \in 1 .. Len(ent) /\ mid[i].id = ent[i].id
      BY <1>4, <1>5, EntryForm
    <2>3. ent[i].id = <<ent[i].id[1], ent[i].id[2], ent[i].id[3]>> /\ ent[i].id[1] \in {"c", "C", "B"}
          /\ (ent[i].id[1] = "c" => ent[i].id[3] = "") /\ ent[i].id[2] = c
      BY <2>1, IdForm
    <2>4. CASE ent[i].id[1] = "c"
      <3>1. ent[i].id = <<"c", c, "">>
        BY <2>3, <2>4
      <3>. QED BY <3>1, <2>1, <1>3
    <2>2. CASE ent[i].id[1] \in {"C", "B"}
      BY <1>5, <2>1, <2>2, <2>3
    <2>. QED BY <2>2, <2>3, <2>4
  <1>. DEFINE s == Built(mid, K)
              i == global_find(s, e.id)
  <1>8. s.ent = mid /\ store' = update_global_entry(s, e)
    BY <1>2, <1>3, <1>4, <1>5 DEF put, Built
  <1>9. \/ i = 0 /\ \A j \in 1 .. Len(mid) : mid[j].id # e.id
        \/ i \in 1 .. Len(mid) /\ mid[i].id = e.id
    BY <1>5, FindAt
  <1>. HIDE DEF s, i
  <1>10. CASE i = 0
    <2>1. store' = s \/ (store' = global_note_new(s, e) /\ ~ts_ahead(e.ts))
      BY <1>8, <1>10 DEF update_global_entry, i
    <2>2. Gone(mid)
      BY <1>7, <1>9, <1>10
    <2>3. CASE store' = s
      BY <2>2, <2>3, <1>5, <1>6 DEF s
    <2>4. CASE store' = global_note_new(s, e) /\ ~ts_ahead(e.ts)
      <3>1. e \in Entry
        BY <2>4, <1>3, <1>4, InReach
      <3>2. global_note_new(s, e) = Built(Append(mid, e), K) /\ Append(mid, e) \in Seq(Entry)
        BY <3>1, <1>5, <1>9, <1>10, NoteNew DEF s
      <3>. DEFINE q == Append(mid, e)
      <3>3. Gone(q)
        <4>1. mid \in Seq(Entry)
          BY <1>5 DEF Vector
        <4>2. Len(q) = Len(mid) + 1 /\ q[Len(mid) + 1] = e /\ \A j \in 1 .. Len(mid) : q[j] = mid[j]
          BY <4>1
        <4>3. \A j \in 1 .. Len(q) : j \in 1 .. Len(mid) \/ j = Len(mid) + 1
          BY <4>1, <4>2
        <4>. HIDE DEF q
        <4>. QED BY <4>2, <4>3, <2>2, <1>3
      <3>4. ToSet(q) = {q[j] : j \in 1 .. Len(q)}
        BY <3>2 DEF ToSet
      <3>5. store'.ent = q /\ store'.learned = K
        BY <2>4, <3>2 DEF Built
      <3>. HIDE DEF q
      <3>. QED BY <3>3, <3>4, <3>5 DEF Empty, K
    <2>. QED BY <2>1, <2>3, <2>4
  <1>11. CASE i # 0 /\ ~accepts(e, mid[i])
    <2>1. store' = s
      BY <1>8, <1>11 DEF update_global_entry, i
    <2>2. ~mid[i].live
      <3>1. i \in 1 .. Len(ent) /\ ent[i].id[2] = c
        BY <1>3, <1>5, <1>9, <1>11
      <3>2. t > ent[i].ts
        BY <1>1, <3>1
      <3>3. mid[i] # ent[i]
        BY <1>2, <1>3, <1>11, <3>2 DEF accepts
      <3>. QED BY <1>5, <3>1, <3>3
    <2>3. Gone(mid)
      <3>. SUFFICES ASSUME NEW j \in 1 .. Len(mid), mid[j].id[2] = c PROVE ~mid[j].live
        OBVIOUS
      <3>1. CASE mid[j].id = e.id
        <4>1. j = i
          BY <3>1, <1>5, <1>9, <1>11 DEF Vector, Distinct
        <4>. QED BY <4>1, <2>2
      <3>2. CASE mid[j].id # e.id
        BY <3>2, <1>7
      <3>. QED BY <3>1, <3>2
    <2>. QED BY <2>1, <2>3, <1>5, <1>6 DEF s
  <1>12. CASE i # 0 /\ accepts(e, mid[i])
    <2>. DEFINE s1 == [s EXCEPT !.ent = [@ EXCEPT ![i] = e]]
    <2>1. store' = chan_cascade_del(s1, c, t)
      BY <1>3, <1>8, <1>12 DEF update_global_entry, i
    <2>2. i \in 1 .. Len(mid) /\ mid[i].id = e.id /\ e \in Entry
      BY <1>2, <1>3, <1>4, <1>9, <1>12, InReach
    <2>3. PICK edit : s1 = Built(edit, K) /\ Vector(edit) /\ EditedAt(mid, i, e, edit)
      BY <2>2, <1>3, <1>5, ChanEdit DEF s
    <2>4. Gone(edit)
      <3>. SUFFICES ASSUME NEW j \in 1 .. Len(edit), edit[j].id[2] = c PROVE ~edit[j].live
        OBVIOUS
      <3>1. CASE j = i
        BY <3>1, <1>3, <2>3 DEF EditedAt
      <3>2. CASE j # i
        <4>1. edit[j] = mid[j] /\ j \in 1 .. Len(mid)
          BY <3>2, <2>3 DEF EditedAt
        <4>2. mid[j].id # e.id
          BY <3>2, <4>1, <2>2, <1>5 DEF Vector, Distinct
        <4>. QED BY <4>1, <4>2, <1>7
      <3>. QED BY <3>1, <3>2
    <2>. HIDE DEF s1
    <2>5. PICK new : chan_cascade_del(Built(edit, K), c, t) = Built(new, K \ {c}) /\ Vector(new) /\ Rid(edit, c, new)
      <3>1. Past(edit, c, t)
        BY <2>4 DEF Past
      <3>2. t \in Nat \ {0} /\ ~ts_ahead(t) /\ Vector(edit) /\ ClockOK
        BY <1>1, <1>2, <1>4, <2>3
      <3>. QED BY <3>1, <3>2, CascadeLands
    <2>6. Gone(new)
      <3>1. Len(new) = Len(edit)
        BY <2>5 DEF Rid
      <3>2. \A j \in 1 .. Len(edit) : new[j].id = edit[j].id /\ (new[j] = edit[j] \/ ~new[j].live)
        BY <2>5 DEF Rid
      <3>. QED BY <2>4, <3>1, <3>2
    <2>. QED BY <2>1, <2>3, <2>5, <2>6, <1>6
  <1>. QED BY <1>9, <1>10, <1>11, <1>12

(* What a step may take away.                                              *)
LEMMA StoreStepsHold ==
    ASSUME StoreInv, [CsNext]_csVars
    PROVE  DelTakesAll /\ PurgeLeavesNoOrphan /\ YoungTombstonesStay
  <1>1. DelTakesAll
    BY DelTakes DEF DelTakesAll
  <1>2. PurgeLeavesNoOrphan
    <2>. SUFFICES ASSUME NEW cutoff \in 0 .. MaxClock, execute_purge(cutoff) PROVE NoOrphan(store')
      BY DEF PurgeLeavesNoOrphan
    <2>. DEFINE s == store'
    <2>1. BuiltUp(s) /\ Whole(s.ent)
      BY PurgeStep
    <2>. HIDE DEF s
    <2>2. s.ent \in Seq(Entry) /\ s = Built(s.ent, s.learned)
      BY <2>1 DEF BuiltUp, Vector
    <2>3. ASSUME NEW e \in ToSet(s.ent), e.live, e.id[2] # Global PROVE Live(s, <<"c", e.id[2], "">>)
      <3>1. PICK i \in 1 .. Len(s.ent) : e = s.ent[i]
        BY <2>2 DEF ToSet
      <3>2. e.id[2] \in LiveChans(s.ent)
        BY <2>1, <2>3, <3>1 DEF Whole
      <3>. DEFINE id == <<"c", e.id[2], "">>
      <3>3. \E j \in 1 .. Len(s.ent) : s.ent[j].id = id /\ s.ent[j].live
        BY <3>2 DEF LiveChans
      <3>. HIDE DEF id
      <3>4. Live(Built(s.ent, s.learned), id)
        BY <2>2, <3>3, LiveAt
      <3>. QED BY <2>2, <3>4 DEF id
    <2>4. NoOrphan(s)
      BY <2>3 DEF NoOrphan
    <2>. QED BY <2>4 DEF s
  <1>3. YoungTombstonesStay
    <2>1. CASE Young(store.ent) \subseteq DOMAIN store'.map
      <3>1. store.ent \in Seq(Entry)
        BY DEF StoreInv, BuiltUp, Vector
      <3>2. ASSUME NEW e \in ToSet(store.ent), e.ts > clock - Keep PROVE e.id \in Young(store.ent)
        BY <3>1, <3>2 DEF ToSet, Young
      <3>. QED BY <2>1, <3>2 DEF YoungTombstonesStay
    <2>2. CASE \E cutoff \in 0 .. MaxClock : execute_purge(cutoff)
      BY <2>2 DEF YoungTombstonesStay
    <2>. QED BY <2>1, <2>2, StoreStep
  <1>. QED BY <1>1, <1>2, <1>3

(* For any channels, bans and ceilings: a channel del in reach of the      *)
(* clock leaves nothing live of the channel (admin.rs del_channel and      *)
(* storage.rs chan_cascade_del), a purge leaves no part without its        *)
(* channel, and no other step removes a tombstone before its age.          *)
THEOREM StoreStepsAlways == CsSpec => StoreSteps
  <1>1. CsInit => StoreInv
    BY StoreInit
  <1>2. StoreInv /\ [CsNext]_csVars => StoreInv'
    BY StoreStep
  <1>3. StoreInv /\ [CsNext]_csVars => [DelTakesAll /\ PurgeLeavesNoOrphan /\ YoungTombstonesStay]_csVars
    BY StoreStepsHold
  <1>. QED BY <1>1, <1>2, <1>3, PTL DEF CsSpec, StoreSteps
=============================================================================
