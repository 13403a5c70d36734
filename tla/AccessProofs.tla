---------------------------- MODULE AccessProofs ----------------------------
(***************************************************************************)
(* Who gets in.  The allow and deny lists hold for any addresses, networks *)
(* and order of changes, sweeps, connections and logins; console logins    *)
(* keep their limits and their keys for any connections, addresses and     *)
(* admins.                                                                 *)
(*                                                                         *)
(* Lists: what is open once they were swept depends on what was logging in *)
(* meanwhile, so the invariant says the same of the logins under way, and  *)
(* always, not only between a sweep and the next change.                   *)
(*                                                                         *)
(* Consoles: the limits are counts of connections and say nothing of any   *)
(* one of them; the invariant adds the path each one keeps to (Fits).  The *)
(* key a console has is the one on record when the core opens it; that it  *)
(* was checked needs an invariant of the logins still waiting (KeysKept).  *)
(***************************************************************************)
EXTENDS IpAcl, ConsoleGate, FiniteSetTheorems, WellFoundedInduction, TLAPS

-----------------------------------------------------------------------------
(* The allow and deny lists.                                               *)

Clients == [ip : Hosts, console : BOOLEAN, late : BOOLEAN]

(* The lists are of entries and finite.                                    *)
AclTypeOK ==
    /\ lists \in [{"allow", "deny"} -> SUBSET Entries]
    /\ \A name \in {"allow", "deny"} : IsFiniteSet(lists[name])
    /\ inbound \subseteq Clients /\ logins \subseteq Clients
    /\ changed \in BOOLEAN /\ aclEdits \in Nat

(* Who logs in is allowed, or the lists changed since it was asked about.  *)
LoginsAllowed == \A c \in logins : c.late \/ ip_acl_verdict(lists, c.ip, FALSE)

AclInv == AclTypeOK /\ LoginsAllowed /\ SomeoneGetsIn /\ NoneRefusedStays

(* An entry is added where there is room: the list grows to the limit at   *)
(* most (MAX_IP_ACL_ENTRIES).                                              *)
LEMMA AddBounded ==
    ASSUME NEW l \in [{"allow", "deny"} -> SUBSET Entries], NEW name \in {"allow", "deny"}, NEW e \in Entries,
           \A n \in {"allow", "deny"} : IsFiniteSet(l[n]) /\ Cardinality(l[n]) <= MaxAcl
    PROVE  /\ ip_acl_add(l, name, e) \in [{"allow", "deny"} -> SUBSET Entries]
           /\ \A n \in {"allow", "deny"} : IsFiniteSet(ip_acl_add(l, name, e)[n])
                                           /\ Cardinality(ip_acl_add(l, name, e)[n]) <= MaxAcl
<1>1. CASE e \in l[name] \/ Cardinality(l[name]) >= MaxAcl  BY <1>1 DEF ip_acl_add
<1>2. CASE ~(e \in l[name] \/ Cardinality(l[name]) >= MaxAcl)
  <2>1. Cardinality(l[name]) \in Nat /\ MaxAcl \in Nat  BY FS_CardinalityType, IpAclAssumption
  <2>2. IsFiniteSet(l[name] \cup {e}) /\ Cardinality(l[name] \cup {e}) = Cardinality(l[name]) + 1
    BY <1>2, FS_AddElement
  <2>3. Cardinality(l[name] \cup {e}) <= MaxAcl  BY <1>2, <2>1, <2>2
  <2>4. ip_acl_add(l, name, e) = [l EXCEPT ![name] = @ \cup {e}]  BY <1>2 DEF ip_acl_add
  <2> QED BY <2>2, <2>3, <2>4
<1> QED BY <1>1, <1>2

(* Taking an entry out keeps the limit.                                    *)
LEMMA RemoveBounded ==
    ASSUME NEW l \in [{"allow", "deny"} -> SUBSET Entries], NEW name \in {"allow", "deny"}, NEW e \in Entries,
           \A n \in {"allow", "deny"} : IsFiniteSet(l[n]) /\ Cardinality(l[n]) <= MaxAcl
    PROVE  /\ ip_acl_remove(l, name, e) \in [{"allow", "deny"} -> SUBSET Entries]
           /\ \A n \in {"allow", "deny"} : IsFiniteSet(ip_acl_remove(l, name, e)[n])
                                           /\ Cardinality(ip_acl_remove(l, name, e)[n]) <= MaxAcl
<1>1. IsFiniteSet(l[name] \ {e}) /\ Cardinality(l[name] \ {e}) <= Cardinality(l[name])
  BY FS_Subset, l[name] \ {e} \subseteq l[name]
<1>2. Cardinality(l[name]) \in Nat /\ Cardinality(l[name] \ {e}) \in Nat /\ MaxAcl \in Nat
  BY <1>1, FS_CardinalityType, IpAclAssumption
<1>3. Cardinality(l[name] \ {e}) <= MaxAcl  BY <1>1, <1>2
<1> QED BY <1>1, <1>3 DEF ip_acl_remove

(* With empty lists everybody gets in.                                     *)
LEMMA AclStarts == AclInit => AclInv
<1> SUFFICES ASSUME AclInit PROVE AclInv  OBVIOUS
<1>1. \A ip, console : ip_acl_verdict(lists, ip, console)  BY DEF AclInit, ip_acl_verdict, ip_acl_match
<1>2. IsFiniteSet({}) /\ Cardinality({}) = 0  BY FS_EmptySet
<1>3. \A n \in {"allow", "deny"} : lists[n] = {}  BY DEF AclInit
<1>4. AclTypeOK
  <2>1. lists = [n \in {"allow", "deny"} |-> {}]  BY DEF AclInit
  <2>2. \A ip \in Hosts : Console(ip, FALSE) \in Clients  BY DEF Clients, Console
  <2>3. inbound \subseteq Clients  BY <2>2 DEF AclInit
  <2> QED BY <1>2, <1>3, <2>1, <2>3 DEF AclInit, AclTypeOK
<1>5. SomeoneGetsIn
  <2>1. MaxAcl \in Nat /\ \E ip : ip \in Hosts  BY IpAclAssumption
  <2>2. \A n \in {"allow", "deny"} : Cardinality(lists[n]) <= MaxAcl  BY <1>2, <1>3, <2>1
  <2> QED BY <1>1, <2>1, <2>2 DEF SomeoneGetsIn
<1> QED BY <1>1, <1>4, <1>5 DEF AclInv, AclInit, LoginsAllowed, NoneRefusedStays

(* A change keeps the one who makes it in, and marks the logins under way. *)
LEMMA ChangeKeeps ==
    ASSUME AclInv, NEW by \in Hosts, NEW name \in {"allow", "deny"}, NEW add \in BOOLEAN, NEW e \in Entries,
           ip_acl_change(by, name, add, e)
    PROVE  AclInv'
<1> DEFINE l == IF add THEN ip_acl_add(lists, name, e) ELSE ip_acl_remove(lists, name, e)
<1>1. /\ l \in [{"allow", "deny"} -> SUBSET Entries]
      /\ \A n \in {"allow", "deny"} : IsFiniteSet(l[n]) /\ Cardinality(l[n]) <= MaxAcl
  BY AddBounded, RemoveBounded DEF AclInv, AclTypeOK, SomeoneGetsIn
<1>2. aclEdits' \in Nat /\ inbound' = inbound  BY DEF ip_acl_change, AclInv, AclTypeOK
<1> HIDE DEF l
<1>3. CASE l = lists \/ LocksOut(l, by, e)
  <2>1. UNCHANGED <<lists, logins, changed, lastBy>>  BY <1>3 DEF ip_acl_change, l
  <2> QED BY <1>2, <2>1 DEF AclInv, AclTypeOK, LoginsAllowed, SomeoneGetsIn, NoneRefusedStays, ip_acl_verdict, ip_acl_match
<1>4. CASE ~(l = lists \/ LocksOut(l, by, e))
  <2>1. /\ lists' = l /\ changed' = TRUE /\ lastBy' = by
        /\ logins' = {[c EXCEPT !.late = TRUE] : c \in logins}
    BY <1>4 DEF ip_acl_change, l
  <2>2. ip_acl_verdict(l, by, FALSE) /\ ip_acl_verdict(l, by, TRUE)  BY <1>4 DEF LocksOut
  <2>3. \A c \in logins' : c \in Clients /\ c.late  BY <2>1 DEF AclInv, AclTypeOK, Clients
  <2>4. AclTypeOK'  BY <1>1, <1>2, <2>1, <2>3 DEF AclInv, AclTypeOK
  <2>5. SomeoneGetsIn'  BY <1>1, <2>1, <2>2 DEF SomeoneGetsIn
  <2> QED BY <2>1, <2>3, <2>4, <2>5 DEF AclInv, LoginsAllowed, NoneRefusedStays
<1> QED BY <1>3, <1>4

(* Every other step leaves the lists as they are.                          *)
LEMMA ClientsKeep ==
    ASSUME AclInv,
           \/ maintenance_acl
           \/ \E ip \in Hosts : Arrives(ip) \/ SpeaksSsh(ip)
           \/ (\E c \in logins : LogsIn(c)) \/ (\E c \in inbound : Leaves(c))
    PROVE  AclInv'
<1>1. lists' = lists /\ lastBy' = lastBy /\ aclEdits' = aclEdits
  BY DEF maintenance_acl, Arrives, SpeaksSsh, LogsIn, Leaves
<1>2. SomeoneGetsIn'  BY <1>1 DEF AclInv, SomeoneGetsIn, ip_acl_verdict, ip_acl_match
<1>3. \A ip, k : ip_acl_verdict(lists, ip, k)' = ip_acl_verdict(lists, ip, k)  BY <1>1 DEF ip_acl_verdict, ip_acl_match
<1>4. SUFFICES AclTypeOK' /\ LoginsAllowed' /\ NoneRefusedStays'  BY <1>2 DEF AclInv
<1> USE DEF AclInv, AclTypeOK, LoginsAllowed, NoneRefusedStays
<1>5. CASE maintenance_acl  BY <1>1, <1>5 DEF maintenance_acl, Swept
<1>6. ASSUME NEW ip \in Hosts, Arrives(ip) PROVE AclTypeOK' /\ LoginsAllowed' /\ NoneRefusedStays'
  <2>1. Raw(ip) \in Clients /\ Raw(ip).ip = ip  BY DEF Raw, Clients
  <2> QED BY <1>1, <1>3, <1>6, <2>1 DEF Arrives
<1>7. ASSUME NEW ip \in Hosts, SpeaksSsh(ip) PROVE AclTypeOK' /\ LoginsAllowed' /\ NoneRefusedStays'
  <2>1. Console(ip, changed) \in Clients  BY DEF Console, Clients
  <2>2. AclTypeOK'  BY <1>1, <1>7, <2>1 DEF SpeaksSsh
  <2>3. changed \/ ip_acl_verdict(lists, ip, FALSE)  BY <1>7 DEF SpeaksSsh, Raw
  <2>4. LoginsAllowed'
    <3>1. \A c \in logins' : c \in logins \/ c = Console(ip, changed)  BY <1>7 DEF SpeaksSsh
    <3>2. Console(ip, changed).late = changed /\ Console(ip, changed).ip = ip  BY DEF Console
    <3>3. \A c \in logins' : c.late \/ ip_acl_verdict(lists, c.ip, FALSE)  BY <2>3, <3>1, <3>2
    <3> QED BY <1>3, <3>3
  <2>5. NoneRefusedStays'  BY <1>1, <1>3, <1>7 DEF SpeaksSsh
  <2> QED BY <2>2, <2>4, <2>5
<1>8. ASSUME NEW c \in logins, LogsIn(c) PROVE AclTypeOK' /\ LoginsAllowed' /\ NoneRefusedStays'
  BY <1>1, <1>8 DEF LogsIn
<1>9. ASSUME NEW c \in inbound, Leaves(c) PROVE AclTypeOK' /\ LoginsAllowed' /\ NoneRefusedStays'
  BY <1>1, <1>9 DEF Leaves
<1> QED BY <1>5, <1>6, <1>7, <1>8, <1>9

(* The lists never shut everybody out, and after a sweep no connection     *)
(* they refuse is open but a console that was logging in when they changed *)
(* (ip_acl_change, the maintenance sweep, ssh_admit).                      *)
THEOREM ListsAlwaysHold == AclInit /\ [][AclNext]_aclVars => []ListsHold
<1>1. AclInit => AclInv  BY AclStarts
<1>2. AclInv /\ [AclNext]_aclVars => AclInv'
  <2> SUFFICES ASSUME AclInv, [AclNext]_aclVars PROVE AclInv'  OBVIOUS
  <2>1. CASE AclNext  BY <2>1, ChangeKeeps, ClientsKeep DEF AclNext
  <2>2. CASE UNCHANGED aclVars
    BY <2>2 DEF aclVars, AclInv, AclTypeOK, LoginsAllowed, SomeoneGetsIn, NoneRefusedStays, ip_acl_verdict, ip_acl_match
  <2> QED BY <2>1, <2>2
<1>3. AclInv => ListsHold  BY DEF AclInv, ListsHold
<1> QED BY <1>1, <1>2, <1>3, PTL

-----------------------------------------------------------------------------
(* Console logins.  Each connection keeps to one path (Fits): nobody asks  *)
(* for a shell who was not checked, a checked name stays, and who was      *)
(* refused is reported by the handler or at the end, never by both.        *)

Places == {"none", "kex", "auth", "ending", "done"}
Named == AdminNames \cup {NoName}
Logins == [at : Places, ip : Addrs \cup {CHOOSE a \in Addrs : TRUE}, pre : BOOLEAN, dropped : BOOLEAN,
           user : Named, as : Named, key : KeyIds \cup {NoKey}, authed : BOOLEAN, refused : 0 .. AuthTries, failed : BOOLEAN,
           chan : BOOLEAN, shell : BOOLEAN, task : BOOLEAN]
Messages == [op : {"Fail", "Open"}, id : Conns]
Opened == [id : Conns, name : AdminNames, key : KeyIds \cup {NoKey}, published : BOOLEAN]

(* What holds of a connection s for which r failures were reported.        *)
Fits(s, r) ==
    /\ s.pre => s.at = "ending" \/ (s.at \in {"kex", "auth"} /\ ~s.shell)
    /\ s.at \in {"none", "kex"} => ~s.authed /\ s.refused = 0
    /\ s.dropped => s.at # "none"
    /\ s.at = "auth" => s.refused < AuthTries
    /\ s.failed => s.at \in {"ending", "done"}
    /\ s.authed => s.user = s.as /\ s.user \in AdminNames
    /\ (s.chan => s.authed) /\ (s.shell => s.chan) /\ (s.task => s.shell)
    /\ s.at # "done" => r = IF s.failed THEN 1 ELSE 0
    /\ s.at = "done" => r \in {0, 1} /\ (~s.authed /\ s.refused > 0 => r = 1)

GateShape ==
    /\ lim \in Limits /\ ssh \in [Conns -> Logins] /\ consoles \in Nat /\ inbox \in Seq(Messages)
    /\ records \in [AdminNames -> KeyIds \cup {NoKey}] /\ creds \in [AdminNames -> KeyIds \cup {NoKey}]
    /\ cons \subseteq Opened /\ reports \in [Conns -> Nat]
SlotsBound == Cardinality(InLogin) <= lim.preauth /\ \A ip \in Addrs : Cardinality(LiveOf(ip)) <= lim.preauthip

(* A console the credentials were published to has the key of its open.    *)
HeldToPublished == \A c \in cons : c.published => creds[c.name] = c.key

(* Who waits to be opened was checked, like who is open.                   *)
GateInv ==
    /\ GateShape /\ SlotsBound /\ SessionsBound /\ OpensAsAuthed /\ HeldToPublished
    /\ \A i \in Conns : Fits(ssh[i], reports[i])
    /\ \A i \in Opens : ssh[i].authed

(* Until the core opens it, a login that is not late has its key on        *)
(* record; so that is the key its console has.                             *)
KeysKept ==
    /\ \A i \in Waiting \ late : records[ssh[i].as] = ssh[i].key
    /\ \A c \in cons : c.id \notin late => c.key = ssh[c.id].key

(* The sets that are counted are finite.                                   *)
LEMMA ConnsFinite ==
    ASSUME NEW S, S \subseteq Conns
    PROVE  IsFiniteSet(S) /\ Cardinality(S) \in Nat
<1>1. MaxConns \in Nat /\ MaxConns \in Int  BY ConsoleGateAssumption
<1>2. IsFiniteSet(Conns)  BY <1>1, FS_Interval DEF Conns
<1> QED BY <1>2, FS_Subset, FS_CardinalityType

(* A step of one connection that takes no slot.                            *)
LEMMA NoSlotTaken ==
    ASSUME GateInv, ssh' \in [Conns -> Logins], lim' = lim, NEW i \in Conns,
           \A j \in Conns \ {i} : ssh'[j] = ssh[j],
           ssh'[i].pre => ssh[i].pre /\ ssh'[i].ip = ssh[i].ip /\ ssh'[i].dropped = ssh[i].dropped
    PROVE  SlotsBound'
<1>1. InLogin' \subseteq InLogin /\ \A ip \in Addrs : LiveOf(ip)' \subseteq LiveOf(ip)
  BY DEF InLogin, LiveOf, GateInv, GateShape
<1>2. InLogin \subseteq Conns /\ \A ip \in Addrs : LiveOf(ip) \subseteq Conns  BY DEF InLogin, LiveOf
<1>3. Cardinality(InLogin') <= Cardinality(InLogin) /\ \A ip \in Addrs : Cardinality(LiveOf(ip)') <= Cardinality(LiveOf(ip))
  BY <1>1, <1>2, ConnsFinite, FS_Subset
<1>4. Cardinality(InLogin') \in Nat /\ \A ip \in Addrs : Cardinality(LiveOf(ip)') \in Nat
  BY <1>1, <1>2, ConnsFinite
<1>5. Cardinality(InLogin) \in Nat /\ \A ip \in Addrs : Cardinality(LiveOf(ip)) \in Nat
  BY <1>2, ConnsFinite
<1>6. lim.preauth \in Nat /\ lim.preauthip \in Nat  BY ConsoleGateAssumption DEF GateInv, GateShape
<1>7. Cardinality(InLogin') <= lim.preauth  BY <1>3, <1>4, <1>5, <1>6 DEF GateInv, SlotsBound
<1>8. \A ip \in Addrs : Cardinality(LiveOf(ip)') <= lim.preauthip  BY <1>3, <1>4, <1>5, <1>6 DEF GateInv, SlotsBound
<1> QED BY <1>7, <1>8 DEF SlotsBound

(* A step that starts and ends no session, or ends one.                    *)
LEMMA NoSessionMore ==
    ASSUME GateInv, ssh' \in [Conns -> Logins], lim' = lim, consoles' = consoles, NEW i \in Conns,
           \A j \in Conns \ {i} : ssh'[j] = ssh[j], ssh'[i].task => ssh[i].task
    PROVE  SessionsBound'
<1>1. Tasks' \subseteq Tasks /\ Tasks \subseteq Conns  BY DEF Tasks, GateInv, GateShape
<1>2. Cardinality(Tasks') <= Cardinality(Tasks) /\ Cardinality(Tasks) \in Nat /\ Cardinality(Tasks') \in Nat
  BY <1>1, ConnsFinite, FS_Subset
<1> QED BY <1>2 DEF GateInv, GateShape, SessionsBound

(* A step of connections, which does not touch consoles that are open.     *)
LEMMA ConnectionsStep ==
    ASSUME GateInv, ssh' \in [Conns -> Logins], reports' \in [Conns -> Nat],
           \A j \in Conns : Fits(ssh'[j], reports'[j]), SlotsBound', SessionsBound', consoles' \in Nat,
           \A j \in Conns : ssh[j].authed => ssh'[j].authed /\ ssh'[j].as = ssh[j].as,
           lim' = lim, records' = records, creds' = creds, cons' = cons,
           \/ inbox' = inbox
           \/ \E m \in Messages : inbox' = Append(inbox, m) /\ (m.op = "Open" => ssh'[m.id].authed)
    PROVE  GateInv'
<1>1. inbox' \in Seq(Messages) /\ \A j \in Opens' : j \in Opens \/ ssh'[j].authed
  <2>1. CASE inbox' = inbox  BY <2>1 DEF GateInv, GateShape, Opens
  <2>2. ASSUME NEW m \in Messages, inbox' = Append(inbox, m), m.op = "Open" => ssh'[m.id].authed
        PROVE  inbox' \in Seq(Messages) /\ \A j \in Opens' : j \in Opens \/ ssh'[j].authed
    <3>1. inbox \in Seq(Messages)  BY DEF GateInv, GateShape
    <3>2. /\ inbox' \in Seq(Messages) /\ DOMAIN inbox = 1 .. Len(inbox) /\ Len(inbox) \in Nat
          /\ DOMAIN inbox' = 1 .. Len(inbox) + 1 /\ inbox'[Len(inbox) + 1] = m
          /\ \A k \in 1 .. Len(inbox) : inbox'[k] = inbox[k]
      BY <2>2, <3>1
    <3>3. ASSUME NEW k \in DOMAIN inbox', inbox'[k].op = "Open"
          PROVE  inbox'[k].id \in Opens \/ ssh'[inbox'[k].id].authed
      <4>1. CASE k \in 1 .. Len(inbox)  BY <3>2, <3>3, <4>1 DEF Opens
      <4>2. CASE k = Len(inbox) + 1  BY <2>2, <3>2, <3>3, <4>2
      <4> QED BY <3>2, <4>1, <4>2
    <3> QED BY <3>2, <3>3 DEF Opens
  <2> QED BY <2>1, <2>2
<1>2. Opens \subseteq Conns
  <2>1. inbox \in Seq(Messages)  BY DEF GateInv, GateShape
  <2>2. \A k \in DOMAIN inbox : inbox[k] \in Messages  BY <2>1
  <2>3. \A m \in Messages : m.id \in Conns  BY DEF Messages
  <2> QED BY <2>2, <2>3 DEF Opens
<1>3. \A j \in Conns : ssh[j].authed => ssh'[j].authed /\ ssh'[j].as = ssh[j].as  OBVIOUS
<1>4. \A j \in Opens' : ssh'[j].authed  BY <1>1, <1>2, <1>3 DEF GateInv
<1>5. \A c \in cons : c.id \in Conns  BY DEF GateInv, GateShape, Opened
<1>6. OpensAsAuthed' /\ HeldToPublished'  BY <1>3, <1>5 DEF GateInv, OpensAsAuthed, HeldToPublished
<1>7. GateShape'  BY <1>1 DEF GateInv, GateShape
<1> QED BY <1>4, <1>6, <1>7 DEF GateInv

(* When it is one connection, it is enough to look at that one.            *)
LEMMA OneConnection ==
    ASSUME GateInv, NEW i \in Conns, ssh' \in [Conns -> Logins], \A j \in Conns \ {i} : ssh'[j] = ssh[j],
           reports' \in [Conns -> Nat], \A j \in Conns \ {i} : reports'[j] = reports[j],
           Fits(ssh'[i], reports'[i]), SlotsBound', SessionsBound', consoles' \in Nat,
           ssh[i].authed => ssh'[i].authed /\ ssh'[i].as = ssh[i].as,
           lim' = lim, records' = records, creds' = creds, cons' = cons,
           \/ inbox' = inbox
           \/ \E m \in Messages : inbox' = Append(inbox, m) /\ (m.op = "Open" => ssh'[m.id].authed)
    PROVE  GateInv'
<1>1. \A j \in Conns : Fits(ssh'[j], reports'[j])  BY DEF GateInv
<1>2. \A j \in Conns : ssh[j].authed => ssh'[j].authed /\ ssh'[j].as = ssh[j].as  OBVIOUS
<1> QED BY <1>1, <1>2, ConnectionsStep

(* Steps within a connection that tell nobody.                             *)
LEMMA QuietSteps ==
    ASSUME GateInv, NEW i \in Conns,
           KeyExchange(i) \/ channel_open_session(i) \/ violation(i) \/ Grace(i) \/ Evicted(i) \/ Hangup(i)
    PROVE  GateInv'
<1>1. ssh[i] \in Logins /\ Fits(ssh[i], reports[i])  BY DEF GateInv, GateShape
<1>2. UNCHANGED <<lim, consoles, inbox, records, creds, cons, reports>>
  BY DEF KeyExchange, channel_open_session, violation, Grace, Evicted, Hangup, EndsNow
<1>3. \/ ssh[i].at = "kex" /\ ssh' = [ssh EXCEPT ![i].at = "auth"]
      \/ ssh[i].at = "auth" /\ ssh[i].authed /\ ssh' = [ssh EXCEPT ![i].chan = TRUE]
      \/ ssh[i].at \in {"kex", "auth"} /\ ssh' = [ssh EXCEPT ![i].at = "ending"]
  BY DEF KeyExchange, channel_open_session, violation, Grace, Evicted, Hangup, EndsNow, GraceOver
<1>4. ssh \in [Conns -> Logins] /\ reports \in [Conns -> Nat] /\ consoles \in Nat  BY DEF GateInv, GateShape
<1>5. \/ ssh[i].at = "kex" /\ ssh'[i] = [ssh[i] EXCEPT !.at = "auth"]
      \/ ssh[i].at = "auth" /\ ssh[i].authed /\ ssh'[i] = [ssh[i] EXCEPT !.chan = TRUE]
      \/ ssh[i].at \in {"kex", "auth"} /\ ssh'[i] = [ssh[i] EXCEPT !.at = "ending"]
  BY <1>3, <1>4
<1>6. ssh' \in [Conns -> Logins] /\ \A j \in Conns \ {i} : ssh'[j] = ssh[j]
  <2>1. ssh'[i] \in Logins  BY <1>1, <1>5 DEF Logins, Places
  <2> QED BY <1>3, <1>4, <2>1
<1>7. /\ ssh'[i].pre = ssh[i].pre /\ ssh'[i].ip = ssh[i].ip /\ ssh'[i].dropped = ssh[i].dropped
      /\ ssh'[i].task = ssh[i].task /\ ssh'[i].authed = ssh[i].authed /\ ssh'[i].as = ssh[i].as
  BY <1>1, <1>5 DEF Logins
<1>8. Fits(ssh'[i], reports[i])  BY <1>1, <1>5, ConsoleGateAssumption DEF Fits, Logins
<1>9. SlotsBound'  BY <1>2, <1>6, <1>7, NoSlotTaken
<1>10. SessionsBound'  BY <1>2, <1>6, <1>7, NoSessionMore
<1> QED BY <1>2, <1>4, <1>6, <1>7, <1>8, <1>9, <1>10, OneConnection

(* What report_fail adds.                                                  *)
LEMMA FailAdds ==
    ASSUME GateInv, NEW i \in Conns, report_fail(i)
    PROVE  /\ reports' \in [Conns -> Nat] /\ \A j \in Conns \ {i} : reports'[j] = reports[j]
           /\ reports'[i] = IF ssh[i].failed THEN reports[i] ELSE reports[i] + 1
           /\ \/ inbox' = inbox
              \/ \E m \in Messages : inbox' = Append(inbox, m) /\ m.op # "Open"
<1>1. reports \in [Conns -> Nat]  BY DEF GateInv, GateShape
<1>2. [op |-> "Fail", id |-> i] \in Messages  BY DEF Messages
<1> QED BY <1>1, <1>2 DEF report_fail

(* A key that does not fit, or is offered.                                 *)
LEMMA RefusedStep ==
    ASSUME GateInv, NEW i \in Conns, NEW u \in Named, ssh[i].at = "auth", ~ssh[i].authed, refuse(i, u),
           UNCHANGED <<lim, consoles, records, creds, cons>>
    PROVE  GateInv'
<1> DEFINE n == ssh[i].refused + 1
<1>1. ssh[i] \in Logins /\ Fits(ssh[i], reports[i])  BY DEF GateInv, GateShape
<1>2. ssh \in [Conns -> Logins] /\ reports \in [Conns -> Nat] /\ consoles \in Nat  BY DEF GateInv, GateShape
<1>3. AuthTries \in Nat \ {0} /\ ssh[i].refused \in Nat /\ ssh[i].refused < AuthTries /\ ~ssh[i].failed /\ n \in 0 .. AuthTries
  BY <1>1, ConsoleGateAssumption DEF Fits, Logins
<1>4. reports[i] = 0  BY <1>1, <1>3 DEF Fits
<1> DEFINE s == IF n >= AuthTries THEN [ssh[i] EXCEPT !.user = u, !.refused = n, !.failed = TRUE, !.at = "ending"]
                ELSE [ssh[i] EXCEPT !.user = u, !.refused = n]
<1>5. s \in Logins  BY <1>1, <1>3 DEF Logins, Places
<1>6. ssh' \in [Conns -> Logins] /\ ssh'[i] = s /\ \A j \in Conns \ {i} : ssh'[j] = ssh[j]
  <2>1. CASE n >= AuthTries  BY <1>2, <1>5, <2>1 DEF refuse
  <2>2. CASE ~(n >= AuthTries)  BY <1>2, <1>5, <2>2 DEF refuse
  <2> QED BY <2>1, <2>2
<1>7. /\ ssh'[i].pre = ssh[i].pre /\ ssh'[i].ip = ssh[i].ip /\ ssh'[i].dropped = ssh[i].dropped /\ ssh'[i].task = ssh[i].task
  BY <1>1, <1>6 DEF Logins
<1>8. /\ reports' \in [Conns -> Nat] /\ \A j \in Conns \ {i} : reports'[j] = reports[j]
      /\ reports'[i] = IF n >= AuthTries THEN 1 ELSE 0
      /\ inbox' = inbox \/ \E m \in Messages : inbox' = Append(inbox, m) /\ m.op # "Open"
  <2>1. CASE n >= AuthTries  BY <1>3, <1>4, <2>1, FailAdds DEF refuse
  <2>2. CASE ~(n >= AuthTries)  BY <1>2, <1>4, <2>2 DEF refuse
  <2> QED BY <2>1, <2>2
<1>9. Fits(ssh'[i], reports'[i])
  <2>1. CASE n >= AuthTries  BY <1>1, <1>3, <1>6, <1>8, <2>1 DEF Fits, Logins
  <2>2. CASE ~(n >= AuthTries)  BY <1>1, <1>3, <1>6, <1>8, <2>2 DEF Fits, Logins
  <2> QED BY <2>1, <2>2
<1>10. SlotsBound'  BY <1>6, <1>7, NoSlotTaken
<1>11. SessionsBound'  BY <1>6, <1>7, NoSessionMore
<1> QED BY <1>2, <1>6, <1>8, <1>9, <1>10, <1>11, OneConnection

(* A key is offered, or signed with.                                       *)
LEMMA AuthSteps ==
    ASSUME GateInv, NEW i \in Conns, NEW u \in AdminNames, NEW k \in KeyIds,
           auth_publickey_offered(i, u, k) \/ auth_publickey(i, u, k)
    PROVE  GateInv'
<1>1. ssh[i] \in Logins /\ Fits(ssh[i], reports[i])  BY DEF GateInv, GateShape
<1>2. ssh \in [Conns -> Logins] /\ reports \in [Conns -> Nat] /\ consoles \in Nat  BY DEF GateInv, GateShape
<1>3. ssh[i].at = "auth" /\ ~ssh[i].authed /\ UNCHANGED <<lim, consoles, records, creds, cons>>
  BY DEF auth_publickey_offered, auth_publickey
<1>4. \/ refuse(i, u) \/ refuse(i, ssh[i].user)
      \/ ssh' = [ssh EXCEPT ![i].user = u] /\ UNCHANGED <<reports, inbox>>
      \/ ssh' = [ssh EXCEPT ![i].authed = TRUE, ![i].as = u, ![i].key = k, ![i].user = u] /\ UNCHANGED <<reports, inbox>>
  BY DEF auth_publickey_offered, auth_publickey, Authed
<1>5. CASE refuse(i, u) \/ refuse(i, ssh[i].user)
  <2>1. u \in Named /\ ssh[i].user \in Named  BY <1>1 DEF Logins, Named
  <2> QED BY <1>3, <1>5, <2>1, RefusedStep
<1>6. CASE UNCHANGED <<reports, inbox>> /\ (\/ ssh' = [ssh EXCEPT ![i].user = u]
                                            \/ ssh' = [ssh EXCEPT ![i].authed = TRUE, ![i].as = u, ![i].key = k, ![i].user = u])
  <2>1. \/ ssh'[i] = [ssh[i] EXCEPT !.user = u]
        \/ ssh'[i] = [ssh[i] EXCEPT !.authed = TRUE, !.as = u, !.key = k, !.user = u]
    BY <1>2, <1>6
  <2>2. ssh' \in [Conns -> Logins] /\ \A j \in Conns \ {i} : ssh'[j] = ssh[j]
    <3>1. ssh'[i] \in Logins  BY <1>1, <2>1 DEF Logins, Named
    <3> QED BY <1>2, <1>6, <3>1
  <2>3. /\ ssh'[i].pre = ssh[i].pre /\ ssh'[i].ip = ssh[i].ip /\ ssh'[i].dropped = ssh[i].dropped /\ ssh'[i].task = ssh[i].task
    BY <1>1, <2>1 DEF Logins
  <2>4. Fits(ssh'[i], reports'[i])
    <3>1. reports'[i] = reports[i]  BY <1>6
    <3>2. CASE ssh'[i] = [ssh[i] EXCEPT !.user = u]  BY <1>1, <1>3, <3>1, <3>2 DEF Fits, Logins
    <3>3. CASE ssh'[i] = [ssh[i] EXCEPT !.authed = TRUE, !.as = u, !.key = k, !.user = u]
      BY <1>1, <1>3, <3>1, <3>3 DEF Fits, Logins
    <3> QED BY <2>1, <3>2, <3>3
  <2>5. SlotsBound'  BY <1>3, <2>2, <2>3, NoSlotTaken
  <2>6. SessionsBound'  BY <1>3, <2>2, <2>3, NoSessionMore
  <2> QED BY <1>2, <1>3, <1>6, <2>2, <2>4, <2>5, <2>6, OneConnection
<1> QED BY <1>4, <1>5, <1>6

(* A shell is asked for: one session more, or none.                        *)
LEMMA ShellStep == ASSUME GateInv, NEW i \in Conns, shell_request(i) PROVE GateInv'
<1>1. ssh[i] \in Logins /\ Fits(ssh[i], reports[i])  BY DEF GateInv, GateShape
<1>2. /\ ssh \in [Conns -> Logins] /\ reports \in [Conns -> Nat] /\ consoles \in Nat /\ lim.sessions \in Nat
      /\ Tasks \subseteq Conns /\ Cardinality(Tasks) <= consoles /\ consoles <= lim.sessions
  BY ConsoleGateAssumption DEF GateInv, GateShape, SessionsBound, Tasks
<1>3. /\ ssh[i].at = "auth" /\ ssh[i].chan /\ ~ssh[i].shell /\ ssh[i].authed /\ ~ssh[i].task
      /\ UNCHANGED <<lim, records, creds, cons, reports>>
  BY <1>1 DEF shell_request, Fits
<1>4. CASE OpensShell(i) /\ consoles < lim.sessions
  <2>1. ssh'[i] = [ssh[i] EXCEPT !.pre = FALSE, !.shell = TRUE, !.task = TRUE]  BY <1>2, <1>4 DEF OpensShell
  <2>2. ssh'[i] \in Logins  BY <1>1, <2>1 DEF Logins
  <2>3. ssh' \in [Conns -> Logins] /\ \A j \in Conns \ {i} : ssh'[j] = ssh[j]  BY <1>2, <1>4, <2>2 DEF OpensShell
  <2>4. ~ssh'[i].pre /\ ssh'[i].task /\ ssh'[i].authed /\ ssh'[i].as = ssh[i].as  BY <1>1, <1>3, <2>1 DEF Logins
  <2>5. Fits(ssh'[i], reports'[i])  BY <1>1, <1>3, <2>1 DEF Fits, Logins
  <2>6. SlotsBound'  BY <1>3, <2>3, <2>4, NoSlotTaken
  <2>7. consoles' = consoles + 1 /\ consoles' \in Nat  BY <1>2, <1>4 DEF OpensShell
  <2>8. SessionsBound'
    <3>1. Tasks' = Tasks \cup {i} /\ i \notin Tasks  BY <1>3, <2>3, <2>4 DEF Tasks
    <3>2. Cardinality(Tasks') = Cardinality(Tasks) + 1 /\ Cardinality(Tasks) \in Nat
      BY <1>2, <3>1, ConnsFinite, FS_AddElement
    <3> QED BY <1>2, <1>3, <1>4, <2>7, <3>2 DEF SessionsBound
  <2>9. \E m \in Messages : inbox' = Append(inbox, m) /\ (m.op = "Open" => ssh'[m.id].authed)
    <3>1. [op |-> "Open", id |-> i] \in Messages  BY DEF Messages
    <3> QED BY <1>4, <2>4, <3>1 DEF OpensShell
  <2> QED BY <1>2, <1>3, <2>3, <2>4, <2>5, <2>6, <2>7, <2>8, <2>9, OneConnection
<1>5. CASE NoSocketpair(i) /\ consoles < lim.sessions
  <2>1. ssh'[i] = [ssh[i] EXCEPT !.pre = FALSE, !.at = "ending"]  BY <1>2, <1>5 DEF NoSocketpair
  <2>2. ssh'[i] \in Logins  BY <1>1, <2>1 DEF Logins, Places
  <2>3. ssh' \in [Conns -> Logins] /\ \A j \in Conns \ {i} : ssh'[j] = ssh[j]  BY <1>2, <1>5, <2>2 DEF NoSocketpair
  <2>4. ~ssh'[i].pre /\ ~ssh'[i].task /\ ssh'[i].authed /\ ssh'[i].as = ssh[i].as  BY <1>1, <1>3, <2>1 DEF Logins
  <2>5. Fits(ssh'[i], reports'[i])  BY <1>1, <1>3, <2>1 DEF Fits, Logins
  <2>6. SlotsBound'  BY <1>3, <2>3, <2>4, NoSlotTaken
  <2>7. consoles' = consoles + 1 /\ consoles' \in Nat /\ inbox' = inbox  BY <1>2, <1>5 DEF NoSocketpair
  <2>8. SessionsBound'
    <3>1. Tasks' = Tasks  BY <1>2, <1>3, <2>3, <2>4 DEF Tasks
    <3>2. Cardinality(Tasks') = Cardinality(Tasks) /\ Cardinality(Tasks) \in Nat  BY <1>2, <3>1, ConnsFinite
    <3> QED BY <1>2, <1>3, <1>5, <2>7, <3>2 DEF SessionsBound
  <2> QED BY <1>2, <1>3, <2>3, <2>4, <2>5, <2>6, <2>7, <2>8, OneConnection
<1>6. CASE ssh' = [ssh EXCEPT ![i].at = "ending"] /\ UNCHANGED <<consoles, inbox>>
  <2>1. ssh'[i] = [ssh[i] EXCEPT !.at = "ending"]  BY <1>2, <1>6
  <2>2. ssh'[i] \in Logins  BY <1>1, <2>1 DEF Logins, Places
  <2>3. ssh' \in [Conns -> Logins] /\ \A j \in Conns \ {i} : ssh'[j] = ssh[j]  BY <1>2, <1>6, <2>2
  <2>4. /\ ssh'[i].pre = ssh[i].pre /\ ssh'[i].ip = ssh[i].ip /\ ssh'[i].dropped = ssh[i].dropped
        /\ ssh'[i].task = ssh[i].task /\ ssh'[i].authed = ssh[i].authed /\ ssh'[i].as = ssh[i].as
    BY <1>1, <2>1 DEF Logins
  <2>5. Fits(ssh'[i], reports'[i])  BY <1>1, <1>3, <2>1 DEF Fits, Logins
  <2>6. SlotsBound' /\ SessionsBound'  BY <1>3, <1>6, <2>3, <2>4, NoSlotTaken, NoSessionMore
  <2> QED BY <1>2, <1>3, <1>6, <2>3, <2>4, <2>5, <2>6, OneConnection
<1>7. \/ (OpensShell(i) \/ NoSocketpair(i)) /\ ~(consoles >= lim.sessions)
      \/ ssh' = [ssh EXCEPT ![i].at = "ending"] /\ UNCHANGED <<consoles, inbox>>
  BY DEF shell_request
<1>8. ~(consoles >= lim.sessions) => consoles < lim.sessions  BY <1>2
<1> QED BY <1>4, <1>5, <1>6, <1>7, <1>8

(* A session ends.                                                         *)
LEMMA TaskStep == ASSUME GateInv, NEW i \in Conns, console_task(i) PROVE GateInv'
<1>1. ssh[i] \in Logins /\ Fits(ssh[i], reports[i])  BY DEF GateInv, GateShape
<1>2. /\ ssh \in [Conns -> Logins] /\ reports \in [Conns -> Nat] /\ consoles \in Nat /\ lim.sessions \in Nat
      /\ Tasks \subseteq Conns /\ Cardinality(Tasks) <= consoles /\ consoles <= lim.sessions
  BY ConsoleGateAssumption DEF GateInv, GateShape, SessionsBound, Tasks
<1>3. ssh[i].task /\ consoles' = consoles - 1 /\ UNCHANGED <<lim, inbox, records, creds, cons, reports>>  BY DEF console_task
<1>4. ssh'[i] = [ssh[i] EXCEPT !.task = FALSE, !.at = IF ssh[i].at = "auth" THEN "ending" ELSE ssh[i].at]
  <2>1. ssh' = [ssh EXCEPT ![i].task = FALSE, ![i].at = IF @ = "auth" THEN "ending" ELSE @]  BY DEF console_task
  <2> QED BY <1>1, <1>2, <2>1 DEF Logins
<1>5. ssh'[i] \in Logins  BY <1>1, <1>4 DEF Logins, Places
<1>6. ssh' \in [Conns -> Logins] /\ \A j \in Conns \ {i} : ssh'[j] = ssh[j]  BY <1>2, <1>5 DEF console_task
<1>7. /\ ssh'[i].pre = ssh[i].pre /\ ssh'[i].ip = ssh[i].ip /\ ssh'[i].dropped = ssh[i].dropped
      /\ ~ssh'[i].task /\ ssh'[i].authed = ssh[i].authed /\ ssh'[i].as = ssh[i].as
  BY <1>1, <1>4 DEF Logins
<1>8. Fits(ssh'[i], reports'[i])  BY <1>1, <1>3, <1>4 DEF Fits, Logins
<1>9. SlotsBound'  BY <1>3, <1>6, <1>7, NoSlotTaken
<1>10. SessionsBound' /\ consoles' \in Nat
  <2>1. Tasks' = Tasks \ {i} /\ i \in Tasks  BY <1>3, <1>6, <1>7 DEF Tasks
  <2>2. Cardinality(Tasks') = Cardinality(Tasks) - 1 /\ Cardinality(Tasks) \in Nat /\ Cardinality(Tasks') \in Nat
    BY <1>2, <2>1, ConnsFinite, FS_RemoveElement
  <2> QED BY <1>2, <1>3, <2>2 DEF SessionsBound
<1> QED BY <1>2, <1>3, <1>6, <1>7, <1>8, <1>9, <1>10, OneConnection

(* A connection is over, and what was not reported is.                     *)
LEMMA FinishStep == ASSUME GateInv, NEW i \in Conns, Finish(i) PROVE GateInv'
<1>1. ssh[i] \in Logins /\ Fits(ssh[i], reports[i])  BY DEF GateInv, GateShape
<1>2. ssh \in [Conns -> Logins] /\ reports \in [Conns -> Nat] /\ consoles \in Nat  BY DEF GateInv, GateShape
<1>3. ssh[i].at = "ending" /\ UNCHANGED <<lim, consoles, records, creds, cons>>  BY DEF Finish
<1>4. ssh'[i] = [ssh[i] EXCEPT !.at = "done", !.pre = FALSE]  BY <1>2 DEF Finish
<1>5. ssh'[i] \in Logins  BY <1>1, <1>4 DEF Logins, Places
<1>6. ssh' \in [Conns -> Logins] /\ \A j \in Conns \ {i} : ssh'[j] = ssh[j]  BY <1>2, <1>5 DEF Finish
<1>7. ~ssh'[i].pre /\ ssh'[i].task = ssh[i].task /\ ssh'[i].authed = ssh[i].authed /\ ssh'[i].as = ssh[i].as
  BY <1>1, <1>4 DEF Logins
<1>8. /\ reports' \in [Conns -> Nat] /\ \A j \in Conns \ {i} : reports'[j] = reports[j]
      /\ reports'[i] = IF ~ssh[i].authed /\ ssh[i].refused > 0 /\ ~ssh[i].failed THEN reports[i] + 1 ELSE reports[i]
      /\ inbox' = inbox \/ \E m \in Messages : inbox' = Append(inbox, m) /\ m.op # "Open"
  <2>1. CASE ~ssh[i].authed /\ ssh[i].refused > 0  BY <2>1, FailAdds DEF Finish
  <2>2. CASE ~(~ssh[i].authed /\ ssh[i].refused > 0)  BY <1>2, <2>2 DEF Finish
  <2> QED BY <2>1, <2>2
<1>9. Fits(ssh'[i], reports'[i])  BY <1>1, <1>3, <1>4, <1>8 DEF Fits, Logins
<1>10. SlotsBound'  BY <1>3, <1>6, <1>7, NoSlotTaken
<1>11. SessionsBound'  BY <1>3, <1>6, <1>7, NoSessionMore
<1> QED BY <1>2, <1>3, <1>6, <1>7, <1>8, <1>9, <1>10, <1>11, OneConnection

(* Steps of the core, which does not touch the connections.                *)
LEMMA CoreStep ==
    ASSUME GateInv, UNCHANGED <<lim, ssh, consoles, reports>>,
           inbox' = inbox \/ inbox' = <<>>,
           records' \in [AdminNames -> KeyIds \cup {NoKey}], creds' \in [AdminNames -> KeyIds \cup {NoKey}],
           cons' \subseteq Opened, OpensAsAuthed', HeldToPublished'
    PROVE  GateInv'
<1>1. inbox' \in Seq(Messages)
  <2>1. inbox \in Seq(Messages) /\ <<>> \in Seq(Messages)  BY DEF GateInv, GateShape
  <2> QED BY <2>1
<1>2. Opens' \subseteq Opens  BY DEF Opens
<1>3. SlotsBound' /\ SessionsBound'  BY DEF GateInv, SlotsBound, SessionsBound, InLogin, LiveOf, Tasks
<1> QED BY <1>1, <1>2, <1>3 DEF GateInv, GateShape

(* Consoles are opened for who was checked, and closed.                    *)
LEMMA ConsoleSteps ==
    ASSUME GateInv, (\E fit \in SUBSET Opens : on_wake(fit)) \/ (\E i \in Conns : read_console(i))
    PROVE  GateInv'
<1>1. /\ records \in [AdminNames -> KeyIds \cup {NoKey}] /\ creds \in [AdminNames -> KeyIds \cup {NoKey}]
      /\ ssh \in [Conns -> Logins] /\ cons \subseteq Opened /\ OpensAsAuthed /\ HeldToPublished
  BY DEF GateInv, GateShape
<1>2. ASSUME NEW fit \in SUBSET Opens, on_wake(fit) PROVE GateInv'
  <2>1. inbox \in Seq(Messages) /\ \A m \in Messages : m.id \in Conns  BY DEF GateInv, GateShape, Messages
  <2>2. \A k \in DOMAIN inbox : inbox[k] \in Messages  BY <2>1
  <2>3. \A i \in Opens : i \in Conns /\ ssh[i].authed /\ ssh[i].user = ssh[i].as /\ ssh[i].user \in AdminNames
    BY <2>1, <2>2 DEF Opens, GateInv, Fits
  <2>4. ASSUME NEW c \in cons' \ cons
        PROVE  c \in Opened /\ ssh[c.id].authed /\ c.name = ssh[c.id].as /\ ~c.published
    <3>1. PICK i \in Opens : c \in open_console(i)  BY <1>2 DEF on_wake
    <3>2. c = [id |-> i, name |-> ssh[i].user, key |-> records[ssh[i].user], published |-> FALSE]
      BY <3>1 DEF open_console
    <3> QED BY <1>1, <2>3, <3>2 DEF Opened
  <2>5. UNCHANGED <<lim, ssh, consoles, reports, records, creds>> /\ inbox' = <<>>  BY <1>2 DEF on_wake
  <2>6. cons' \subseteq Opened /\ OpensAsAuthed' /\ HeldToPublished'
    BY <1>1, <2>4, <2>5 DEF OpensAsAuthed, HeldToPublished
  <2> QED BY <1>1, <2>5, <2>6, CoreStep
<1>3. ASSUME NEW i \in Conns, read_console(i) PROVE GateInv'
  <2>1. UNCHANGED <<lim, ssh, consoles, reports, records, creds, inbox>> /\ cons' \subseteq cons  BY <1>3 DEF read_console
  <2>2. cons' \subseteq Opened /\ OpensAsAuthed' /\ HeldToPublished'
    BY <1>1, <2>1 DEF OpensAsAuthed, HeldToPublished
  <2> QED BY <1>1, <2>1, <2>2, CoreStep
<1> QED BY <1>2, <1>3

(* Credentials are published and the consoles held to them.                *)
LEMMA RefreshStep == ASSUME GateInv, refresh_creds PROVE GateInv'
<1> DEFINE new == build_creds(records)
<1>1. /\ records \in [AdminNames -> KeyIds \cup {NoKey}] /\ cons \subseteq Opened /\ OpensAsAuthed
  BY DEF GateInv, GateShape
<1>2. new \in [AdminNames -> KeyIds \cup {NoKey}]  BY <1>1 DEF build_creds
<1> HIDE DEF new
<1>3. /\ creds' = new /\ UNCHANGED <<lim, ssh, consoles, inbox, records, reports>>
      /\ cons' = {[c EXCEPT !.published = TRUE] : c \in {d \in cons : creds_hold(d, new)}}
  BY DEF refresh_creds, new
<1>4. ASSUME NEW e \in cons'
      PROVE  e \in Opened /\ ssh[e.id].authed /\ e.name = ssh[e.id].as /\ new[e.name] = e.key
  <2>1. PICK c \in cons : e = [c EXCEPT !.published = TRUE] /\ creds_hold(c, new)  BY <1>3
  <2>2. c \in Opened /\ ssh[c.id].authed /\ c.name = ssh[c.id].as /\ new[c.name] = c.key
    BY <1>1, <2>1 DEF OpensAsAuthed, creds_hold
  <2>3. e \in Opened /\ e.id = c.id /\ e.name = c.name /\ e.key = c.key  BY <2>1, <2>2 DEF Opened
  <2> QED BY <2>2, <2>3
<1>5. cons' \subseteq Opened /\ OpensAsAuthed' /\ HeldToPublished'  BY <1>3, <1>4 DEF OpensAsAuthed, HeldToPublished
<1> QED BY <1>1, <1>2, <1>3, <1>5, CoreStep

(* A record changes; nothing is published yet.                             *)
LEMMA AdminStep ==
    ASSUME GateInv, NEW a \in AdminNames, NEW k \in KeyIds \cup {NoKey}, AdminChanges(a, k)
    PROVE  GateInv'
<1>1. /\ records \in [AdminNames -> KeyIds \cup {NoKey}] /\ creds \in [AdminNames -> KeyIds \cup {NoKey}]
      /\ cons \subseteq Opened /\ OpensAsAuthed /\ HeldToPublished
  BY DEF GateInv, GateShape
<1>2. UNCHANGED <<lim, ssh, consoles, inbox, creds, cons, reports>> /\ records' = [records EXCEPT ![a] = k]
  BY DEF AdminChanges
<1>3. OpensAsAuthed' /\ HeldToPublished'  BY <1>1, <1>2 DEF OpensAsAuthed, HeldToPublished
<1> QED BY <1>1, <1>2, <1>3, CoreStep

(* A set of numbers with an upper bound has a greatest one.                *)
LEMMA GreatestOf ==
    ASSUME NEW S, S # {}, NEW B \in Nat, NEW T, \A x \in S : T[x] \in 0 .. B
    PROVE  \E m \in S : \A x \in S : T[x] <= T[m]
<1> DEFINE D == {B - T[x] : x \in S}
<1>1. D \subseteq Nat /\ D # {}
  <2>1. \A x \in S : B - T[x] \in Nat  OBVIOUS
  <2> QED BY <2>1
<1>2. PICK d \in D : \A e \in D : ~(<<e, d>> \in OpToRel(<, Nat))
  BY <1>1, NatLessThanWellFounded, WFMin
<1>3. PICK m \in S : d = B - T[m]  BY <1>2
<1>4. ASSUME NEW x \in S PROVE T[x] <= T[m]
  <2>1. T[x] \in Nat /\ T[m] \in Nat /\ B - T[x] \in D /\ B - T[x] \in Nat /\ d \in Nat  BY <1>1, <1>3
  <2>2. ~(B - T[x] < d)  BY <1>2, <2>1 DEF OpToRel
  <2> QED BY <1>3, <2>1, <2>2
<1> QED BY <1>4

(* The slots of the address of login v, newcomer from ip counted.          *)
Held(v, ip) == Cardinality(LiveOf(ssh[v].ip)) + (IF ssh[v].ip = ip THEN 1 ELSE 0)

(* evict_pick finds a login of an address that holds most slots.           *)
LEMMA EvictPicks ==
    ASSUME GateInv, InLogin # {}, NEW ip \in Addrs
    PROVE  /\ evict_pick(ip) \in InLogin
           /\ \A w \in InLogin : Held(w, ip) \in Nat /\ Held(w, ip) <= Held(evict_pick(ip), ip)
<1>1. MaxConns \in Nat /\ InLogin \subseteq Conns  BY ConsoleGateAssumption DEF InLogin
<1>2. ASSUME NEW v PROVE Cardinality(LiveOf(ssh[v].ip)) \in 0 .. MaxConns
  <2>1. LiveOf(ssh[v].ip) \subseteq Conns  BY DEF LiveOf, InLogin
  <2>2. IsFiniteSet(Conns) /\ Cardinality(Conns) = MaxConns
    <3>1. MaxConns \in Int /\ 1 \in Int  BY <1>1
    <3>2. IsFiniteSet(1 .. MaxConns) /\ Cardinality(1 .. MaxConns) = IF 1 > MaxConns THEN 0 ELSE MaxConns - 1 + 1
      BY <3>1, FS_Interval
    <3> QED BY <1>1, <3>2 DEF Conns
  <2>3. Cardinality(LiveOf(ssh[v].ip)) <= MaxConns  BY <2>1, <2>2, FS_Subset
  <2> QED BY <1>1, <2>1, <2>3, ConnsFinite
<1> DEFINE T == [v \in InLogin |-> Held(v, ip)]
<1>3. \A v \in InLogin : T[v] \in 0 .. MaxConns + 1  BY <1>1, <1>2 DEF Held
<1>4. MaxConns + 1 \in Nat  BY <1>1
<1> HIDE DEF T
<1>5. PICK m \in InLogin : \A x \in InLogin : T[x] <= T[m]  BY <1>3, <1>4, GreatestOf
<1> DEFINE S == {v \in InLogin : T[v] = T[m]}
           U == [v \in S |-> MaxConns - v]
<1>6. S # {} /\ \A v \in S : U[v] \in 0 .. MaxConns
  <2>1. \A v \in S : v \in 1 .. MaxConns  BY <1>1 DEF Conns
  <2> QED BY <1>1, <1>5, <2>1
<1> HIDE DEF U
<1>7. PICK o \in S : \A x \in S : U[x] <= U[o]
  <2> HIDE DEF S
  <2> QED BY <1>1, <1>6, GreatestOf
<1>8. \A w \in InLogin : T[o] > T[w] \/ (T[o] = T[w] /\ o <= w)
  <2>1. ASSUME NEW w \in InLogin, T[w] = T[m] PROVE o <= w
    <3>1. w \in S /\ w \in 1 .. MaxConns /\ o \in 1 .. MaxConns  BY <1>1, <2>1 DEF Conns
    <3>2. MaxConns - w <= MaxConns - o  BY <1>7, <3>1 DEF U
    <3> QED BY <1>1, <3>1, <3>2
  <2>2. \A w \in InLogin : T[w] \in Nat /\ T[w] <= T[m]  BY <1>1, <1>3, <1>5
  <2> QED BY <2>1, <2>2
<1>9. \A w \in InLogin : Held(o, ip) > Held(w, ip) \/ (Held(o, ip) = Held(w, ip) /\ o <= w)  BY <1>8 DEF T
<1> DEFINE P(v) == \A w \in InLogin : Held(v, ip) > Held(w, ip) \/ (Held(v, ip) = Held(w, ip) /\ v <= w)
<1>10. evict_pick(ip) = CHOOSE v \in InLogin : P(v)  BY DEF evict_pick, Held
<1>11. o \in InLogin /\ P(o)  BY <1>9
<1> HIDE DEF P
<1>12. evict_pick(ip) \in InLogin /\ P(evict_pick(ip))  BY <1>10, <1>11
<1>13. \A w \in InLogin : Held(w, ip) \in Nat  BY <1>1, <1>3 DEF T
<1>14. \A w \in InLogin : Held(w, ip) <= Held(evict_pick(ip), ip)  BY <1>12, <1>13 DEF P
<1> QED BY <1>12, <1>13, <1>14

(* A slot is taken from login v for the newcomer i.                        *)
LEMMA EvictStep ==
    ASSUME GateInv, NEW i \in Conns, NEW ip \in Addrs, connection(i, ip),
           ~(Cardinality(LiveOf(ip)) >= lim.preauthip), Cardinality(InLogin) >= lim.preauth
    PROVE  \E v \in InLogin \ {i} :
              /\ ssh' = [ssh EXCEPT ![i] = [ssh[i] EXCEPT !.at = "kex", !.ip = ip, !.pre = TRUE],
                                    ![v] = [ssh[v] EXCEPT !.dropped = TRUE]]
              /\ \A w \in InLogin : Held(w, ip) \in Nat /\ Held(w, ip) <= Held(v, ip)
<1> DEFINE v == evict_pick(ip)
<1>1. lim.preauth \in Nat \ {0} /\ InLogin \subseteq Conns  BY ConsoleGateAssumption DEF GateInv, GateShape, InLogin
<1>2. InLogin # {}
  <2>1. InLogin = {} => Cardinality(InLogin) = 0  BY FS_EmptySet
  <2> QED BY <1>1, <2>1
<1>3. v \in InLogin /\ \A w \in InLogin : Held(w, ip) \in Nat /\ Held(w, ip) <= Held(v, ip)  BY <1>2, EvictPicks
<1>4. v # i
  <2>1. ssh[i].at = "none" /\ Fits(ssh[i], reports[i])  BY DEF connection, GateInv
  <2>2. ~ssh[i].pre  BY <2>1 DEF Fits
  <2> QED BY <1>3, <2>2 DEF InLogin
<1>5. ssh' = [[ssh EXCEPT ![i].at = "kex", ![i].ip = ip, ![i].pre = TRUE] EXCEPT ![v].dropped = TRUE]  BY DEF connection
<1> HIDE DEF v
<1>6. ssh \in [Conns -> Logins] /\ v \in Conns  BY <1>1, <1>3 DEF GateInv, GateShape
<1>7. ssh' = [ssh EXCEPT ![i] = [ssh[i] EXCEPT !.at = "kex", !.ip = ip, !.pre = TRUE],
                         ![v] = [ssh[v] EXCEPT !.dropped = TRUE]]
  BY <1>4, <1>5, <1>6
<1> QED BY <1>3, <1>4, <1>7

(* At most one more.                                                       *)
LEMMA OneMore ==
    ASSUME NEW A, NEW B, NEW x, IsFiniteSet(A), x \notin A, B \subseteq A \cup {x}
    PROVE  Cardinality(B) <= Cardinality(A) + 1 /\ Cardinality(B) \in Nat
<1>1. IsFiniteSet(A \cup {x}) /\ Cardinality(A \cup {x}) = Cardinality(A) + 1  BY FS_AddElement
<1>2. IsFiniteSet(B) /\ Cardinality(B) <= Cardinality(A \cup {x})  BY <1>1, FS_Subset
<1> QED BY <1>1, <1>2, FS_CardinalityType

(* A connection comes: refused, or given a slot within the limits.         *)
LEMMA ConnectStep ==
    ASSUME GateInv, NEW i \in Conns, NEW ip \in Addrs, connection(i, ip)
    PROVE  GateInv'
<1>1. /\ ssh \in [Conns -> Logins] /\ reports \in [Conns -> Nat] /\ consoles \in Nat
      /\ lim.preauth \in Nat /\ lim.preauthip \in Nat
      /\ \A j \in Conns : ssh[j] \in Logins /\ Fits(ssh[j], reports[j])
  BY ConsoleGateAssumption DEF GateInv, GateShape
<1>2. ssh[i].at = "none" /\ UNCHANGED <<lim, consoles, inbox, records, creds, cons, reports>>  BY DEF connection
<1>3. ~ssh[i].pre /\ ~ssh[i].authed /\ ~ssh[i].task /\ i \notin InLogin  BY <1>1, <1>2 DEF Fits, InLogin
<1>4. /\ InLogin \subseteq Conns /\ IsFiniteSet(InLogin) /\ Cardinality(InLogin) \in Nat
      /\ \A x : LiveOf(x) \subseteq InLogin /\ IsFiniteSet(LiveOf(x)) /\ Cardinality(LiveOf(x)) \in Nat
  <2>1. InLogin \subseteq Conns /\ \A x : LiveOf(x) \subseteq InLogin  BY DEF InLogin, LiveOf
  <2> QED BY <2>1, ConnsFinite
<1> DEFINE in == [ssh[i] EXCEPT !.at = "kex", !.ip = ip, !.pre = TRUE]
<1>5. in \in Logins /\ Fits(in, reports[i]) /\ in.ip = ip /\ ~in.authed /\ ~in.task
  <2>1. in \in Logins  BY <1>1 DEF Logins, Places
  <2>2. in.ip = ip /\ in.authed = ssh[i].authed /\ in.task = ssh[i].task  BY <1>1 DEF Logins
  <2>3. Fits(in, reports[i])  BY <1>1, <1>2 DEF Fits, Logins
  <2> QED BY <1>3, <2>1, <2>2, <2>3
<1>6. CASE Cardinality(LiveOf(ip)) >= lim.preauthip
  <2>1. ssh' = [ssh EXCEPT ![i].at = "done", ![i].ip = ip]  BY <1>6 DEF connection
  <2>2. ssh'[i] = [ssh[i] EXCEPT !.at = "done", !.ip = ip]  BY <1>1, <2>1
  <2>3. ssh'[i] \in Logins  BY <1>1, <2>2 DEF Logins, Places
  <2>4. ssh' \in [Conns -> Logins] /\ \A j \in Conns \ {i} : ssh'[j] = ssh[j]  BY <1>1, <2>1, <2>3
  <2>5. ~ssh'[i].pre /\ ssh'[i].task = ssh[i].task  BY <1>1, <1>3, <2>2 DEF Logins
  <2>6. Fits(ssh'[i], reports'[i])  BY <1>1, <1>2, <2>2 DEF Fits, Logins
  <2>7. SlotsBound' /\ SessionsBound'  BY <1>2, <2>4, <2>5, NoSlotTaken, NoSessionMore
  <2> QED BY <1>1, <1>2, <1>3, <2>4, <2>6, <2>7, OneConnection
<1>7. CASE ~(Cardinality(LiveOf(ip)) >= lim.preauthip) /\ ~(Cardinality(InLogin) >= lim.preauth)
  <2>1. ssh' = [ssh EXCEPT ![i].at = "kex", ![i].ip = ip, ![i].pre = TRUE]  BY <1>7 DEF connection
  <2>2. ssh'[i] = in  BY <1>1, <2>1
  <2> HIDE DEF in
  <2>3. ssh' \in [Conns -> Logins] /\ \A j \in Conns \ {i} : ssh'[j] = ssh[j]  BY <1>1, <1>5, <2>1, <2>2
  <2>4. SlotsBound'
    <3>1. InLogin' \subseteq InLogin \cup {i} /\ LiveOf(ip)' \subseteq LiveOf(ip) \cup {i}
          /\ \A x \in Addrs \ {ip} : LiveOf(x)' \subseteq LiveOf(x)
      BY <1>5, <2>2, <2>3 DEF InLogin, LiveOf
    <3>2. Cardinality(InLogin') <= Cardinality(InLogin) + 1 /\ Cardinality(InLogin') \in Nat
      BY <1>3, <1>4, <3>1, OneMore
    <3>3. Cardinality(LiveOf(ip)') <= Cardinality(LiveOf(ip)) + 1 /\ Cardinality(LiveOf(ip)') \in Nat
      BY <1>3, <1>4, <3>1, OneMore
    <3>4. \A x \in Addrs \ {ip} : Cardinality(LiveOf(x)') <= Cardinality(LiveOf(x)) /\ Cardinality(LiveOf(x)') \in Nat
      BY <1>4, <3>1, FS_Subset, FS_CardinalityType
    <3>5. Cardinality(InLogin') <= lim.preauth /\ Cardinality(LiveOf(ip)') <= lim.preauthip
      BY <1>1, <1>4, <1>7, <3>2, <3>3
    <3>6. \A x \in Addrs \ {ip} : Cardinality(LiveOf(x)') <= lim.preauthip
      BY <1>1, <1>4, <3>4 DEF GateInv, SlotsBound
    <3> QED BY <1>2, <3>5, <3>6 DEF SlotsBound
  <2>5. SessionsBound'  BY <1>2, <1>5, <2>2, <2>3, NoSessionMore
  <2> QED BY <1>1, <1>2, <1>3, <1>5, <2>2, <2>3, <2>4, <2>5, OneConnection
<1>8. CASE ~(Cardinality(LiveOf(ip)) >= lim.preauthip) /\ Cardinality(InLogin) >= lim.preauth
  <2>1. PICK v \in InLogin \ {i} :
           /\ ssh' = [ssh EXCEPT ![i] = in, ![v] = [ssh[v] EXCEPT !.dropped = TRUE]]
           /\ \A w \in InLogin : Held(w, ip) \in Nat /\ Held(w, ip) <= Held(v, ip)
    BY <1>8, EvictStep
  <2> DEFINE o == [ssh[v] EXCEPT !.dropped = TRUE]
  <2>2. v \in Conns /\ v # i /\ ssh[v].pre  BY <1>4, <2>1 DEF InLogin
  <2>3. ssh[v] \in Logins /\ Fits(ssh[v], reports[v])  BY <1>1, <2>2
  <2>4. /\ o \in Logins /\ Fits(o, reports[v]) /\ o.dropped /\ o.task = ssh[v].task
        /\ o.authed = ssh[v].authed /\ o.as = ssh[v].as
    <3>1. ssh[v].at # "none"  BY <2>2, <2>3 DEF Fits
    <3> QED BY <2>3, <3>1 DEF Fits, Logins
  <2> HIDE DEF in
  <2>5. ssh' = [ssh EXCEPT ![i] = in, ![v] = o]  BY <2>1
  <2> HIDE DEF o
  <2>6. ssh' \in [Conns -> Logins] /\ ssh'[i] = in /\ ssh'[v] = o /\ \A j \in Conns \ {i, v} : ssh'[j] = ssh[j]
    BY <1>1, <1>5, <2>2, <2>4, <2>5
  <2>7. \A j \in Conns : Fits(ssh'[j], reports'[j])  BY <1>1, <1>2, <1>5, <2>4, <2>6
  <2>8. \A j \in Conns : ssh[j].authed => ssh'[j].authed /\ ssh'[j].as = ssh[j].as  BY <1>3, <2>4, <2>6
  <2>9. SessionsBound'
    <3>1. Tasks' = Tasks  BY <1>3, <1>5, <2>4, <2>6 DEF Tasks
    <3> QED BY <1>2, <3>1 DEF GateInv, SessionsBound
  <2>10. SlotsBound'
    <3> DEFINE L == InLogin \ {v}
    <3>1. InLogin' \subseteq L \cup {i} /\ LiveOf(ip)' \subseteq LiveOf(ip) \cup {i}
          /\ \A x \in Addrs \ {ip} : LiveOf(x)' \subseteq LiveOf(x)
      BY <1>5, <2>4, <2>6 DEF InLogin, LiveOf
    <3>2. IsFiniteSet(L) /\ Cardinality(L) = Cardinality(InLogin) - 1 /\ i \notin L
      BY <1>3, <1>4, <2>1, FS_RemoveElement
    <3> HIDE DEF L
    <3>3. Cardinality(InLogin') <= Cardinality(L) + 1 /\ Cardinality(InLogin') \in Nat
      BY <3>1, <3>2, OneMore
    <3>4. Cardinality(LiveOf(ip)') <= Cardinality(LiveOf(ip)) + 1 /\ Cardinality(LiveOf(ip)') \in Nat
      BY <1>3, <1>4, <3>1, OneMore
    <3>5. \A x \in Addrs \ {ip} : Cardinality(LiveOf(x)') <= Cardinality(LiveOf(x)) /\ Cardinality(LiveOf(x)') \in Nat
      BY <1>4, <3>1, FS_Subset, FS_CardinalityType
    <3>6. Cardinality(InLogin') <= lim.preauth  BY <1>1, <1>4, <3>2, <3>3 DEF GateInv, SlotsBound
    <3>7. Cardinality(LiveOf(ip)') <= lim.preauthip  BY <1>1, <1>4, <1>8, <3>4
    <3>8. \A x \in Addrs \ {ip} : Cardinality(LiveOf(x)') <= lim.preauthip
      BY <1>1, <1>4, <3>5 DEF GateInv, SlotsBound
    <3> QED BY <1>2, <3>6, <3>7, <3>8 DEF SlotsBound
  <2> QED BY <1>1, <1>2, <2>6, <2>7, <2>8, <2>9, <2>10, ConnectionsStep
<1> QED BY <1>6, <1>7, <1>8

(* Nothing else takes a slot from a login.                                 *)
LEMMA KeepsSlots ==
    ASSUME GateInv, [GateNext]_gateVars, NEW j \in Conns, ssh'[j].dropped, ~ssh[j].dropped
    PROVE  \E i \in Conns, ip \in Addrs : connection(i, ip)
<1>1. ssh \in [Conns -> Logins]  BY DEF GateInv, GateShape
<1> SUFFICES ASSUME \A i \in Conns, ip \in Addrs : ~connection(i, ip) PROVE ssh'[j].dropped = ssh[j].dropped
  OBVIOUS
<1>2. ASSUME NEW i \in Conns, NEW u, refuse(i, u) PROVE ssh'[j].dropped = ssh[j].dropped
  BY <1>1, <1>2 DEF refuse, Logins
<1>3. ASSUME NEW i \in Conns,
             KeyExchange(i) \/ channel_open_session(i) \/ violation(i) \/ Grace(i) \/ Evicted(i) \/ Hangup(i)
      PROVE  ssh'[j].dropped = ssh[j].dropped
  BY <1>1, <1>3 DEF KeyExchange, channel_open_session, violation, Grace, Evicted, Hangup, EndsNow, Logins
<1>4. ASSUME NEW i \in Conns, shell_request(i) \/ Finish(i) \/ console_task(i) PROVE ssh'[j].dropped = ssh[j].dropped
  <2>1. CASE shell_request(i)  BY <1>1, <2>1 DEF shell_request, OpensShell, NoSocketpair, Logins
  <2>2. CASE Finish(i)  BY <1>1, <2>2 DEF Finish, Logins
  <2>3. CASE console_task(i)  BY <1>1, <2>3 DEF console_task, Logins
  <2> QED BY <1>4, <2>1, <2>2, <2>3
<1>5. ASSUME NEW i \in Conns, NEW a \in AdminNames, NEW k \in KeyIds,
             auth_publickey_offered(i, a, k) \/ auth_publickey(i, a, k)
      PROVE  ssh'[j].dropped = ssh[j].dropped
  <2>1. \/ refuse(i, a) \/ refuse(i, ssh[i].user) \/ ssh' = [ssh EXCEPT ![i].user = a]
        \/ ssh' = [ssh EXCEPT ![i].authed = TRUE, ![i].as = a, ![i].key = k, ![i].user = a]
    BY <1>5 DEF auth_publickey_offered, auth_publickey, Authed
  <2>2. CASE ssh' = [ssh EXCEPT ![i].user = a]  BY <1>1, <2>2 DEF Logins
  <2>3. CASE ssh' = [ssh EXCEPT ![i].authed = TRUE, ![i].as = a, ![i].key = k, ![i].user = a]  BY <1>1, <2>3 DEF Logins
  <2> QED BY <1>2, <2>1, <2>2, <2>3
<1>6. CASE \/ (\E fit \in SUBSET Opens : on_wake(fit)) \/ refresh_creds \/ (\E i \in Conns : read_console(i))
           \/ (\E a \in AdminNames, k \in KeyIds \cup {NoKey} : AdminChanges(a, k))
           \/ UNCHANGED gateVars
  BY <1>6 DEF on_wake, refresh_creds, read_console, AdminChanges, gateVars
<1> QED BY <1>3, <1>4, <1>5, <1>6 DEF GateNext

(* The newcomer's slot comes from an address that held most.               *)
LEMMA FairStep ==
    ASSUME GateInv, NEW i \in Conns, NEW ip \in Addrs, connection(i, ip),
           NEW j \in Conns, ssh'[j].dropped, ~ssh[j].dropped, NEW x \in Addrs
    PROVE  Cardinality(LiveOf(x)') <= Cardinality(LiveOf(ssh[j].ip)') + 1
<1>1. /\ ssh \in [Conns -> Logins] /\ \A k \in Conns : ssh[k] \in Logins /\ Fits(ssh[k], reports[k])
      /\ lim.preauth \in Nat /\ lim.preauthip \in Nat
  BY ConsoleGateAssumption DEF GateInv, GateShape
<1>2. ssh[i].at = "none" /\ ~ssh[i].dropped /\ ~ssh[i].pre  BY <1>1 DEF connection, Fits
<1>3. ~(Cardinality(LiveOf(ip)) >= lim.preauthip) /\ Cardinality(InLogin) >= lim.preauth
  <2>1. CASE Cardinality(LiveOf(ip)) >= lim.preauthip
    <3>1. ssh' = [ssh EXCEPT ![i].at = "done", ![i].ip = ip]  BY <2>1 DEF connection
    <3> QED BY <1>1, <3>1 DEF Logins
  <2>2. CASE ~(Cardinality(LiveOf(ip)) >= lim.preauthip) /\ ~(Cardinality(InLogin) >= lim.preauth)
    <3>1. ssh' = [ssh EXCEPT ![i].at = "kex", ![i].ip = ip, ![i].pre = TRUE]  BY <2>2 DEF connection
    <3> QED BY <1>1, <3>1 DEF Logins
  <2> QED BY <2>1, <2>2
<1>4. PICK v \in InLogin \ {i} :
         /\ ssh' = [ssh EXCEPT ![i] = [ssh[i] EXCEPT !.at = "kex", !.ip = ip, !.pre = TRUE],
                               ![v] = [ssh[v] EXCEPT !.dropped = TRUE]]
         /\ \A w \in InLogin : Held(w, ip) \in Nat /\ Held(w, ip) <= Held(v, ip)
  BY <1>3, EvictStep
<1>5. v \in Conns /\ v # i /\ ssh[v].pre /\ ~ssh[v].dropped  BY <1>4 DEF InLogin
<1>6. /\ \A k \in Conns \ {i, v} : ssh'[k] = ssh[k]
      /\ ssh'[i] = [ssh[i] EXCEPT !.at = "kex", !.ip = ip, !.pre = TRUE]
      /\ ssh'[v] = [ssh[v] EXCEPT !.dropped = TRUE]
  BY <1>1, <1>4, <1>5
<1>7. /\ ssh'[i].ip = ip /\ ssh'[i].pre /\ ~ssh'[i].dropped
      /\ ssh'[v].ip = ssh[v].ip /\ ssh'[v].pre /\ ssh'[v].dropped
  BY <1>1, <1>2, <1>5, <1>6 DEF Logins
<1>8. j = v  BY <1>6, <1>7
<1> DEFINE y == ssh[v].ip
           extra(z) == IF z = ip THEN {i} ELSE {}
<1>9. \A z : LiveOf(z)' = (LiveOf(z) \ {v}) \cup extra(z)  BY <1>2, <1>5, <1>6, <1>7 DEF LiveOf, InLogin
<1>10. /\ v \in LiveOf(y) /\ \A z : LiveOf(z) \subseteq Conns /\ i \notin LiveOf(z)
       /\ \A z : LiveOf(z) # {} => \E w \in InLogin : ssh[w].ip = z
  BY <1>2, <1>4 DEF LiveOf, InLogin
<1>11. \A z : IsFiniteSet(LiveOf(z)) /\ Cardinality(LiveOf(z)) \in Nat  BY <1>10, ConnsFinite
<1>12. LiveOf(ssh[j].ip)' = LiveOf(y)'  BY <1>7, <1>8 DEF LiveOf, InLogin
<1> DEFINE Ly == LiveOf(y)'
           Lx == LiveOf(x)'
<1>13. Cardinality(Ly) + 1 = Held(v, ip) /\ Cardinality(Ly) \in Nat
  <2> DEFINE A == LiveOf(y) \ {v}
  <2>1. IsFiniteSet(A) /\ Cardinality(A) = Cardinality(LiveOf(y)) - 1 /\ i \notin A /\ Cardinality(A) \in Nat
    BY <1>10, <1>11, FS_RemoveElement, FS_CardinalityType
  <2>2. Ly = A \cup extra(y)  BY <1>7, <1>9 DEF LiveOf
  <2> HIDE DEF A, Ly
  <2>3. Cardinality(Ly) = Cardinality(A) + (IF y = ip THEN 1 ELSE 0)
    <3>1. CASE y = ip  BY <2>1, <2>2, <3>1, FS_AddElement
    <3>2. CASE y # ip  BY <2>1, <2>2, <3>2
    <3> QED BY <3>1, <3>2
  <2> QED BY <1>11, <2>1, <2>3 DEF Held
<1>14. Cardinality(Lx) <= Cardinality(LiveOf(x)) + (IF x = ip THEN 1 ELSE 0) /\ Cardinality(Lx) \in Nat
  <2>1. Lx \subseteq LiveOf(x) \cup extra(x)  BY <1>9
  <2> HIDE DEF Lx
  <2>2. CASE x = ip
    <3>1. Lx \subseteq LiveOf(x) \cup {i}  BY <2>1, <2>2
    <3> QED BY <1>10, <1>11, <2>2, <3>1, OneMore
  <2>3. CASE x # ip
    <3>1. Lx \subseteq LiveOf(x)  BY <2>1, <2>3
    <3> QED BY <1>11, <2>3, <3>1, FS_Subset, FS_CardinalityType
  <2> QED BY <2>2, <2>3
<1>15. CASE LiveOf(x) = {}
  <2>1. Cardinality(LiveOf(x)) = 0  BY <1>15, FS_EmptySet
  <2> HIDE DEF Ly, Lx
  <2>2. Cardinality(Lx) <= Cardinality(Ly) + 1  BY <1>13, <1>14, <2>1
  <2> QED BY <1>12, <2>2 DEF Ly, Lx
<1>16. CASE LiveOf(x) # {}
  <2>1. PICK w \in InLogin : ssh[w].ip = x  BY <1>10, <1>16
  <2>2. Held(w, ip) = Cardinality(LiveOf(x)) + (IF x = ip THEN 1 ELSE 0) /\ Held(w, ip) <= Held(v, ip) /\ Held(w, ip) \in Nat
    BY <1>4, <2>1 DEF Held
  <2> HIDE DEF Ly, Lx
  <2>3. Cardinality(Lx) <= Cardinality(Ly) + 1  BY <1>13, <1>14, <2>2
  <2> QED BY <1>12, <2>3 DEF Ly, Lx
<1> QED BY <1>15, <1>16

(* Nobody is connected at the start.                                       *)
LEMMA GateStarts == GateInit => GateInv
<1> SUFFICES ASSUME GateInit PROVE GateInv  OBVIOUS
<1>1. AuthTries \in Nat \ {0} /\ lim \in Limits /\ lim.preauth \in Nat /\ lim.preauthip \in Nat /\ lim.sessions \in Nat
  BY ConsoleGateAssumption DEF GateInit
<1> DEFINE home == CHOOSE a \in Addrs : TRUE
           s == [at |-> "none", ip |-> home, pre |-> FALSE, dropped |-> FALSE,
                 user |-> NoName, as |-> NoName, key |-> NoKey, authed |-> FALSE, refused |-> 0, failed |-> FALSE,
                 chan |-> FALSE, shell |-> FALSE, task |-> FALSE]
<1>2. ssh = [i \in Conns |-> s]  BY DEF GateInit
<1>3. s \in Logins /\ ~s.pre /\ ~s.task /\ Fits(s, 0)
  <2>1. 0 \in 0 .. AuthTries /\ home \in Addrs \cup {CHOOSE a \in Addrs : TRUE}  BY <1>1
  <2> HIDE DEF home
  <2> QED BY <1>1, <2>1 DEF Logins, Places, Named, Fits
<1> HIDE DEF s
<1>4. ssh \in [Conns -> Logins] /\ reports \in [Conns -> Nat] /\ \A i \in Conns : reports[i] = 0
  BY <1>2, <1>3 DEF GateInit
<1>5. \A i \in Conns : Fits(ssh[i], reports[i])  BY <1>2, <1>3, <1>4
<1>6. InLogin = {} /\ Tasks = {} /\ \A ip : LiveOf(ip) = {}  BY <1>2, <1>3 DEF InLogin, Tasks, LiveOf
<1>7. SlotsBound /\ SessionsBound
  <2>1. Cardinality({}) = 0  BY FS_EmptySet
  <2>2. consoles = 0  BY DEF GateInit
  <2> QED BY <1>1, <1>6, <2>1, <2>2 DEF SlotsBound, SessionsBound
<1>8. GateShape
  <2>1. records \in [AdminNames -> KeyIds \cup {NoKey}]  BY DEF GateInit
  <2>2. creds \in [AdminNames -> KeyIds \cup {NoKey}]  BY <2>1 DEF GateInit, build_creds
  <2>3. inbox \in Seq(Messages) /\ cons = {} /\ consoles = 0  BY DEF GateInit
  <2> QED BY <1>1, <1>4, <2>1, <2>2, <2>3 DEF GateShape
<1>9. Opens = {} /\ cons = {}  BY DEF GateInit, Opens
<1> QED BY <1>5, <1>7, <1>8, <1>9 DEF GateInv, OpensAsAuthed, HeldToPublished

(* One step per action.                                                    *)
LEMMA GateKeeps == GateInv /\ [GateNext]_gateVars => GateInv'
<1> SUFFICES ASSUME GateInv, [GateNext]_gateVars PROVE GateInv'  OBVIOUS
<1>1. ASSUME NEW i \in Conns,
             \/ KeyExchange(i) \/ channel_open_session(i) \/ violation(i) \/ shell_request(i)
             \/ Grace(i) \/ Evicted(i) \/ Hangup(i) \/ Finish(i) \/ console_task(i) \/ read_console(i)
      PROVE  GateInv'
  BY <1>1, QuietSteps, ShellStep, FinishStep, TaskStep, ConsoleSteps
<1>2. ASSUME NEW i \in Conns, NEW ip \in Addrs, connection(i, ip) PROVE GateInv'  BY <1>2, ConnectStep
<1>3. ASSUME NEW i \in Conns, NEW a \in AdminNames, NEW k \in KeyIds,
             auth_publickey_offered(i, a, k) \/ auth_publickey(i, a, k)
      PROVE  GateInv'
  BY <1>3, AuthSteps
<1>4. CASE (\E fit \in SUBSET Opens : on_wake(fit)) \/ refresh_creds
           \/ (\E a \in AdminNames, k \in KeyIds \cup {NoKey} : AdminChanges(a, k))
  BY <1>4, ConsoleSteps, RefreshStep, AdminStep
<1>5. CASE UNCHANGED gateVars
  BY <1>5 DEF gateVars, GateInv, GateShape, SlotsBound, SessionsBound, OpensAsAuthed, HeldToPublished, Opens, InLogin, LiveOf,
              Tasks
<1> QED BY <1>1, <1>2, <1>3, <1>4, <1>5 DEF GateNext

(* What a step does to a login's check, when it is not the check itself.   *)
SameKey(s, t) == t.authed = s.authed /\ t.as = s.as /\ t.key = s.key /\ (s.shell => t.shell)

(* A message more is one open more at most.                                *)
LEMMA OpensGrow ==
    ASSUME GateInv, NEW m \in Messages, inbox' = Append(inbox, m)
    PROVE  \A j \in Opens' : j \in Opens \/ (m.op = "Open" /\ j = m.id)
<1>1. inbox \in Seq(Messages)  BY DEF GateInv, GateShape
<1>2. /\ DOMAIN inbox = 1 .. Len(inbox) /\ Len(inbox) \in Nat
      /\ DOMAIN inbox' = 1 .. Len(inbox) + 1 /\ inbox'[Len(inbox) + 1] = m
      /\ \A k \in 1 .. Len(inbox) : inbox'[k] = inbox[k]
  BY <1>1
<1>3. ASSUME NEW k \in DOMAIN inbox', inbox'[k].op = "Open"
      PROVE  inbox'[k].id \in Opens \/ (m.op = "Open" /\ inbox'[k].id = m.id)
  <2>1. CASE k \in 1 .. Len(inbox)  BY <1>2, <1>3, <2>1 DEF Opens
  <2>2. CASE k = Len(inbox) + 1  BY <1>2, <1>3, <2>2
  <2> QED BY <1>2, <2>1, <2>2
<1> QED BY <1>2, <1>3 DEF Opens

(* Steps that check no key and change no record.                           *)
LEMMA KeysStay ==
    ASSUME GateInv, KeysKept, UNCHANGED <<records, cons, late>>,
           \A j \in Conns : SameKey(ssh[j], ssh'[j]),
           \A j \in Opens' : j \in Opens \/ ~ssh[j].shell
    PROVE  KeysKept'
<1>1. \A c \in cons : c.id \in Conns  BY DEF GateInv, GateShape, Opened
<1>2. Waiting' \subseteq Waiting  BY DEF Waiting, SameKey
<1>3. \A j \in Waiting : j \in Conns  BY DEF Waiting
<1>4. \A j \in Conns : ssh'[j].as = ssh[j].as /\ ssh'[j].key = ssh[j].key  BY DEF SameKey
<1>5. \A j \in Waiting' \ late' : records'[ssh'[j].as] = ssh'[j].key  BY <1>2, <1>3, <1>4 DEF KeysKept
<1>6. \A c \in cons' : c.id \notin late' => c.key = ssh'[c.id].key  BY <1>1, <1>4 DEF KeysKept
<1> QED BY <1>5, <1>6 DEF KeysKept

(* The steps of a connection that check no key.                            *)
LEMMA KeysConnected ==
    ASSUME GateInv, KeysKept, NEW i \in Conns,
           \/ KeyExchange(i) \/ channel_open_session(i) \/ violation(i) \/ shell_request(i)
           \/ Grace(i) \/ Evicted(i) \/ Hangup(i) \/ Finish(i) \/ console_task(i)
           \/ \E ip \in Addrs : connection(i, ip)
    PROVE  KeysKept'
<1>1. ssh \in [Conns -> Logins] /\ \A j \in Conns : ssh[j] \in Logins  BY DEF GateInv, GateShape
<1>2. CASE \/ KeyExchange(i) \/ channel_open_session(i) \/ violation(i) \/ Grace(i) \/ Evicted(i) \/ Hangup(i)
  <2>1. \A j \in Conns : SameKey(ssh[j], ssh'[j])
    BY <1>1, <1>2 DEF KeyExchange, channel_open_session, violation, Grace, Evicted, Hangup, EndsNow, Logins, SameKey
  <2>2. UNCHANGED <<records, cons, late, inbox>>
    BY <1>2 DEF KeyExchange, channel_open_session, violation, Grace, Evicted, Hangup, EndsNow
  <2>3. Opens' = Opens  BY <2>2 DEF Opens
  <2> QED BY <2>1, <2>2, <2>3, KeysStay
<1>3. CASE shell_request(i)
  <2>1. \A j \in Conns : SameKey(ssh[j], ssh'[j])
    BY <1>1, <1>3 DEF shell_request, OpensShell, NoSocketpair, Logins, SameKey
  <2>2. UNCHANGED <<records, cons, late>> /\ ~ssh[i].shell  BY <1>3 DEF shell_request
  <2>3. inbox' = inbox \/ inbox' = Append(inbox, [op |-> "Open", id |-> i])
    BY <1>3 DEF shell_request, OpensShell, NoSocketpair
  <2>4. [op |-> "Open", id |-> i] \in Messages  BY DEF Messages
  <2>5. \A j \in Opens' : j \in Opens \/ j = i
    <3>1. CASE inbox' = inbox  BY <3>1 DEF Opens
    <3>2. CASE inbox' = Append(inbox, [op |-> "Open", id |-> i])  BY <2>4, <3>2, OpensGrow
    <3> QED BY <2>3, <3>1, <3>2
  <2> QED BY <2>1, <2>2, <2>5, KeysStay
<1>4. CASE Finish(i)
  <2>1. \A j \in Conns : SameKey(ssh[j], ssh'[j])  BY <1>1, <1>4 DEF Finish, Logins, SameKey
  <2>2. UNCHANGED <<records, cons, late>>  BY <1>4 DEF Finish
  <2>3. inbox' = inbox \/ \E m \in Messages : inbox' = Append(inbox, m) /\ m.op # "Open"
    <3>1. report_fail(i) \/ inbox' = inbox  BY <1>4 DEF Finish
    <3> QED BY <3>1, FailAdds
  <2>4. \A j \in Opens' : j \in Opens
    <3>1. CASE inbox' = inbox  BY <3>1 DEF Opens
    <3>2. CASE inbox' # inbox  BY <2>3, <3>2, OpensGrow
    <3> QED BY <3>1, <3>2
  <2> QED BY <2>1, <2>2, <2>4, KeysStay
<1>5. CASE console_task(i)
  <2>1. \A j \in Conns : SameKey(ssh[j], ssh'[j])  BY <1>1, <1>5 DEF console_task, Logins, SameKey
  <2>2. UNCHANGED <<records, cons, late, inbox>>  BY <1>5 DEF console_task
  <2>3. Opens' = Opens  BY <2>2 DEF Opens
  <2> QED BY <2>1, <2>2, <2>3, KeysStay
<1>6. ASSUME NEW ip \in Addrs, connection(i, ip) PROVE KeysKept'
  <2>1. UNCHANGED <<records, cons, late, inbox>>  BY <1>6 DEF connection
  <2>2. Opens' = Opens  BY <2>1 DEF Opens
  <2>3. \A j \in Conns : SameKey(ssh[j], ssh'[j])
    <3>1. CASE Cardinality(LiveOf(ip)) >= lim.preauthip
      <4>1. ssh' = [ssh EXCEPT ![i].at = "done", ![i].ip = ip]  BY <1>6, <3>1 DEF connection
      <4> QED BY <1>1, <4>1 DEF Logins, SameKey
    <3>2. CASE ~(Cardinality(LiveOf(ip)) >= lim.preauthip) /\ ~(Cardinality(InLogin) >= lim.preauth)
      <4>1. ssh' = [ssh EXCEPT ![i].at = "kex", ![i].ip = ip, ![i].pre = TRUE]  BY <1>6, <3>2 DEF connection
      <4> QED BY <1>1, <4>1 DEF Logins, SameKey
    <3>3. CASE ~(Cardinality(LiveOf(ip)) >= lim.preauthip) /\ Cardinality(InLogin) >= lim.preauth
      <4>1. PICK v \in InLogin \ {i} :
               /\ ssh' = [ssh EXCEPT ![i] = [ssh[i] EXCEPT !.at = "kex", !.ip = ip, !.pre = TRUE],
                                     ![v] = [ssh[v] EXCEPT !.dropped = TRUE]]
               /\ \A w \in InLogin : Held(w, ip) \in Nat /\ Held(w, ip) <= Held(v, ip)
        BY <1>6, <3>3, EvictStep
      <4>2. v \in Conns  BY DEF InLogin
      <4> QED BY <1>1, <4>1, <4>2 DEF Logins, SameKey
    <3> QED BY <3>1, <3>2, <3>3
  <2> QED BY <2>1, <2>2, <2>3, KeysStay
<1> QED BY <1>2, <1>3, <1>4, <1>5, <1>6

(* A key is offered, refused, or checked: then it is on record, or the     *)
(* login is late.                                                          *)
LEMMA KeysChecked ==
    ASSUME GateInv, KeysKept, NEW i \in Conns, NEW u \in AdminNames, NEW k \in KeyIds,
           auth_publickey_offered(i, u, k) \/ auth_publickey(i, u, k)
    PROVE  KeysKept'
<1>1. ssh \in [Conns -> Logins] /\ \A j \in Conns : ssh[j] \in Logins  BY DEF GateInv, GateShape
<1>2. UNCHANGED <<records, cons>> /\ ~ssh[i].authed /\ ssh[i].at = "auth"
  BY DEF auth_publickey_offered, auth_publickey
<1>3. ASSUME NEW v, refuse(i, v), UNCHANGED late PROVE KeysKept'
  <2>1. \A j \in Conns : SameKey(ssh[j], ssh'[j])  BY <1>1, <1>3 DEF refuse, Logins, SameKey
  <2>2. inbox' = inbox \/ \E m \in Messages : inbox' = Append(inbox, m) /\ m.op # "Open"
    <3>1. report_fail(i) \/ inbox' = inbox  BY <1>3 DEF refuse
    <3> QED BY <3>1, FailAdds
  <2>3. \A j \in Opens' : j \in Opens
    <3>1. CASE inbox' = inbox  BY <3>1 DEF Opens
    <3>2. CASE inbox' # inbox  BY <2>2, <3>2, OpensGrow
    <3> QED BY <3>1, <3>2
  <2> QED BY <1>2, <1>3, <2>1, <2>3, KeysStay
<1>4. CASE ssh' = [ssh EXCEPT ![i].user = u] /\ UNCHANGED <<inbox, late>>
  <2>1. \A j \in Conns : SameKey(ssh[j], ssh'[j])  BY <1>1, <1>4 DEF Logins, SameKey
  <2>2. Opens' = Opens  BY <1>4 DEF Opens
  <2> QED BY <1>2, <1>4, <2>1, <2>2, KeysStay
<1>5. CASE /\ ssh' = [ssh EXCEPT ![i].authed = TRUE, ![i].as = u, ![i].key = k, ![i].user = u]
           /\ inbox' = inbox /\ late' = IF records[u] = k THEN late ELSE late \cup {i}
  <2>1. ssh'[i] = [ssh[i] EXCEPT !.authed = TRUE, !.as = u, !.key = k, !.user = u]  BY <1>1, <1>5
  <2>2. ssh'[i].as = u /\ ssh'[i].key = k  BY <1>1, <2>1 DEF Logins
  <2>3. \A j \in Conns \ {i} : ssh'[j] = ssh[j]  BY <1>1, <1>5
  <2>4. Opens' = Opens /\ late \subseteq late' /\ (i \notin late' => records[u] = k)  BY <1>5 DEF Opens
  <2>5. \A c \in cons : c.id \in Conns \ {i}  BY <1>2 DEF GateInv, GateShape, Opened, OpensAsAuthed
  <2>6. \A c \in cons' : c.id \notin late' => c.key = ssh'[c.id].key  BY <1>2, <2>3, <2>4, <2>5 DEF KeysKept
  <2>7. Waiting' \subseteq Waiting \cup {i} /\ Waiting' \subseteq Conns  BY <2>3, <2>4 DEF Waiting
  <2>8. \A j \in Waiting' \ late' : records'[ssh'[j].as] = ssh'[j].key
    BY <1>2, <2>2, <2>3, <2>4, <2>7 DEF KeysKept
  <2> QED BY <2>6, <2>8 DEF KeysKept
<1> QED BY <1>3, <1>4, <1>5 DEF auth_publickey_offered, auth_publickey, Authed

(* The steps of the core: what it opens was waiting.                       *)
LEMMA KeysOpened ==
    ASSUME GateInv, KeysKept,
           \/ (\E fit \in SUBSET Opens : on_wake(fit)) \/ refresh_creds \/ (\E i \in Conns : read_console(i))
           \/ (\E a \in AdminNames, k \in KeyIds \cup {NoKey} : AdminChanges(a, k))
    PROVE  KeysKept'
<1>1. records \in [AdminNames -> KeyIds \cup {NoKey}] /\ cons \subseteq Opened  BY DEF GateInv, GateShape
<1>2. \A i \in Opens : i \in Conns /\ ssh[i].authed /\ ssh[i].user = ssh[i].as
  <2>1. inbox \in Seq(Messages) /\ \A m \in Messages : m.id \in Conns  BY DEF GateInv, GateShape, Messages
  <2>2. \A k \in DOMAIN inbox : inbox[k] \in Messages  BY <2>1
  <2> QED BY <2>1, <2>2 DEF Opens, GateInv, Fits
<1>3. ASSUME NEW fit \in SUBSET Opens, on_wake(fit) PROVE KeysKept'
  <2>1. UNCHANGED <<ssh, records, late>> /\ inbox' = <<>>  BY <1>3 DEF on_wake
  <2>2. Opens' = {}  BY <2>1 DEF Opens
  <2>3. Waiting' \subseteq Waiting  BY <2>1, <2>2 DEF Waiting
  <2>4. ASSUME NEW c \in cons', c.id \notin late PROVE c.key = ssh[c.id].key
    <3>1. CASE c \in cons  BY <2>4, <3>1 DEF KeysKept
    <3>2. CASE c \notin cons
      <4>1. PICK i \in Opens : c \in open_console(i)  BY <1>3, <3>2 DEF on_wake
      <4>2. c = [id |-> i, name |-> ssh[i].user, key |-> records[ssh[i].user], published |-> FALSE]
        BY <4>1 DEF open_console
      <4>3. c.id = i /\ c.key = records[ssh[i].user]  BY <4>2
      <4>4. i \in Waiting \ late  BY <1>2, <2>4, <4>1, <4>3 DEF Waiting
      <4> QED BY <1>2, <4>1, <4>3, <4>4 DEF KeysKept
    <3> QED BY <3>1, <3>2
  <2> QED BY <2>1, <2>3, <2>4 DEF KeysKept
<1>4. CASE refresh_creds
  <2> DEFINE new == build_creds(records)
  <2> HIDE DEF new
  <2>1. /\ UNCHANGED <<ssh, inbox, records, late>>
        /\ cons' = {[c EXCEPT !.published = TRUE] : c \in {d \in cons : creds_hold(d, new)}}
    BY <1>4 DEF refresh_creds, new
  <2>2. ASSUME NEW e \in cons', e.id \notin late PROVE e.key = ssh[e.id].key
    <3>1. PICK c \in cons : e = [c EXCEPT !.published = TRUE]  BY <2>1
    <3>2. c \in Opened  BY <1>1
    <3>3. e.id = c.id /\ e.key = c.key  BY <3>1, <3>2 DEF Opened
    <3> QED BY <2>2, <3>3 DEF KeysKept
  <2>3. Waiting' = Waiting  BY <2>1 DEF Waiting, Opens
  <2> QED BY <2>1, <2>2, <2>3 DEF KeysKept
<1>5. ASSUME NEW i \in Conns, read_console(i) PROVE KeysKept'
  <2>1. UNCHANGED <<ssh, records, late, inbox>> /\ cons' \subseteq cons  BY <1>5 DEF read_console
  <2>2. Waiting' = Waiting  BY <2>1 DEF Waiting, Opens
  <2> QED BY <2>1, <2>2 DEF KeysKept
<1>6. ASSUME NEW a \in AdminNames, NEW k \in KeyIds \cup {NoKey}, AdminChanges(a, k) PROVE KeysKept'
  <2>1. /\ UNCHANGED <<ssh, cons, inbox>> /\ records' = [records EXCEPT ![a] = k]
        /\ late' = late \cup {i \in Waiting : ssh[i].as = a}
    BY <1>6 DEF AdminChanges
  <2>2. Waiting' = Waiting  BY <2>1 DEF Waiting, Opens
  <2>3. \A i \in Waiting' \ late' : i \in Waiting \ late /\ ssh[i].as # a  BY <2>1, <2>2
  <2>4. \A b : b # a => records'[b] = records[b]  BY <1>1, <2>1
  <2> QED BY <2>1, <2>3, <2>4 DEF KeysKept
<1> QED BY <1>3, <1>4, <1>5, <1>6

(* Nobody has logged in at the start, and every step keeps the keys.       *)
LEMMA KeysKeep ==
    /\ GateInit => KeysKept
    /\ GateInv /\ KeysKept /\ [GateNext]_gateVars => KeysKept'
<1>1. GateInit => KeysKept
  <2> SUFFICES ASSUME GateInit PROVE KeysKept  OBVIOUS
  <2>1. \A i \in Conns : ~ssh[i].authed  BY DEF GateInit
  <2> QED BY <2>1 DEF KeysKept, Waiting, GateInit
<1>2. ASSUME GateInv, KeysKept, [GateNext]_gateVars PROVE KeysKept'
  <2>1. CASE UNCHANGED gateVars  BY <1>2, <2>1 DEF gateVars, KeysKept, Waiting, Opens
  <2>2. CASE GateNext  BY <1>2, <2>2, KeysConnected, KeysChecked, KeysOpened DEF GateNext
  <2> QED BY <1>2, <2>1, <2>2
<1> QED BY <1>1, <1>2

(* Logins and sessions stay within their limits, every slot is one the     *)
(* grace or the end of its connection frees, a refused login is reported   *)
(* once, and a console belongs to the name whose key was checked.  Once    *)
(* credentials were published it has the very key that was checked, but    *)
(* for a login whose record changed before the core opened it: that one    *)
(* has the key found on opening.  So for any number of connections,        *)
(* addresses and admins, whatever the console thread and the core          *)
(* interleave (connection, auth_publickey, shell_request, on_wake,         *)
(* refresh_creds).                                                         *)
THEOREM GateAlwaysHolds == GateInit /\ [][GateNext]_gateVars => []GateHolds
<1>1. GateInv /\ KeysKept => GateHolds
  <2> SUFFICES ASSUME GateInv, KeysKept PROVE GateHolds  OBVIOUS
  <2>1. \A i \in Conns : ssh[i] \in Logins /\ Fits(ssh[i], reports[i]) /\ reports[i] \in Nat  BY DEF GateInv, GateShape
  <2>2. GateTypeOK  BY <2>1 DEF GateInv, GateShape, SlotsBound, GateTypeOK, Logins, Places
  <2>3. FailOnce  BY <2>1 DEF FailOnce, Fits
  <2>4. SlotTimed  BY <2>1 DEF SlotTimed, Fits, GraceOver
  <2>5. HeldToKey
    <3>1. \A c \in cons : c.published => creds[c.name] = c.key  BY DEF GateInv, HeldToPublished
    <3>2. \A c \in cons : c.id \notin late => c.key = ssh[c.id].key  BY DEF KeysKept
    <3> QED BY <3>1, <3>2 DEF HeldToKey
  <2> QED BY <2>2, <2>3, <2>4, <2>5 DEF GateHolds, GateInv
<1> QED BY <1>1, GateStarts, GateKeeps, KeysKeep, PTL

(* Whoever loses a login slot is of an address that, the newcomer counted, *)
(* held at least as many as every other (evict_pick), for any number of    *)
(* connections and addresses.                                              *)
THEOREM EvictAlwaysFair == GateInit /\ [][GateNext]_gateVars => EvictFair
<1>1. ASSUME GateInv, [GateNext]_gateVars
      PROVE  [\A i \in Conns : ssh'[i].dropped /\ ~ssh[i].dropped =>
                 \A ip \in Addrs : Cardinality(LiveOf(ip)') <= Cardinality(LiveOf(ssh[i].ip)') + 1]_gateVars
  BY <1>1, KeepsSlots, FairStep
<1> QED BY <1>1, GateStarts, GateKeeps, PTL DEF EvictFair
=============================================================================
