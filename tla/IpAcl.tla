------------------------------- MODULE IpAcl --------------------------------
(***************************************************************************)
(* The allow and deny lists of addresses, changed from consoles that come  *)
(* from addresses the lists decide about.  An entry is the set of          *)
(* addresses its network covers, and a scope: every connection, or SSH     *)
(* only.                                                                   *)
(***************************************************************************)
EXTENDS Integers, FiniteSets

CONSTANTS
    Hosts,          \* addresses
    Networks,       \* sets of them that a pattern covers
    MaxAcl,         \* MAX_IP_ACL_ENTRIES
    MaxAclEdits     \* bound: changes

ASSUME IpAclAssumption ==
    Hosts # {} /\ Networks \subseteq SUBSET Hosts /\ MaxAcl \in Nat \ {0} /\ MaxAclEdits \in Nat

VARIABLES
    lists,          \* state.ip_allow and state.ip_deny
    inbound,        \* inbound clients: their address, whether a console, and (history)
                    \* whether the lists changed while it logged in
    logins,         \* connections with the console thread, not yet consoles
    changed,        \* ip_acl_changed
    lastBy,         \* history: address the last change came from
    aclEdits

aclVars == <<lists, inbound, logins, changed, lastBy, aclEdits>>

Entries == [net : Networks, console : BOOLEAN]
NoHost == "nowhere"
Raw(ip) == [ip |-> ip, console |-> FALSE, late |-> FALSE]
Console(ip, late) == [ip |-> ip, console |-> TRUE, late |-> late]

AclInit ==
    /\ lists = [allow |-> {}, deny |-> {}] /\ inbound \in SUBSET {Console(ip, FALSE) : ip \in Hosts}
    /\ logins = {} /\ changed = FALSE /\ lastBy = NoHost /\ aclEdits = 0

(* ip_acl_verdict: deny wins, and an allow list that is not empty must     *)
(* match; the entries of a scope only.                                     *)
ip_acl_match(list, ip, console) == \E e \in list : e.console = console /\ ip \in e.net
ip_acl_verdict(l, ip, console) ==
    /\ ~ip_acl_match(l.deny, ip, console)
    /\ (\E e \in l.allow : e.console = console) => ip_acl_match(l.allow, ip, console)

ip_acl_add(l, name, e) ==
    IF e \in l[name] \/ Cardinality(l[name]) >= MaxAcl THEN l ELSE [l EXCEPT ![name] = @ \cup {e}]
ip_acl_remove(l, name, e) == [l EXCEPT ![name] = @ \ {e}]

(* Mutant: the address is held to the scope of the entry only.             *)
LocksOutScope(l, ip, e) == ~ip_acl_verdict(l, ip, FALSE)

(* ip_acl_change: what would lock out the admin's own address, in either   *)
(* scope, is rolled back.                                                  *)
LocksOut(l, ip, e) == ~ip_acl_verdict(l, ip, FALSE) \/ ~ip_acl_verdict(l, ip, TRUE)
ip_acl_change(by, name, add, e) ==
    /\ \E late \in BOOLEAN : Console(by, late) \in inbound
    /\ aclEdits < MaxAclEdits /\ aclEdits' = aclEdits + 1
    /\ LET l == IF add THEN ip_acl_add(lists, name, e) ELSE ip_acl_remove(lists, name, e)
       IN  IF l = lists \/ LocksOut(l, by, e) THEN UNCHANGED <<lists, logins, changed, lastBy>>
           ELSE /\ lists' = l /\ changed' = TRUE /\ lastBy' = by
                /\ logins' = {[c EXCEPT !.late = TRUE] : c \in logins}
    /\ UNCHANGED inbound

(* maintenance: connections the lists refuse are closed.                   *)
Swept == {c \in inbound : ip_acl_verdict(lists, c.ip, FALSE)}
maintenance_acl ==
    /\ changed /\ changed' = FALSE /\ inbound' = Swept /\ UNCHANGED <<lists, logins, lastBy, aclEdits>>

(* accept_one                                                              *)
Arrives(ip) ==
    /\ Raw(ip) \notin inbound /\ ip_acl_verdict(lists, ip, FALSE) /\ inbound' = inbound \cup {Raw(ip)}
    /\ UNCHANGED <<lists, logins, changed, lastBy, aclEdits>>

(* handoff: the console scope is asked for (ssh_admit); the client leaves. *)
SpeaksSsh(ip) ==
    /\ Raw(ip) \in inbound /\ inbound' = inbound \ {Raw(ip)}
    /\ logins' = IF ip_acl_verdict(lists, ip, TRUE) THEN logins \cup {Console(ip, changed)} ELSE logins
    /\ UNCHANGED <<lists, changed, lastBy, aclEdits>>

(* open_console: the lists are not asked again.                            *)
LogsIn(c) ==
    /\ c \in logins /\ logins' = logins \ {c} /\ inbound' = inbound \cup {c}
    /\ UNCHANGED <<lists, changed, lastBy, aclEdits>>
Leaves(c) == c \in inbound /\ inbound' = inbound \ {c} /\ UNCHANGED <<lists, logins, changed, lastBy, aclEdits>>

AclNext ==
    \/ \E by \in Hosts, name \in {"allow", "deny"}, add \in BOOLEAN, e \in Entries : ip_acl_change(by, name, add, e)
    \/ maintenance_acl
    \/ \E ip \in Hosts : Arrives(ip) \/ SpeaksSsh(ip)
    \/ (\E c \in logins : LogsIn(c)) \/ (\E c \in inbound : Leaves(c))

-----------------------------------------------------------------------------
(* No sequence of changes by several admins leaves a hub nobody can log in *)
(* to: the one who made the last change always can, in both scopes         *)
(* (ip_acl_change).                                                        *)
SomeoneGetsIn ==
    /\ \A l \in {"allow", "deny"} : Cardinality(lists[l]) <= MaxAcl
    /\ \E ip \in Hosts : ip_acl_verdict(lists, ip, FALSE) /\ ip_acl_verdict(lists, ip, TRUE)
    /\ lastBy # NoHost => ip_acl_verdict(lists, lastBy, FALSE) /\ ip_acl_verdict(lists, lastBy, TRUE)

(* Once maintenance has run, no connection is open that the lists refuse,  *)
(* whether it came before, between or after the changes; except a console  *)
(* whose login was under way when they changed, which nothing asks about.  *)
NoneRefusedStays == ~changed => \A c \in inbound : c.late \/ ip_acl_verdict(lists, c.ip, FALSE)

(* The lists never shut everybody out, and shut out whom they name.        *)
ListsHold == SomeoneGetsIn /\ NoneRefusedStays
=============================================================================
