------------------------------ MODULE MCRecords -----------------------------
(***************************************************************************)
(* The hub's bounded tables, for TLC: channel records, the counters of a   *)
(* sealed link, the gate's rows and its access lists, and the registry of  *)
(* bots with its revoke list; a behaviour is one of these.                 *)
(***************************************************************************)
EXTENDS ChannelStore, LinkSeq, ConnGate, IpAcl, Revoke

BanAndAll == {<<"a", "m">>, <<"*", "m">>}
Nested    == {{"h1"}, {"h2"}, {"h1", "h2"}}

VARIABLE part
recordVars == <<part, csVars, lsVars, cgVars, aclVars, rvkVars>>

RecordsInit ==
    /\ part \in {"channels", "link", "gate", "lists", "bots"}
    /\ CsInit /\ LsInit /\ CgInit /\ AclInit /\ RvkInit /\ (part # "lists" => inbound = {})
RecordsNext ==
    \/ part = "channels" /\ CsNext /\ UNCHANGED <<part, lsVars, cgVars, aclVars, rvkVars>>
    \/ part = "link" /\ LsNext /\ UNCHANGED <<part, csVars, cgVars, aclVars, rvkVars>>
    \/ part = "gate" /\ CgNext /\ UNCHANGED <<part, csVars, lsVars, aclVars, rvkVars>>
    \/ part = "lists" /\ AclNext /\ UNCHANGED <<part, csVars, lsVars, cgVars, rvkVars>>
    \/ part = "bots" /\ RvkNext /\ UNCHANGED <<part, csVars, lsVars, cgVars, aclVars>>

RecordsSpec == RecordsInit /\ [][RecordsNext]_recordVars
=============================================================================
