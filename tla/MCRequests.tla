----------------------------- MODULE MCRequests -----------------------------
(***************************************************************************)
(* Requests, for TLC: the election of the bot that answers a channel       *)
(* request, and the requests that are routed.  The two share no state; a   *)
(* behaviour is one of either.                                             *)
(***************************************************************************)
EXTENDS Elect, OpFlow, TLC

CONSTANTS h1, h2, h3, k1, k2, m1, m2, m3, b1, b2, b3, b4, c1, c2, c3

(* Three networks, by the hub that is asked: a pair k1, k2 with two bots   *)
(* at k1 and one at k2; a triangle with a bot at h3, which the question    *)
(* reaches along two paths; and m1, with a bot at each of its two peers.   *)
Triangle == {{h1, h2}, {h2, h3}, {h1, h3}}
Networks == Triangle \cup {{k1, k2}, {m1, m2}, {m1, m3}}
Helping == c1 :> k1 @@ c2 :> k1 @@ c3 :> k2 @@ b3 :> h3 @@ b2 :> m2 @@ b4 :> m3
Flimsy == h1 :> {} @@ m1 :> {} @@ k1 :> {c1, c2, c3, {k1, k2}}

(* Routing: the triangle with one more hub k1 that only h3 is linked to.   *)
(* Bot b3 came to h3 from h2, bot b4 to h1 from k1.                        *)
Kite == Triangle \cup {{h3, k1}}
OpHome == b1 :> h1 @@ b2 :> h2 @@ b3 :> h3 @@ b4 :> h1
OpLeft == b1 :> h1 @@ b2 :> h2 @@ b3 :> h2 @@ b4 :> k1
OpReq == "o1" :> [kind |-> "op", by |-> b1, to |-> b3, at |-> h1]
      @@ "o2" :> [kind |-> "op", by |-> b2, to |-> b3, at |-> h2]
      @@ "o3" :> [kind |-> "op", by |-> b4, to |-> b1, at |-> h1]
      @@ "o4" :> [kind |-> "op", by |-> b1, to |-> b4, at |-> h1]
      @@ "o5" :> [kind |-> "op", by |-> b3, to |-> b4, at |-> h3]
      @@ "k1" :> [kind |-> "key", by |-> b2, at |-> h2]
      @@ "k2" :> [kind |-> "key", by |-> b2, at |-> h2]
      @@ "a1" :> [kind |-> "admin", at |-> h3]
OpStored == h1 :> {b1} @@ h2 :> {b2} @@ h3 :> {b3} @@ k1 :> {}

VARIABLE which
reqVars == <<which, elVars, opVars>>

ReqInit == which \in {"elect", "route"} /\ ElInit /\ OfInit /\ (which = "route" => origin = h1)
ReqNext ==
    \/ which = "elect" /\ ElNext /\ UNCHANGED <<which, opVars>>
    \/ which = "route" /\ OfNext /\ UNCHANGED <<which, elVars>>

ReqSpec ==
    /\ ReqInit /\ [][ReqNext]_reqVars
    /\ WF_reqVars(which = "elect" /\ (\E h \in Hubs : tick(h)) /\ UNCHANGED <<origin, which, opVars>>)
    /\ WF_reqVars(which = "elect" /\ (\E h \in Hubs \ {origin} : Expire(h)) /\ UNCHANGED <<origin, which, opVars>>)
    /\ \A g, h \in Nodes : WF_reqVars(which = "route" /\ OfHubStep(g, h) /\ UNCHANGED <<which, elVars>>)
=============================================================================
