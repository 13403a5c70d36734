---------------------------- MODULE LinkSeqProofs ----------------------------
(***************************************************************************)
(* The frames of a connection.  LinkSeq: Faithful for any number of data   *)
(* frames, any lane bound and any number of tampered frames.  OutQueue:    *)
(* QueueTrue and ConfigFirst for any configs, sizes, lane and byte caps    *)
(* and budgets.                                                            *)
(***************************************************************************)
EXTENDS LinkSeq, OutQueue, FiniteSetTheorems, WellFoundedInduction, SequenceTheorems, TLAPS

LEMMA EndsFacts == \A e \in Ends : Far(e) \in Ends /\ Far(e) # e
BY DEF Ends, Far

(* What sealing does to the record of an end: it stays a record, and the   *)
(* counter moves exactly when a number was used.                           *)
LEMMA SealsType ==
    ASSUME st \in [Ends -> Side], NEW e \in Ends, NEW m \in Plain
    PROVE  /\ Seals(e, m).frame \in Sealed
           /\ Seals(e, m).st \in Side
           /\ Seals(e, m).frame.msg = m
           /\ Seals(e, m).frame.seq = IF st[e].tx_seq THEN st[e].tx_ctr + 1 ELSE 0
           /\ Seals(e, m).st.tx_ctr = IF st[e].tx_seq THEN st[e].tx_ctr + 1 ELSE st[e].tx_ctr
           /\ Seals(e, m).st.rx_ctr = st[e].rx_ctr
           /\ Seals(e, m).st.rx_seq = st[e].rx_seq
<1>1. st[e] \in Side OBVIOUS
<1> DEFINE t == IF m[1] = "go" THEN TRUE ELSE st[e].tx_seq
           n == IF st[e].tx_seq THEN st[e].tx_ctr + 1 ELSE st[e].tx_ctr
           num == IF st[e].tx_seq THEN st[e].tx_ctr + 1 ELSE 0
<1>2. t \in BOOLEAN /\ n \in Nat /\ num \in Nat
  <2>1. st[e].tx_seq \in BOOLEAN /\ st[e].tx_ctr \in Nat
    BY <1>1 DEF Side
  <2>2. t \in BOOLEAN
    BY <2>1, Zenon
  <2> HIDE DEF t
  <2>3. CASE st[e].tx_seq
    BY <2>1, <2>2, <2>3
  <2>4. CASE ~st[e].tx_seq
    BY <2>1, <2>2, <2>4
  <2> QED BY <2>3, <2>4
<1>3. Seals(e, m) = [frame |-> [msg |-> m, seq |-> num], st |-> [st[e] EXCEPT !.tx_seq = t, !.tx_ctr = n]]
  BY DEF Seals
<1> HIDE DEF t, n, num
<1>4. [st[e] EXCEPT !.tx_seq = t, !.tx_ctr = n] \in Side
  BY <1>1, <1>2 DEF Side
<1>5. /\ Seals(e, m).frame = [msg |-> m, seq |-> num]
      /\ Seals(e, m).st = [st[e] EXCEPT !.tx_seq = t, !.tx_ctr = n]
  BY <1>3
<1>6. [msg |-> m, seq |-> num] \in Sealed
  BY <1>2 DEF Sealed
<1>7. Seals(e, m).st.tx_ctr = n /\ Seals(e, m).st.rx_ctr = st[e].rx_ctr /\ Seals(e, m).st.rx_seq = st[e].rx_seq
  BY <1>5, <1>1 DEF Side
<1> QED BY <1>4, <1>5, <1>6, <1>7 DEF n, num

(* What link_seq_recv does to the record of an end.                        *)
LEMMA RecvType ==
    ASSUME st \in [Ends -> Side], NEW e \in Ends, NEW what
    PROVE  LET s == link_seq_recv(e, what)
           IN  /\ s \in Side
               /\ s.tx_ctr = st[e].tx_ctr
               /\ st[e].rx_seq => s.rx_seq /\ s.rx_ctr = st[e].rx_ctr
               /\ ~st[e].rx_seq => s.rx_ctr \in {0, st[e].rx_ctr}
<1>1. st[e] \in Side OBVIOUS
<1> QED BY <1>1 DEF link_seq_recv, Side

(* The head of a lane is a frame, and what stays behind is a lane.         *)
LEMMA LaneFacts ==
    ASSUME LsTypeOK, NEW e \in Ends
    PROVE  /\ urgent[e] \in Seq(Plain) /\ bulk[e] \in Seq(Plain) /\ wire[e] \in Seq(Sealed)
           /\ urgent[e] # <<>> => Head(urgent[e]) \in Plain /\ Tail(urgent[e]) \in Seq(Plain)
           /\ bulk[e] # <<>> => Head(bulk[e]) \in Plain /\ Tail(bulk[e]) \in Seq(Plain)
           /\ wire[e] # <<>> => Head(wire[e]) \in Sealed /\ Tail(wire[e]) \in Seq(Sealed)
           /\ sealed[e] \in Seq(Plain) /\ opened[e] \in Seq(Plain)
<1>1. urgent[e] \in Seq(Plain) /\ bulk[e] \in Seq(Plain) /\ wire[e] \in Seq(Sealed)
      /\ sealed[e] \in Seq(Plain) /\ opened[e] \in Seq(Plain)
  BY DEF LsTypeOK
<1> QED BY <1>1

(* The invariant holds at the start.                                       *)
LEMMA InitInv == LsInit => LsTypeOK /\ SeqInv
<1> SUFFICES ASSUME LsInit PROVE LsTypeOK /\ SeqInv
  OBVIOUS
<1>1. LsTypeOK
  <2>1. <<"offer", 0>> \in Plain
    BY DEF Plain
  <2> QED BY <2>1, LinkSeqAssumption DEF LsInit, LsTypeOK, Side
<1>2. SeqInv
  BY EndsFacts DEF LsInit, SeqInv, CountersExact, WireExact, Faithful
<1> QED BY <1>1, <1>2

(* Queueing leaves the counters and the wire alone.                        *)
LEMMA SendInv ==
    ASSUME LsTypeOK, SeqInv, NEW e \in Ends, NEW lane, Send(e, lane)
    PROVE  LsTypeOK' /\ SeqInv'
<1> DEFINE m == <<"data", sent[e] + 1>>
<1>1. m \in Plain /\ sent[e] + 1 \in 0 .. MaxData
  BY LinkSeqAssumption DEF Send, LsTypeOK, Plain
<1>2. Append(urgent[e], m) \in Seq(Plain) /\ Append(bulk[e], m) \in Seq(Plain)
  BY <1>1, LaneFacts
<1>3. LsTypeOK'
  <2>1. urgent' \in [Ends -> Seq(Plain)] /\ bulk' \in [Ends -> Seq(Plain)] /\ up' \in BOOLEAN
    BY <1>2 DEF Send, LsTypeOK
  <2> QED BY <1>1, <2>1 DEF Send, LsTypeOK
<1>4. SeqInv'
  BY DEF Send, SeqInv, CountersExact, WireExact, Faithful
<1> QED BY <1>3, <1>4

(* Sealing appends to the wire and, under a number, to the history alike.  *)
LEMMA DrainInv ==
    ASSUME LsTypeOK, SeqInv, NEW e \in Ends, NEW fits \in BOOLEAN, drain(e, fits)
    PROVE  LsTypeOK' /\ SeqInv'
<1> DEFINE m == IF urgent[e] # <<>> THEN Head(urgent[e]) ELSE Head(bulk[e])
<1>1. urgent[e] # <<>> \/ bulk[e] # <<>>
  BY LaneFacts DEF drain
<1>2. m \in Plain
  BY <1>1, LaneFacts
<1>t. st \in [Ends -> Side] /\ wire \in [Ends -> Seq(Sealed)]
      /\ sealed \in [Ends -> Seq(Plain)] /\ opened \in [Ends -> Seq(Plain)]
  BY DEF LsTypeOK
<1>3. urgent' \in [Ends -> Seq(Plain)] /\ bulk' \in [Ends -> Seq(Plain)]
  BY <1>1, LaneFacts DEF drain, LsTypeOK
<1>4. CASE ~fits
  <2>1. UNCHANGED <<wire, st, sealed, opened, up, sent, faults>>
    BY <1>4 DEF drain
  <2> QED BY <2>1, <1>3 DEF LsTypeOK, SeqInv, CountersExact, WireExact, Faithful
<1>5. CASE fits
  <2> DEFINE f == Seals(e, m).frame
             s == Seals(e, m).st
  <2>1. /\ f \in Sealed /\ s \in Side /\ f.msg = m
        /\ f.seq = IF st[e].tx_seq THEN st[e].tx_ctr + 1 ELSE 0
        /\ s.tx_ctr = IF st[e].tx_seq THEN st[e].tx_ctr + 1 ELSE st[e].tx_ctr
        /\ s.rx_ctr = st[e].rx_ctr /\ s.rx_seq = st[e].rx_seq
    BY <1>2, <1>t, SealsType
  <2>2. /\ wire' = [wire EXCEPT ![e] = Append(wire[e], f)]
        /\ st' = [st EXCEPT ![e] = s]
        /\ sealed' = IF st[e].tx_seq THEN [sealed EXCEPT ![e] = Append(sealed[e], m)] ELSE sealed
        /\ UNCHANGED <<up, sent, opened, faults>>
    BY <1>5 DEF drain
  <2> HIDE DEF m, f, s
  <2>3. LsTypeOK'
    <3>1. wire' \in [Ends -> Seq(Sealed)] /\ st' \in [Ends -> Side] /\ sealed' \in [Ends -> Seq(Plain)]
      BY <2>1, <2>2, <1>2, <1>t
    <3> QED BY <3>1, <2>2, <1>3 DEF LsTypeOK
  <2>4. CountersExact'
    <3> SUFFICES ASSUME NEW g \in Ends PROVE CountersExact!(g)'
      BY DEF CountersExact
    <3>1. st[g] \in Side /\ sealed[g] \in Seq(Plain)
      BY <1>t
    <3>2. CountersExact!(g)
      BY DEF SeqInv, CountersExact
    <3>3. CASE g = e
      BY <3>1, <3>2, <3>3, <2>1, <2>2, <1>2, <1>t DEF Side
    <3>4. CASE g # e
      BY <3>1, <3>2, <3>4, <2>2, <1>t
    <3> QED BY <3>3, <3>4
  <2>5. WireExact'
    <3> SUFFICES ASSUME NEW g \in Ends, NEW i \in 1 .. Len(wire[g])', wire'[g][i].seq > 0
                 PROVE  /\ wire'[g][i].seq <= Len(sealed'[g])
                        /\ wire'[g][i].msg = sealed'[g][wire'[g][i].seq]
      BY DEF WireExact
    <3>1. st[g] \in Side /\ sealed[g] \in Seq(Plain) /\ wire[g] \in Seq(Sealed)
      BY <1>t
    <3>2. st[g].tx_ctr = Len(sealed[g])
      BY DEF SeqInv, CountersExact
    <3>3. \A k \in 1 .. Len(wire[g]) : wire[g][k] \in Sealed /\
             (wire[g][k].seq > 0 => wire[g][k].seq <= Len(sealed[g]) /\ wire[g][k].msg = sealed[g][wire[g][k].seq])
      BY <3>1 DEF SeqInv, WireExact
    <3>4. CASE g # e
      BY <3>3, <3>4, <2>2, <1>t
    <3>5. CASE g = e /\ i <= Len(wire[g])
      <4>1. wire'[g][i] = wire[g][i]
        BY <3>5, <2>1, <2>2, <3>1, <1>t
      <4>2. \A n \in 1 .. Len(sealed[g]) : sealed'[g][n] = sealed[g][n]
        BY <3>5, <2>2, <3>1, <1>2, <1>t
      <4>3. Len(sealed'[g]) >= Len(sealed[g])
        BY <3>5, <2>2, <3>1, <1>2, <1>t
      <4>4. wire[g][i].seq \in 1 .. Len(sealed[g])
        BY <4>1, <3>3, <3>5 DEF Sealed
      <4> QED BY <4>1, <4>2, <4>3, <4>4, <3>3, <3>5, <3>1, <2>2, <1>2, <1>t
    <3>6. CASE g = e /\ i > Len(wire[g])
      <4>0. wire'[g] = Append(wire[g], f)
        BY <3>6, <2>2, <1>t
      <4>a. i = Len(wire[g]) + 1
        BY <4>0, <3>6, <3>1, <2>1
      <4>1. wire'[g][i] = f
        BY <4>0, <4>a, <3>1, <2>1
      <4>2. st[e].tx_seq
        BY <4>1, <2>1, <3>1, <3>6 DEF Side
      <4>3. sealed'[e] = Append(sealed[e], m)
        BY <4>2, <2>2, <1>t
      <4>4. f.seq = Len(sealed[e]) + 1
        BY <4>2, <2>1, <3>2, <3>6
      <4> QED BY <4>1, <4>3, <4>4, <2>1, <3>1, <3>6, <1>2
    <3> QED BY <3>4, <3>5, <3>6, <3>1
  <2>6. Faithful'
    <3> SUFFICES ASSUME NEW g \in Ends PROVE Faithful!(g)'
      BY DEF Faithful
    <3>1. Far(g) \in Ends /\ opened' = opened
      BY EndsFacts, <2>2
    <3>2. opened[g] \in Seq(Plain) /\ sealed[Far(g)] \in Seq(Plain)
      BY <3>1, <1>t
    <3>3. Faithful!(g)
      BY DEF SeqInv, Faithful
    <3>4. sealed'[Far(g)] \in {sealed[Far(g)], Append(sealed[Far(g)], m)}
      BY <2>2, <1>t, <3>1
    <3> QED BY <3>1, <3>2, <3>3, <3>4, <1>2, SMTT(30)
  <2> QED BY <2>3, <2>4, <2>5, <2>6 DEF SeqInv
<1> QED BY <1>4, <1>5

(* A frame that opens under a number is the next one sealed.               *)
LEMMA ReceiveInv ==
    ASSUME LsTypeOK, SeqInv, NEW e \in Ends, Receive(e)
    PROVE  LsTypeOK' /\ SeqInv'
<1> DEFINE f == Head(wire[Far(e)])
           what == f.msg[1]
           knows == e \in Speaks /\ what # "data"
           next == IF knows THEN link_seq_recv(e, what) ELSE st[e]
           bump == IF st[e].rx_seq THEN 1 ELSE 0
<1>t. /\ st \in [Ends -> Side] /\ wire \in [Ends -> Seq(Sealed)] /\ urgent \in [Ends -> Seq(Plain)]
      /\ sealed \in [Ends -> Seq(Plain)] /\ opened \in [Ends -> Seq(Plain)]
  BY DEF LsTypeOK
<1>w. Far(e) \in Ends /\ wire[Far(e)] # <<>>
  BY EndsFacts DEF Receive
<1>f. f \in Sealed /\ f = wire[Far(e)][1] /\ 1 \in 1 .. Len(wire[Far(e)])
  BY <1>w, <1>t
<1>1. wire' = [wire EXCEPT ![Far(e)] = Tail(wire[Far(e)])] /\ UNCHANGED <<bulk, sent, sealed, faults>>
  BY DEF Receive
<1>2. wire' \in [Ends -> Seq(Sealed)]
  BY <1>1, <1>w, <1>t
<1>3. WireExact'
  <2> SUFFICES ASSUME NEW g \in Ends, NEW i \in 1 .. Len(wire'[g]), wire'[g][i].seq > 0
               PROVE  /\ wire'[g][i].seq <= Len(sealed'[g])
                      /\ wire'[g][i].msg = sealed'[g][wire'[g][i].seq]
    BY DEF WireExact
  <2>1. \E k \in 1 .. Len(wire[g]) : wire'[g][i] = wire[g][k]
    <3>1. CASE g = Far(e)
      <4>1. wire'[g] = Tail(wire[g]) /\ wire[g] # <<>> /\ wire[g] \in Seq(Sealed)
        BY <3>1, <1>1, <1>w, <1>t
      <4>2. i + 1 \in 1 .. Len(wire[g]) /\ Tail(wire[g])[i] = wire[g][i + 1]
        BY <4>1
      <4> QED BY <4>1, <4>2
    <3>2. CASE g # Far(e)
      BY <3>2, <1>1, <1>t
    <3> QED BY <3>1, <3>2
  <2> QED BY <2>1, <1>1 DEF SeqInv, WireExact
<1>4. CASE ~Opens(e, f)
  <2>1. up' = FALSE /\ UNCHANGED <<st, urgent, opened>>
    BY <1>4 DEF Receive
  <2>2. LsTypeOK'
    BY <2>1, <1>1, <1>2 DEF LsTypeOK
  <2> QED BY <2>1, <2>2, <1>1, <1>3 DEF SeqInv, CountersExact, Faithful
<1>5. CASE Opens(e, f)
  <2>1. /\ up' = up
        /\ st' = [st EXCEPT ![e] = [next EXCEPT !.rx_ctr = @ + bump]]
        /\ urgent' = IF knows /\ AnswersGo(e, what) /\ Len(urgent[e]) < UrgentCap
                     THEN [urgent EXCEPT ![e] = Append(@, <<"go", 0>>)] ELSE urgent
        /\ opened' = IF st[e].rx_seq THEN [opened EXCEPT ![e] = Append(@, f.msg)] ELSE opened
    BY <1>5 DEF Receive
  <2>2. st[e] \in Side /\ f.msg \in Plain /\ f.seq \in Nat
    BY <1>t, <1>f DEF Sealed
  <2>3. /\ next \in Side /\ next.tx_ctr = st[e].tx_ctr
        /\ st[e].rx_seq => next.rx_seq /\ next.rx_ctr = st[e].rx_ctr
        /\ ~st[e].rx_seq => next.rx_ctr \in {0, st[e].rx_ctr}
    BY <1>t, <2>2, RecvType
  <2>c. /\ st[e].tx_ctr = Len(sealed[e]) /\ st[e].rx_ctr = Len(opened[e])
        /\ ~st[e].rx_seq => st[e].rx_ctr = 0
    BY DEF SeqInv, CountersExact
  <2>o. f.seq = IF st[e].rx_seq THEN st[e].rx_ctr + 1 ELSE 0
    BY <1>5 DEF Opens
  <2>b. bump \in Nat /\ (st[e].rx_seq => bump = 1) /\ (~st[e].rx_seq => bump = 0)
    BY <2>2 DEF Side
  <2> HIDE DEF f, next, what, bump, knows
  <2>4. LsTypeOK'
    <3>0. [next EXCEPT !.rx_ctr = @ + bump] \in Side
      BY <2>3, <2>b DEF Side
    <3>1. st' \in [Ends -> Side]
      BY <3>0, <2>1, <1>t
    <3>2. <<"go", 0>> \in Plain
      BY DEF Plain
    <3>3. urgent' \in [Ends -> Seq(Plain)]
      BY <2>1, <3>2, <1>t
    <3>4. opened' \in [Ends -> Seq(Plain)]
      BY <2>1, <2>2, <1>t
    <3> QED BY <3>1, <3>3, <3>4, <2>1, <1>1, <1>2 DEF LsTypeOK
  <2>5. CountersExact'
    <3> SUFFICES ASSUME NEW g \in Ends PROVE CountersExact!(g)'
      BY DEF CountersExact
    <3>1. CASE g # e
      BY <3>1, <2>1, <1>1, <1>t DEF SeqInv, CountersExact
    <3>2. CASE g = e
      <4>1. st'[e] = [next EXCEPT !.rx_ctr = @ + bump]
        BY <2>1, <1>t
      <4>2. st'[e].tx_ctr = next.tx_ctr /\ st'[e].rx_ctr = next.rx_ctr + bump /\ st'[e].rx_seq = next.rx_seq
        BY <4>1, <2>3 DEF Side
      <4>3. CASE st[e].rx_seq
        <5>1. opened'[e] = Append(opened[e], f.msg)
          BY <4>3, <2>1, <1>t
        <5>2. Len(opened'[e]) = Len(opened[e]) + 1
          BY <5>1, <2>2, <1>t
        <5> QED BY <5>2, <4>2, <4>3, <2>3, <2>c, <2>b, <1>1, <3>2
      <4>4. CASE ~st[e].rx_seq
        <5>1. opened'[e] = opened[e]
          BY <4>4, <2>1
        <5>2. next.rx_ctr = 0 /\ st[e].rx_ctr = 0 /\ bump = 0
          BY <4>4, <2>3, <2>c, <2>b
        <5>3. st'[e].rx_ctr = 0
          BY <5>2, <4>2
        <5>4. st'[e].tx_ctr = Len(sealed'[e])
          BY <4>2, <2>3, <2>c, <1>1
        <5> QED BY <5>1, <5>2, <5>3, <5>4, <2>c, <3>2
      <4> QED BY <4>3, <4>4
    <3> QED BY <3>1, <3>2
  <2>6. Faithful'
    <3> SUFFICES ASSUME NEW g \in Ends PROVE Faithful!(g)'
      BY DEF Faithful
    <3>0. Faithful!(g) /\ sealed' = sealed
      BY <1>1 DEF SeqInv, Faithful
    <3>1. CASE g # e \/ ~st[e].rx_seq
      <4>1. opened'[g] = opened[g]
        BY <3>1, <2>1, <1>t
      <4> QED BY <4>1, <3>0
    <3>2. CASE g = e /\ st[e].rx_seq
      <4>1. opened'[e] = Append(opened[e], f.msg)
        BY <3>2, <2>1, <1>t
      <4>2. f.seq = Len(opened[e]) + 1 /\ f.seq > 0
        BY <3>2, <2>o, <2>c, <1>t
      <4>3. f.seq <= Len(sealed[Far(e)]) /\ f.msg = sealed[Far(e)][f.seq]
        BY <4>2, <1>f, <1>w DEF SeqInv, WireExact
      <4>4. opened[e] \in Seq(Plain) /\ sealed[Far(e)] \in Seq(Plain)
        BY <1>t, <1>w
      <4>5. Len(opened'[e]) = Len(opened[e]) + 1
        BY <4>1, <4>4, <2>2
      <4>6. ASSUME NEW k \in 1 .. Len(opened'[e]) PROVE opened'[e][k] = sealed[Far(e)][k]
        <5>1. CASE k = Len(opened[e]) + 1
          BY <5>1, <4>1, <4>2, <4>3, <4>4, <2>2
        <5>2. CASE k # Len(opened[e]) + 1
          <6>1. k \in 1 .. Len(opened[e])
            BY <5>2, <4>4, <4>5
          <6> QED BY <6>1, <4>1, <4>4, <3>0, <3>2, <2>2
        <5> QED BY <5>1, <5>2
      <4> QED BY <4>2, <4>3, <4>5, <4>6, <3>0, <3>2
    <3> QED BY <3>1, <3>2
  <2> QED BY <2>4, <2>5, <2>6, <1>3 DEF SeqInv
<1> QED BY <1>4, <1>5

(* The path only ever puts frames on the wire that were there before.      *)
LEMMA TamperInv ==
    ASSUME LsTypeOK, SeqInv, NEW e \in Ends, Tamper(e)
    PROVE  LsTypeOK' /\ SeqInv'
<1> DEFINE w == wire[e]
<1>1. w \in Seq(Sealed) /\ wire \in [Ends -> Seq(Sealed)]
  BY DEF LsTypeOK
<1>2. UNCHANGED <<up, st, urgent, bulk, sent, sealed, opened>> /\ faults' \in 0 .. MaxFaults
  <2>1. faults \in 0 .. MaxFaults
    BY DEF LsTypeOK
  <2>2. /\ UNCHANGED <<up, st, urgent, bulk, sent, sealed, opened>>
        /\ faults < MaxFaults /\ faults' = faults + 1
    BY DEF Tamper
  <2> QED BY <2>1, <2>2, LinkSeqAssumption
<1>3. PICK i \in 1 .. Len(w) :
        \/ wire' = [wire EXCEPT ![e] = Append(w, w[i])]
        \/ wire' = [wire EXCEPT ![e] = [k \in 1 .. Len(w) - 1 |-> IF k < i THEN w[k] ELSE w[k + 1]]]
        \/ i > 1 /\ wire' = [wire EXCEPT ![e] = [w EXCEPT ![i] = w[i - 1], ![i - 1] = w[i]]]
  BY DEF Tamper
<1>4. /\ wire' \in [Ends -> Seq(Sealed)]
      /\ \A g \in Ends : \A j \in 1 .. Len(wire'[g]) : \E k \in 1 .. Len(wire[g]) : wire'[g][j] = wire[g][k]
  <2>1. CASE wire' = [wire EXCEPT ![e] = Append(w, w[i])]
    <3> DEFINE v == Append(w, w[i])
    <3>0. w[i] \in Sealed
      BY <1>1
    <3>a. v \in Seq(Sealed) /\ Len(v) = Len(w) + 1 /\ v[Len(w) + 1] = w[i]
          /\ \A j \in 1 .. Len(w) : v[j] = w[j]
      BY <3>0, <1>1
    <3>1. v \in Seq(Sealed) /\ \A j \in 1 .. Len(v) : v[j] = w[IF j <= Len(w) THEN j ELSE i]
      BY <3>a, <1>1
    <3>2. \A j \in 1 .. Len(v) : (IF j <= Len(w) THEN j ELSE i) \in 1 .. Len(w)
      BY <3>a, <1>1
    <3>4. wire'[e] = v
      BY <2>1, <1>1
    <3> HIDE DEF v
    <3>5. wire' \in [Ends -> Seq(Sealed)]
      BY <3>1, <2>1, <1>1 DEF v
    <3>6. \A j \in 1 .. Len(wire'[e]) : \E k \in 1 .. Len(wire[e]) : wire'[e][j] = wire[e][k]
      BY <3>1, <3>2, <3>4
    <3>7. \A g \in Ends \ {e} : wire'[g] = wire[g]
      BY <2>1, <1>1
    <3> QED BY <3>5, <3>6, <3>7
  <2>2. CASE wire' = [wire EXCEPT ![e] = [k \in 1 .. Len(w) - 1 |-> IF k < i THEN w[k] ELSE w[k + 1]]]
    <3> DEFINE v == [k \in 1 .. Len(w) - 1 |-> IF k < i THEN w[k] ELSE w[k + 1]]
    <3>1. \A j \in 1 .. Len(w) - 1 : v[j] = w[IF j < i THEN j ELSE j + 1]
      OBVIOUS
    <3>2. \A j \in 1 .. Len(w) - 1 : (IF j < i THEN j ELSE j + 1) \in 1 .. Len(w) /\ v[j] \in Sealed
      BY <1>1
    <3>3. v \in Seq(Sealed) /\ Len(v) = Len(w) - 1
      BY <3>2, <1>1
    <3>4. wire'[e] = v
      BY <2>2, <1>1
    <3> HIDE DEF v
    <3>5. wire' \in [Ends -> Seq(Sealed)]
      BY <3>3, <2>2, <1>1 DEF v
    <3>6. \A j \in 1 .. Len(wire'[e]) : \E k \in 1 .. Len(wire[e]) : wire'[e][j] = wire[e][k]
      BY <3>1, <3>2, <3>3, <3>4
    <3>7. \A g \in Ends \ {e} : wire'[g] = wire[g]
      BY <2>2, <1>1
    <3> QED BY <3>5, <3>6, <3>7
  <2>3. CASE i > 1 /\ wire' = [wire EXCEPT ![e] = [w EXCEPT ![i] = w[i - 1], ![i - 1] = w[i]]]
    <3> DEFINE v == [w EXCEPT ![i] = w[i - 1], ![i - 1] = w[i]]
    <3>1. /\ v \in Seq(Sealed) /\ Len(v) = Len(w)
          /\ \A j \in 1 .. Len(w) : v[j] = w[IF j = i THEN i - 1 ELSE IF j = i - 1 THEN i ELSE j]
      BY <1>1, <2>3
    <3>2. \A j \in 1 .. Len(w) : (IF j = i THEN i - 1 ELSE IF j = i - 1 THEN i ELSE j) \in 1 .. Len(w)
      BY <1>1, <2>3
    <3>4. wire'[e] = v
      BY <2>3, <1>1
    <3> HIDE DEF v
    <3>5. wire' \in [Ends -> Seq(Sealed)]
      BY <3>1, <2>3, <1>1 DEF v
    <3>6. \A j \in 1 .. Len(wire'[e]) : \E k \in 1 .. Len(wire[e]) : wire'[e][j] = wire[e][k]
      BY <3>1, <3>2, <3>4
    <3>7. \A g \in Ends \ {e} : wire'[g] = wire[g]
      BY <2>3, <1>1
    <3> QED BY <3>5, <3>6, <3>7
  <2> QED BY <1>3, <2>1, <2>2, <2>3
<1>5. LsTypeOK'
  BY <1>2, <1>4 DEF LsTypeOK
<1>6. WireExact'
  <2> SUFFICES ASSUME NEW g \in Ends, NEW j \in 1 .. Len(wire'[g]), wire'[g][j].seq > 0
               PROVE  /\ wire'[g][j].seq <= Len(sealed'[g])
                      /\ wire'[g][j].msg = sealed'[g][wire'[g][j].seq]
    BY DEF WireExact
  <2>1. PICK k \in 1 .. Len(wire[g]) : wire'[g][j] = wire[g][k]
    BY <1>4
  <2> QED BY <2>1, <1>2 DEF SeqInv, WireExact
<1> QED BY <1>2, <1>5, <1>6 DEF SeqInv, CountersExact, Faithful

(* What a reader acts on under the numbers is what the other end sealed,   *)
(* in order, for every tampering with the path: the counters of            *)
(* encrypt_into_writing and handle_client_data count exactly these frames. *)
THEOREM FaithfulAlways == LsSpec => []Faithful
<1>1. LsInit => LsTypeOK /\ SeqInv
  BY InitInv
<1>2. LsTypeOK /\ SeqInv /\ [LsNext]_lsVars => LsTypeOK' /\ SeqInv'
  <2> SUFFICES ASSUME LsTypeOK, SeqInv, [LsNext]_lsVars PROVE LsTypeOK' /\ SeqInv'
    OBVIOUS
  <2>1. CASE UNCHANGED lsVars
    BY <2>1 DEF lsVars, LsTypeOK, SeqInv, CountersExact, WireExact, Faithful
  <2>2. ASSUME NEW e \in Ends, NEW lane \in {"urgent", "bulk"}, Send(e, lane) PROVE LsTypeOK' /\ SeqInv'
    BY <2>2, SendInv
  <2>3. ASSUME NEW e \in Ends, NEW fits \in BOOLEAN, drain(e, fits) PROVE LsTypeOK' /\ SeqInv'
    BY <2>3, DrainInv
  <2>4. ASSUME NEW e \in Ends, Receive(e) PROVE LsTypeOK' /\ SeqInv'
    BY <2>4, ReceiveInv
  <2>5. ASSUME NEW e \in Ends, Tamper(e) PROVE LsTypeOK' /\ SeqInv'
    BY <2>5, TamperInv
  <2>6. CASE LsNext
    <3>1. PICK e \in Ends : \/ \E lane \in {"urgent", "bulk"} : Send(e, lane)
                             \/ \E fits \in BOOLEAN : drain(e, fits)
                             \/ Receive(e)
                             \/ Tamper(e)
      BY <2>6 DEF LsNext
    <3> QED BY <3>1, <2>2, <2>3, <2>4, <2>5
  <2> QED BY <2>1, <2>6
<1>3. SeqInv => Faithful
  BY DEF SeqInv
<1> QED BY <1>1, <1>2, <1>3, PTL DEF LsSpec

-----------------------------------------------------------------------------
(* NeverRefused                                                            *)

(* What sealing does to the flags of the record: only a "go" sets one.     *)
LEMMA SealsFlags ==
    ASSUME st \in [Ends -> Side], NEW e \in Ends, NEW m \in Plain
    PROVE  /\ Seals(e, m).st.tx_seq <=> (m[1] = "go" \/ st[e].tx_seq)
           /\ Seals(e, m).st.go_queued = st[e].go_queued
           /\ Seals(e, m).st.offered = st[e].offered
<1>1. st[e] \in Side OBVIOUS
<1> DEFINE t == IF m[1] = "go" THEN TRUE ELSE st[e].tx_seq
           n == IF st[e].tx_seq THEN st[e].tx_ctr + 1 ELSE st[e].tx_ctr
           s == [st[e] EXCEPT !.tx_seq = t, !.tx_ctr = n]
<1>2. Seals(e, m).st = s
  BY DEF Seals
<1>3. s.tx_seq = t /\ s.go_queued = st[e].go_queued /\ s.offered = st[e].offered
  <2> HIDE DEF t, n
  <2> QED BY <1>1 DEF Side
<1>4. t <=> (m[1] = "go" \/ st[e].tx_seq)
  <2>1. st[e].tx_seq \in BOOLEAN
    BY <1>1 DEF Side
  <2> QED BY <2>1, Zenon
<1> HIDE DEF s, t
<1> QED BY <1>2, <1>3, <1>4, Zenon

(* What link_seq_recv does to the flags of the record.                     *)
LEMMA RecvFlags ==
    ASSUME st \in [Ends -> Side], NEW e \in Ends, NEW what
    PROVE  LET s == link_seq_recv(e, what)
           IN  /\ s.tx_seq = st[e].tx_seq
               /\ s.offered <=> (what = "offer" \/ st[e].offered)
               /\ s.go_queued <=> (what = "offer" /\ ~st[e].offered) \/ st[e].go_queued
               /\ s.rx_seq <=> (what = "go" /\ st[e].offered) \/ st[e].rx_seq
<1>1. st[e] \in Side OBVIOUS
<1>2. CASE what = "offer" /\ ~st[e].offered
  BY <1>1, <1>2 DEF link_seq_recv, Side
<1>3. CASE what = "go" /\ st[e].offered /\ ~st[e].rx_seq
  BY <1>1, <1>3 DEF link_seq_recv, Side
<1>4. CASE /\ ~(what = "offer" /\ ~st[e].offered)
           /\ ~(what = "go" /\ st[e].offered /\ ~st[e].rx_seq)
  <2>1. link_seq_recv(e, what) = st[e]
    BY <1>4 DEF link_seq_recv
  <2> QED BY <1>4, <2>1
<1> QED BY <1>2, <1>3, <1>4

(* The switch of one end, as one formula.                                  *)
SwitchAt(e) == Numbered(e) /\ GoPlaced(e) /\ GoWaits(e) /\ OfferFirst(e)

LEMMA SwitchInit == LsInit => SwitchInv
<1> SUFFICES ASSUME LsInit, NEW e \in Ends PROVE SwitchAt(e)
  BY DEF SwitchInv, SwitchAt
<1>1. /\ wire[e] = <<>> /\ bulk[e] = <<>> /\ Far(e) \in Ends
      /\ urgent[e] = IF e \in Speaks THEN << <<"offer", 0>> >> ELSE <<>>
      /\ ~st[e].tx_seq /\ st[e].tx_ctr = 0 /\ ~st[e].go_queued /\ ~st[Far(e)].rx_seq
  BY EndsFacts DEF LsInit
<1>2. Numbered(e) /\ GoPlaced(e)
  BY <1>1 DEF Numbered, GoPlaced
<1>3. CASE e \in Speaks
  <2>1. urgent[e] = << <<"offer", 0>> >>
    BY <1>1, <1>3
  <2>2. Len(urgent[e]) = 1 /\ urgent[e][1] = <<"offer", 0>> /\ Head(urgent[e]) = <<"offer", 0>> /\ urgent[e] # <<>>
    BY <2>1
  <2>3. GoWaits(e)
    BY <2>2, <1>1, <1>3 DEF GoWaits
  <2>4. OfferFirst(e)
    BY <2>2, <1>1 DEF OfferFirst
  <2> QED BY <1>2, <2>3, <2>4 DEF SwitchAt
<1>4. CASE e \notin Speaks
  <2>1. Len(urgent[e]) = 0
    BY <1>1, <1>4
  <2> QED BY <2>1, <1>1, <1>2, <1>4 DEF SwitchAt, GoWaits, OfferFirst
<1> QED BY <1>3, <1>4

(* A lane at most one frame longer: what was there stays, the head too.    *)
LEMMA Longer ==
    ASSUME NEW S, NEW row \in Seq(S), NEW x \in S, NEW r \in {row, Append(row, x)}
    PROVE  /\ Len(r) >= Len(row)
           /\ \A i \in 1 .. Len(r) : \/ i \in 1 .. Len(row) /\ r[i] = row[i]
                                     \/ i = Len(row) + 1 /\ r[i] = x /\ r = Append(row, x)
           /\ row # <<>> => r # <<>> /\ Head(r) = Head(row)
<1>1. CASE r = row
  BY <1>1
<1>2. CASE r = Append(row, x)
  <2>1. Len(r) = Len(row) + 1 /\ r[Len(row) + 1] = x /\ \A i \in 1 .. Len(row) : r[i] = row[i]
    BY <1>2
  <2>2. r \in Seq(S) /\ Len(row) \in Nat
    BY <1>2
  <2>3. row # <<>> => 1 \in 1 .. Len(row)
    OBVIOUS
  <2>4. Head(r) = r[1] /\ (row # <<>> => Head(row) = row[1])
    BY <2>1, <2>2
  <2> QED BY <2>1, <2>2, <2>3, <2>4, <1>2
<1> QED BY <1>1, <1>2

(* Queueing data puts nothing before the "go" or the offer.                *)
LEMMA SendSwitch ==
    ASSUME LsTypeOK, \A g \in Ends : SwitchAt(g), NEW e \in Ends, NEW lane, Send(e, lane)
    PROVE  \A g \in Ends : SwitchAt(g)'
<1> DEFINE m == <<"data", sent[e] + 1>>
<1>1. m \in Plain /\ m[1] = "data"
  BY LinkSeqAssumption DEF Send, LsTypeOK, Plain
<1>2. UNCHANGED <<st, wire>>
  BY DEF Send
<1> SUFFICES ASSUME NEW g \in Ends PROVE SwitchAt(g)'
  OBVIOUS
<1>3. /\ urgent[g] \in Seq(Plain) /\ bulk[g] \in Seq(Plain)
      /\ urgent'[g] \in {urgent[g], Append(urgent[g], m)}
      /\ bulk'[g] \in {bulk[g], Append(bulk[g], m)}
  BY LaneFacts DEF Send, LsTypeOK
<1> HIDE DEF m
<1>4. Numbered(g)' /\ GoPlaced(g)'
  BY <1>2 DEF SwitchAt, Numbered, GoPlaced, Bare
<1>5. /\ Len(urgent'[g]) >= Len(urgent[g])
      /\ \A i \in 1 .. Len(urgent'[g]) : \/ i \in 1 .. Len(urgent[g]) /\ urgent'[g][i] = urgent[g][i]
                                         \/ urgent'[g][i][1] = "data"
      /\ \A i \in 1 .. Len(bulk'[g]) : \/ i \in 1 .. Len(bulk[g]) /\ bulk'[g][i] = bulk[g][i]
                                       \/ bulk'[g][i][1] = "data"
      /\ urgent[g] # <<>> => urgent'[g] # <<>> /\ Head(urgent'[g]) = Head(urgent[g])
  <2>1. \A row \in Seq(Plain) : \A r \in {row, Append(row, m)} :
          /\ Len(r) >= Len(row)
          /\ \A i \in 1 .. Len(r) : (i \in 1 .. Len(row) /\ r[i] = row[i]) \/ r[i] = m
          /\ row # <<>> => r # <<>> /\ Head(r) = Head(row)
    BY <1>1, Longer
  <2> QED BY <1>1, <1>3, <2>1
<1>6. GoWaits(g)'
  <2>0. GoWaits(g)
    BY DEF SwitchAt
  <2>1. \A i \in 1 .. Len(urgent'[g]) : urgent'[g][i][1] \in {"go", "offer"} =>
           i \in 1 .. Len(urgent[g]) /\ urgent'[g][i] = urgent[g][i]
    BY <1>5
  <2>2. \A i \in 1 .. Len(bulk'[g]) : bulk'[g][i][1] = "data"
    BY <1>5, <2>0 DEF GoWaits
  <2> QED BY <2>0, <2>1, <2>2, <1>2, SMTT(30) DEF GoWaits
<1>7. OfferFirst(g)'
  BY <1>2, <1>5 DEF SwitchAt, OfferFirst
<1> QED BY <1>4, <1>6, <1>7 DEF SwitchAt

(* Draining seals the "go" once, and numbers what follows it.              *)
LEMMA DrainSwitch ==
    ASSUME LsTypeOK, \A g \in Ends : SwitchAt(g), NEW e \in Ends, NEW fits \in BOOLEAN, drain(e, fits)
    PROVE  \A g \in Ends : SwitchAt(g)'
<1> DEFINE m == IF urgent[e] # <<>> THEN Head(urgent[e]) ELSE Head(bulk[e])
           f == Seals(e, m).frame
           s == Seals(e, m).st
<1>t. /\ st \in [Ends -> Side] /\ wire \in [Ends -> Seq(Sealed)]
      /\ urgent \in [Ends -> Seq(Plain)] /\ bulk \in [Ends -> Seq(Plain)]
  BY DEF LsTypeOK
<1>1. urgent[e] # <<>> \/ bulk[e] # <<>>
  BY LaneFacts DEF drain
<1>2. m \in Plain
  BY <1>1, LaneFacts
<1>3. /\ f \in Sealed /\ f.msg = m
      /\ f.seq = IF st[e].tx_seq THEN st[e].tx_ctr + 1 ELSE 0
      /\ s.tx_ctr = IF st[e].tx_seq THEN st[e].tx_ctr + 1 ELSE st[e].tx_ctr
      /\ s.rx_ctr = st[e].rx_ctr /\ s.rx_seq = st[e].rx_seq
  BY <1>t, <1>2, SealsType
<1>4. /\ s.tx_seq <=> (m[1] = "go" \/ st[e].tx_seq)
      /\ s.go_queued = st[e].go_queued /\ s.offered = st[e].offered
  BY <1>t, <1>2, SealsFlags
<1>5. \/ /\ fits
         /\ wire' = [wire EXCEPT ![e] = Append(wire[e], f)]
         /\ st' = [st EXCEPT ![e] = s]
      \/ /\ m[1] = "data"
         /\ UNCHANGED <<wire, st>>
  BY DEF drain
<1>6. /\ \/ urgent[e] # <<>> /\ urgent'[e] = Tail(urgent[e]) /\ bulk'[e] = bulk[e]
         \/ urgent[e] = <<>> /\ urgent'[e] = urgent[e] /\ bulk'[e] = Tail(bulk[e])
      /\ \A g \in Ends \ {e} : urgent'[g] = urgent[g] /\ bulk'[g] = bulk[g]
  BY <1>t DEF drain
(* The frame comes from the head of its lane; the rest moves up.           *)
<1>7. /\ \A i \in 1 .. Len(urgent'[e]) : i + 1 \in 1 .. Len(urgent[e]) /\ urgent'[e][i] = urgent[e][i + 1]
      /\ urgent[e] # <<>> => m = urgent[e][1] /\ 1 \in 1 .. Len(urgent[e]) /\ m = Head(urgent[e])
      /\ urgent[e] = <<>> => m = bulk[e][1] /\ 1 \in 1 .. Len(bulk[e])
      /\ \A i \in 1 .. Len(bulk'[e]) : \E k \in 1 .. Len(bulk[e]) : bulk'[e][i] = bulk[e][k]
  <2>1. urgent[e] \in Seq(Plain) /\ bulk[e] \in Seq(Plain)
    BY <1>t
  <2>2. CASE urgent[e] # <<>>
    <3>1. urgent'[e] = Tail(urgent[e]) /\ bulk'[e] = bulk[e]
      BY <2>2, <1>6
    <3>2. \A i \in 1 .. Len(Tail(urgent[e])) : i + 1 \in 1 .. Len(urgent[e]) /\ Tail(urgent[e])[i] = urgent[e][i + 1]
      BY <2>1, <2>2
    <3>3. Head(urgent[e]) = urgent[e][1] /\ 1 \in 1 .. Len(urgent[e])
      BY <2>1, <2>2
    <3> QED BY <3>1, <3>2, <3>3, <2>2
  <2>3. CASE urgent[e] = <<>>
    <3>1. urgent'[e] = <<>> /\ bulk'[e] = Tail(bulk[e]) /\ bulk[e] # <<>>
      BY <2>3, <1>6, <1>1
    <3>2. \A i \in 1 .. Len(Tail(bulk[e])) : i + 1 \in 1 .. Len(bulk[e]) /\ Tail(bulk[e])[i] = bulk[e][i + 1]
      BY <2>1, <3>1
    <3>3. Head(bulk[e]) = bulk[e][1] /\ 1 \in 1 .. Len(bulk[e])
      BY <2>1, <3>1
    <3>4. Len(urgent'[e]) = 0
      BY <3>1
    <3> QED BY <3>1, <3>2, <3>3, <3>4, <2>3
  <2> QED BY <2>2, <2>3
<1> HIDE DEF m, f, s
<1> SUFFICES ASSUME NEW g \in Ends PROVE SwitchAt(g)'
  OBVIOUS
<1>g. SwitchAt(g) /\ SwitchAt(e)
  OBVIOUS
<1>h. Far(g) \in Ends /\ Far(g) # g
  BY EndsFacts
(* The other end's reading of it, and its offer, are left alone.           *)
<1>8. /\ st'[Far(g)].rx_seq = st[Far(g)].rx_seq /\ st'[Far(g)].rx_ctr = st[Far(g)].rx_ctr
      /\ st'[Far(g)].offered = st[Far(g)].offered
  BY <1>3, <1>4, <1>5, <1>h, <1>t
<1>9. CASE g # e
  <2>1. wire'[g] = wire[g] /\ st'[g] = st[g] /\ urgent'[g] = urgent[g] /\ bulk'[g] = bulk[g]
    BY <1>9, <1>5, <1>6, <1>t
  <2>2. Numbered(g)'
    BY <2>1, <1>g DEF SwitchAt, Numbered, Bare
  <2>3. GoPlaced(g)'
    BY <2>1, <1>8, <1>g DEF SwitchAt, GoPlaced, Bare
  <2>4. GoWaits(g)'
    BY <2>1, <1>g DEF SwitchAt, GoWaits
  <2>5. OfferFirst(g)'
    BY <2>1, <1>8, <1>g DEF SwitchAt, OfferFirst
  <2> QED BY <2>2, <2>3, <2>4, <2>5 DEF SwitchAt
<1>10. CASE g = e
  <2>t. /\ wire[e] \in Seq(Sealed) /\ Len(wire[e]) \in Nat
        /\ st[e].tx_ctr \in Nat /\ st[Far(e)].rx_ctr \in Nat
    BY <1>t, <1>h, <1>10 DEF Side
  <2>g. Numbered(e) /\ GoPlaced(e) /\ GoWaits(e) /\ OfferFirst(e)
    BY <1>g DEF SwitchAt
  <2>b. Bare(e) = Len(wire[e]) - st[e].tx_ctr /\ Bare(e)' = Len(wire'[e]) - st'[e].tx_ctr
    BY DEF Bare
  (* Lanes: a "go" drained is the only one.                                *)
  <2>1. ~st[e].tx_seq \/ m[1] # "go"
    BY <1>7, <2>g DEF GoWaits
  <2>2. m[1] = "go" => st[e].go_queued /\ urgent[e] # <<>>
    BY <1>7, <2>g DEF GoWaits
  <2>3. m[1] = "offer" => e \in Speaks
    BY <1>7, <2>g DEF GoWaits
  <2>l. /\ \A i \in 1 .. Len(bulk'[e]) : bulk'[e][i][1] = "data"
        /\ \A i \in 1 .. Len(urgent'[e]) : urgent'[e][i][1] = "go" => ~st[e].tx_seq /\ st[e].go_queued
        /\ \A i, k \in 1 .. Len(urgent'[e]) : urgent'[e][i][1] = "go" /\ urgent'[e][k][1] = "go" => i = k
        /\ \A i \in 1 .. Len(urgent'[e]) : urgent'[e][i][1] = "offer" => e \in Speaks
    <3>1. /\ \A i \in 1 .. Len(bulk[e]) : bulk[e][i][1] = "data"
          /\ \A i \in 1 .. Len(urgent[e]) : urgent[e][i][1] = "go" => ~st[e].tx_seq /\ st[e].go_queued
          /\ \A i, k \in 1 .. Len(urgent[e]) : urgent[e][i][1] = "go" /\ urgent[e][k][1] = "go" => i = k
          /\ \A i \in 1 .. Len(urgent[e]) : urgent[e][i][1] = "offer" => e \in Speaks
      BY <2>g DEF GoWaits
    <3>2. \A i \in 1 .. Len(bulk'[e]) : bulk'[e][i][1] = "data"
      <4> SUFFICES ASSUME NEW i \in 1 .. Len(bulk'[e]) PROVE bulk'[e][i][1] = "data"
        OBVIOUS
      <4>1. PICK k \in 1 .. Len(bulk[e]) : bulk'[e][i] = bulk[e][k]
        BY <1>7
      <4> QED BY <4>1, <3>1
    <3>3. ASSUME NEW i \in 1 .. Len(urgent'[e]), NEW k \in 1 .. Len(urgent'[e]),
                 urgent'[e][i][1] = "go", urgent'[e][k][1] = "go"
          PROVE  i = k
      <4>1. /\ i + 1 \in 1 .. Len(urgent[e]) /\ k + 1 \in 1 .. Len(urgent[e])
            /\ urgent[e][i + 1][1] = "go" /\ urgent[e][k + 1][1] = "go"
        BY <3>3, <1>7
      <4>2. i + 1 = k + 1
        BY <4>1, <3>1
      <4> QED BY <4>2
    <3>4. \A i \in 1 .. Len(urgent'[e]) : urgent'[e][i][1] = "go" => ~st[e].tx_seq /\ st[e].go_queued
      BY <1>7, <3>1
    <3>6. \A i \in 1 .. Len(urgent'[e]) : urgent'[e][i][1] = "offer" => e \in Speaks
      BY <1>7, <3>1
    <3>5. \A i, k \in 1 .. Len(urgent'[e]) : urgent'[e][i][1] = "go" /\ urgent'[e][k][1] = "go" => i = k
      BY <3>3
    <3> QED BY <3>2, <3>4, <3>5, <3>6, Zenon
  <2>w. /\ \A i \in 1 .. Len(wire[e]) : wire[e][i].msg[1] = "offer" => e \in Speaks
        /\ st[e].tx_seq => st[e].go_queued
        /\ st[e].go_queued => st[e].offered /\ e \in Speaks /\ Far(e) \in Speaks
    BY <2>g DEF GoWaits
  <2>4. CASE m[1] = "data" /\ UNCHANGED <<wire, st>>
    <3>1. Numbered(e)' /\ GoPlaced(e)'
      BY <2>4, <2>g DEF Numbered, GoPlaced, Bare
    <3>2. GoWaits(e)'
      BY <2>l, <2>w, <2>4 DEF GoWaits
    <3>3. OfferFirst(e)'
      BY <2>4, <2>g, <1>7 DEF OfferFirst
    <3> QED BY <3>1, <3>2, <3>3, <1>10 DEF SwitchAt
  <2>5. CASE wire' = [wire EXCEPT ![e] = Append(wire[e], f)] /\ st' = [st EXCEPT ![e] = s]
    <3>1. wire'[e] = Append(wire[e], f) /\ st'[e] = s
      BY <2>5, <1>t
    <3>2. /\ Len(wire'[e]) = Len(wire[e]) + 1 /\ wire'[e][Len(wire[e]) + 1] = f
          /\ \A i \in 1 .. Len(wire[e]) : wire'[e][i] = wire[e][i]
      BY <3>1, <2>t, <1>3
    <3>c. s.tx_ctr = IF st[e].tx_seq THEN st[e].tx_ctr + 1 ELSE st[e].tx_ctr
      BY <1>3
    <3>d. Bare(e)' = (Len(wire[e]) + 1) - s.tx_ctr
      <4>1. Bare(e)' = Len(wire'[e]) - st'[e].tx_ctr
        BY <2>b
      <4>2. Len(wire'[e]) = Len(wire[e]) + 1 /\ st'[e].tx_ctr = s.tx_ctr
        BY <3>1, <3>2
      <4> QED BY <4>1, <4>2
    <3>3. st[e].tx_seq => Bare(e)' = Bare(e)
      BY <3>c, <3>d, <2>t, <2>b, SMTT(30)
    <3>4. ~st[e].tx_seq => Bare(e) = Len(wire[e]) /\ Bare(e)' = Len(wire[e]) + 1 /\ s.tx_ctr = 0 /\ st[e].tx_ctr = 0
      <4>1. ~st[e].tx_seq => st[e].tx_ctr = 0
        BY <2>g DEF GoPlaced
      <4> QED BY <4>1, <3>c, <3>d, <2>t, <2>b
    <3>5. Numbered(e)'
      <4> SUFFICES ASSUME NEW i \in 1 .. Len(wire'[e])
                   PROVE  wire'[e][i].seq = IF i <= Bare(e)' THEN 0 ELSE i - Bare(e)'
        BY DEF Numbered
      <4>1. CASE i \in 1 .. Len(wire[e])
        <5>1. wire'[e][i].seq = IF i <= Bare(e) THEN 0 ELSE i - Bare(e)
          BY <4>1, <3>2, <2>g DEF Numbered
        <5> QED BY <5>1, <4>1, <3>3, <3>4, <2>t
      <4>2. CASE i = Len(wire[e]) + 1
        <5>1. wire'[e][i].seq = IF st[e].tx_seq THEN st[e].tx_ctr + 1 ELSE 0
          BY <4>2, <3>2, <1>3
        <5>2. CASE st[e].tx_seq
          BY <5>1, <5>2, <4>2, <3>3, <2>b, <2>t
        <5>3. CASE ~st[e].tx_seq
          BY <5>1, <5>3, <4>2, <3>4, <2>t
        <5> QED BY <5>2, <5>3
      <4> QED BY <4>1, <4>2, <3>2, <2>t
    <3>6. GoPlaced(e)'
      <4>p. GoPlaced(e)
        BY <2>g
      <4>u. /\ st'[Far(e)].rx_seq = st[Far(e)].rx_seq /\ st'[Far(e)].rx_ctr = st[Far(e)].rx_ctr
            /\ st'[e].tx_seq <=> (m[1] = "go" \/ st[e].tx_seq)
            /\ st'[e].tx_ctr = s.tx_ctr
        BY <1>8, <1>10, <1>4, <3>1
      <4>1. CASE m[1] = "go"
        <5>1. ~st[e].tx_seq /\ ~st[Far(e)].rx_seq
          BY <4>1, <2>1, <4>p DEF GoPlaced
        <5>2. \A i \in 1 .. Len(wire[e]) : wire[e][i].msg[1] # "go"
          BY <5>1, <4>p DEF GoPlaced
        <5>3. /\ Bare(e)' >= 1 /\ wire'[e][Bare(e)'].msg[1] = "go"
              /\ \A i \in 1 .. Len(wire'[e]) : wire'[e][i].msg[1] = "go" => i = Bare(e)'
          BY <5>1, <5>2, <4>1, <3>2, <3>4, <2>t, <1>3
        <5> QED BY <5>1, <5>3, <4>u, <4>1 DEF GoPlaced
      <4>2. CASE m[1] # "go" /\ st[e].tx_seq
        <5>1. \A i \in 1 .. Len(wire'[e]) : wire'[e][i].msg[1] = "go" =>
                i \in 1 .. Len(wire[e]) /\ wire[e][i].msg[1] = "go"
          <6>1. \A i \in 1 .. Len(wire'[e]) : i \in 1 .. Len(wire[e]) \/ wire'[e][i].msg = m
            BY <3>2, <2>t, <1>3
          <6> QED BY <6>1, <4>2, <3>2
        <5>2. Bare(e) >= 1 => Bare(e) \in 1 .. Len(wire[e])
          BY <2>b, <2>t
        <5>3. Bare(e)' = Bare(e)
          BY <4>2, <3>3
        <5>4. ~st[Far(e)].rx_seq => Bare(e) >= 1 /\ wire'[e][Bare(e)].msg[1] = "go"
          BY <5>2, <4>2, <4>p, <3>2 DEF GoPlaced
        <5> QED BY <5>1, <5>3, <5>4, <4>u, <4>p, <4>2 DEF GoPlaced
      <4>3. CASE m[1] # "go" /\ ~st[e].tx_seq
        <5>1. \A i \in 1 .. Len(wire'[e]) : wire'[e][i].msg[1] = "go" =>
                i \in 1 .. Len(wire[e]) /\ wire[e][i].msg[1] = "go"
          <6>1. \A i \in 1 .. Len(wire'[e]) : i \in 1 .. Len(wire[e]) \/ wire'[e][i].msg = m
            BY <3>2, <2>t, <1>3
          <6> QED BY <6>1, <4>3, <3>2
        <5> QED BY <5>1, <4>u, <4>p, <4>3, <3>4 DEF GoPlaced
      <4> QED BY <4>1, <4>2, <4>3
    <3>7. GoWaits(e)'
      <4>w. GoWaits(e)
        BY <2>g
      <4>u. /\ st'[e].tx_seq <=> (m[1] = "go" \/ st[e].tx_seq)
            /\ st'[e].go_queued = st[e].go_queued /\ st'[e].offered = st[e].offered
        BY <1>4, <3>1
      <4>2. \A i \in 1 .. Len(wire'[e]) : wire'[e][i].msg[1] = "offer" => e \in Speaks
        <5>1. \A i \in 1 .. Len(wire'[e]) : i \in 1 .. Len(wire[e]) \/ wire'[e][i].msg = m
          BY <3>2, <2>t, <1>3
        <5> QED BY <5>1, <3>2, <2>3, <2>w
      <4>3. \A i \in 1 .. Len(urgent'[e]) : urgent'[e][i][1] = "go" => m[1] # "go"
        <5> SUFFICES ASSUME NEW i \in 1 .. Len(urgent'[e]), urgent'[e][i][1] = "go", m[1] = "go" PROVE FALSE
          OBVIOUS
        <5>1. i + 1 \in 1 .. Len(urgent[e]) /\ urgent[e][i + 1][1] = "go" /\ urgent[e] # <<>>
          BY <1>7, <2>2
        <5>2. 1 \in 1 .. Len(urgent[e]) /\ urgent[e][1][1] = "go"
          BY <5>1, <1>7
        <5>3. i + 1 = 1
          BY <5>1, <5>2, <4>w DEF GoWaits
        <5> QED BY <5>3
      <4> QED BY <4>2, <4>3, <4>u, <2>l, <2>w, <2>2 DEF GoWaits
    <3>8. OfferFirst(e)'
      <4>1. wire'[e] # <<>> /\ Head(wire'[e]) = wire'[e][1]
        BY <3>1, <2>t, <1>3
      <4>2. wire[e] = <<>> => wire'[e][1].msg = m
        BY <3>2, <1>3
      <4>3. wire[e] # <<>> => wire'[e][1] = Head(wire[e])
        BY <3>2, <2>t
      <4> QED BY <4>1, <4>2, <4>3, <2>g, <1>7, <1>8, <1>10 DEF OfferFirst
    <3> QED BY <3>5, <3>6, <3>7, <3>8, <1>10 DEF SwitchAt
  <2> QED BY <2>4, <2>5, <1>5
<1> QED BY <1>9, <1>10

(* The next frame on the wire opens.                                       *)
LEMMA HonestOpens ==
    ASSUME LsTypeOK, CountersExact, NEW e \in Ends, SwitchAt(Far(e)), wire[Far(e)] # <<>>
    PROVE  Opens(e, Head(wire[Far(e)]))
<1> DEFINE d == Far(e)
<1>1. d \in Ends /\ Far(d) = e
  BY DEF Ends, Far
<1>2. /\ wire[d] \in Seq(Sealed) /\ st[d].tx_ctr \in Nat /\ st[e].rx_ctr \in Nat
  BY <1>1 DEF LsTypeOK, Side
<1> HIDE DEF d
<1>3. 1 \in 1 .. Len(wire[d]) /\ Head(wire[d]) = wire[d][1] /\ Len(wire[d]) \in Nat
  BY <1>2 DEF d
<1>4. wire[d][1].seq = IF 1 <= Bare(d) THEN 0 ELSE 1 - Bare(d)
  BY <1>3 DEF SwitchAt, Numbered, d
<1>5. CASE st[e].rx_seq
  <2>1. Bare(d) = 0 - st[e].rx_ctr
    BY <1>1, <1>5 DEF SwitchAt, GoPlaced, d
  <2>2. wire[d][1].seq = st[e].rx_ctr + 1
    BY <2>1, <1>2, <1>4
  <2> QED BY <2>2, <1>3, <1>5 DEF Opens, d
<1>6. CASE ~st[e].rx_seq
  <2>1. Bare(d) >= 1
    <3>1. CASE st[d].tx_seq
      BY <3>1, <1>1, <1>6 DEF SwitchAt, GoPlaced, d
    <3>2. CASE ~st[d].tx_seq
      <4>1. st[d].tx_ctr = 0
        BY <3>2, <1>1 DEF SwitchAt, GoPlaced, d
      <4> QED BY <4>1, <1>3 DEF Bare
    <3> QED BY <3>1, <3>2
  <2>2. wire[d][1].seq = 0
    BY <2>1, <1>4
  <2> QED BY <2>2, <1>3, <1>6 DEF Opens, d
<1> QED BY <1>5, <1>6

(* The reader starts to count at the "go", and answers the offer once.     *)
LEMMA ReceiveSwitch ==
    ASSUME LsTypeOK, CountersExact, \A g \in Ends : SwitchAt(g), NEW e \in Ends, Receive(e)
    PROVE  \A g \in Ends : SwitchAt(g)'
<1> DEFINE d == Far(e)
           f == Head(wire[d])
           what == f.msg[1]
           knows == e \in Speaks /\ what # "data"
           next == IF knows THEN link_seq_recv(e, what) ELSE st[e]
           bump == IF st[e].rx_seq THEN 1 ELSE 0
           s == [next EXCEPT !.rx_ctr = @ + bump]
<1>t. /\ st \in [Ends -> Side] /\ wire \in [Ends -> Seq(Sealed)] /\ urgent \in [Ends -> Seq(Plain)]
  BY DEF LsTypeOK
<1>d. d \in Ends /\ Far(d) = e /\ d # e /\ \A g \in Ends : g # d => g = e
  BY DEF Ends, Far
<1>1. Opens(e, f) /\ wire[d] # <<>>
  BY HonestOpens, <1>d DEF Receive
<1>2. /\ wire' = [wire EXCEPT ![d] = Tail(wire[d])] /\ bulk' = bulk
      /\ st' = [st EXCEPT ![e] = s]
      /\ urgent' = IF knows /\ AnswersGo(e, what) /\ Len(urgent[e]) < UrgentCap
                   THEN [urgent EXCEPT ![e] = Append(@, <<"go", 0>>)] ELSE urgent
  BY <1>1 DEF Receive
<1>3. st[e] \in Side /\ f \in Sealed /\ f = wire[d][1] /\ 1 \in 1 .. Len(wire[d]) /\ what \in {"offer", "go", "data"}
  <2>1. st[e] \in Side /\ wire[d] \in Seq(Sealed)
    BY <1>t, <1>d
  <2>2. f \in Sealed /\ f = wire[d][1] /\ 1 \in 1 .. Len(wire[d])
    BY <2>1, <1>1
  <2>3. f.msg \in Plain
    BY <2>2 DEF Sealed
  <2> QED BY <2>1, <2>2, <2>3 DEF Plain
<1>4. /\ next \in Side /\ next.tx_ctr = st[e].tx_ctr /\ next.tx_seq = st[e].tx_seq
      /\ st[e].rx_seq => next.rx_seq /\ next.rx_ctr = st[e].rx_ctr
      /\ ~st[e].rx_seq => next.rx_ctr \in {0, st[e].rx_ctr}
      /\ next.offered <=> (knows /\ what = "offer") \/ st[e].offered
      /\ next.go_queued <=> (knows /\ what = "offer" /\ ~st[e].offered) \/ st[e].go_queued
      /\ next.rx_seq <=> (knows /\ what = "go" /\ st[e].offered) \/ st[e].rx_seq
  <2>1. CASE knows
    <3>1. next = link_seq_recv(e, what)
      BY <2>1
    <3> HIDE DEF next, what, knows
    <3> QED BY <3>1, <2>1, <1>t, RecvType, RecvFlags
  <2>2. CASE ~knows
    <3>1. next = st[e]
      BY <2>2
    <3> HIDE DEF next, what, knows
    <3> QED BY <3>1, <2>2, <1>3
  <2> QED BY <2>1, <2>2
<1>5. bump \in Nat /\ (st[e].rx_seq => bump = 1) /\ (~st[e].rx_seq => bump = 0 /\ st[e].rx_ctr = 0)
  BY <1>3 DEF Side, CountersExact
<1>6. AnswersGo(e, what) => what = "offer" /\ ~st[e].offered /\ ~st[e].go_queued
  BY DEF AnswersGo
<1>k. knows => e \in Speaks
  OBVIOUS
<1>n. what # "data" /\ e \in Speaks => knows
  OBVIOUS
<1> HIDE DEF f, what, knows, next, bump
<1>7. /\ s.tx_ctr = next.tx_ctr /\ s.tx_seq = next.tx_seq /\ s.rx_seq = next.rx_seq
      /\ s.offered = next.offered /\ s.go_queued = next.go_queued /\ s.rx_ctr = next.rx_ctr + bump
  BY <1>4, <1>5 DEF Side
<1> HIDE DEF s, d
<1>8. st'[e] = s /\ st'[d] = st[d] /\ wire'[d] = Tail(wire[d]) /\ wire'[e] = wire[e] /\ urgent'[d] = urgent[d]
  BY <1>2, <1>d, <1>t
<1>g. SwitchAt(d) /\ SwitchAt(e)
  BY <1>d
(* The wire from d: one frame shorter.                                     *)
<1>w. /\ wire[d] \in Seq(Sealed) /\ Len(wire[d]) \in Nat /\ st[d].tx_ctr \in Nat /\ st[e].rx_ctr \in Nat
      /\ Len(wire'[d]) = Len(wire[d]) - 1
      /\ \A i \in 1 .. Len(wire'[d]) : i + 1 \in 1 .. Len(wire[d]) /\ wire'[d][i] = wire[d][i + 1]
  <2>1. wire[d] \in Seq(Sealed) /\ st[d] \in Side
    BY <1>t, <1>d
  <2>2. Len(wire[d]) \in Nat /\ st[d].tx_ctr \in Nat /\ st[e].rx_ctr \in Nat
    BY <2>1, <1>3 DEF Side
  <2> QED BY <2>1, <2>2, <1>1, <1>8
<1>b. Bare(d)' = Bare(d) - 1 /\ Bare(d) \in Int /\ Bare(d) = Len(wire[d]) - st[d].tx_ctr
  BY <1>w, <1>8 DEF Bare
(* A "go" is read once, by an end that has read the other's offer.         *)
<1>9. what = "go" => st[d].tx_seq /\ ~st[e].rx_seq /\ Bare(d) = 1 /\ knows /\ st[e].offered
  <2> SUFFICES ASSUME what = "go" PROVE st[d].tx_seq /\ ~st[e].rx_seq /\ Bare(d) = 1 /\ knows /\ st[e].offered
    OBVIOUS
  <2>1. wire[d][1].msg[1] = "go" /\ Head(wire[d]) = wire[d][1]
    BY <1>3 DEF what, f
  <2>2. st[d].tx_seq /\ ~st[e].rx_seq /\ Bare(d) = 1
    BY <2>1, <1>3, <1>g, <1>d DEF SwitchAt, GoPlaced
  <2>3. d \in Speaks /\ e \in Speaks
    BY <2>2, <1>g, <1>d DEF SwitchAt, GoWaits
  <2>4. st[e].offered
    BY <2>1, <2>3, <1>1, <1>g, <1>d DEF SwitchAt, OfferFirst
  <2> QED BY <2>2, <2>3, <2>4, <1>n
<1>10. s.rx_seq <=> what = "go" \/ st[e].rx_seq
  BY <1>4, <1>7, <1>9
<1>11. SwitchAt(d)'
  <2>1. Numbered(d)'
    <3> SUFFICES ASSUME NEW i \in 1 .. Len(wire'[d])
                 PROVE  wire'[d][i].seq = IF i <= Bare(d)' THEN 0 ELSE i - Bare(d)'
      BY DEF Numbered
    <3>1. wire'[d][i].seq = IF i + 1 <= Bare(d) THEN 0 ELSE (i + 1) - Bare(d)
      BY <1>w, <1>g DEF SwitchAt, Numbered
    <3> QED BY <3>1, <1>b
  <2>2. GoPlaced(d)'
    <3>p. /\ st[d].tx_seq /\ ~st[e].rx_seq => Bare(d) >= 1 /\ wire[d][Bare(d)].msg[1] = "go"
          /\ \A i \in 1 .. Len(wire[d]) : wire[d][i].msg[1] = "go" =>
                  st[d].tx_seq /\ ~st[e].rx_seq /\ i = Bare(d)
          /\ st[e].rx_seq => st[d].tx_seq /\ Bare(d) = 0 - st[e].rx_ctr
          /\ ~st[d].tx_seq => st[d].tx_ctr = 0
      BY <1>g, <1>d DEF SwitchAt, GoPlaced
    <3>w. wire[d][1].msg[1] = what
      BY <1>3 DEF what
    <3>1. st[d].tx_seq /\ ~s.rx_seq => Bare(d)' >= 1 /\ wire'[d][Bare(d)'].msg[1] = "go"
      <4> SUFFICES ASSUME st[d].tx_seq, ~s.rx_seq PROVE Bare(d)' >= 1 /\ wire'[d][Bare(d)'].msg[1] = "go"
        OBVIOUS
      <4>1. Bare(d) >= 1 /\ wire[d][Bare(d)].msg[1] = "go" /\ what # "go"
        BY <3>p, <1>10
      <4>2. Bare(d) # 1
        BY <4>1, <3>w
      <4>3. Bare(d) - 1 \in 1 .. Len(wire'[d]) /\ (Bare(d) - 1) + 1 = Bare(d)
        BY <4>1, <4>2, <1>b, <1>w
      <4>4. wire'[d][Bare(d) - 1] = wire[d][Bare(d)]
        BY <4>3, <1>w
      <4> QED BY <4>1, <4>3, <4>4, <1>b
    <3>2. ASSUME NEW i \in 1 .. Len(wire'[d]), wire'[d][i].msg[1] = "go"
          PROVE  st[d].tx_seq /\ ~s.rx_seq /\ i = Bare(d)'
      <4>1. i + 1 \in 1 .. Len(wire[d]) /\ wire[d][i + 1].msg[1] = "go"
        BY <3>2, <1>w
      <4>2. st[d].tx_seq /\ ~st[e].rx_seq /\ i + 1 = Bare(d)
        BY <4>1, <3>p
      <4>3. what # "go"
        BY <4>2, <1>9
      <4> QED BY <4>2, <4>3, <1>10, <1>b
    <3>3. s.rx_seq => st[d].tx_seq /\ Bare(d)' = 0 - s.rx_ctr
      <4>1. CASE st[e].rx_seq
        BY <4>1, <3>p, <1>4, <1>5, <1>7, <1>b, <1>w
      <4>2. CASE ~st[e].rx_seq /\ what = "go"
        <5>1. s.rx_ctr = 0
          BY <4>2, <1>4, <1>5, <1>7
        <5> QED BY <5>1, <4>2, <1>9, <1>b
      <4> QED BY <4>1, <4>2, <1>10
    <3>4. Far(d) = e /\ st'[d] = st[d] /\ st'[e] = s
      BY <1>d, <1>8
    <3> HIDE DEF Bare
    <3> QED BY <3>1, <3>2, <3>3, <3>4, <3>p DEF GoPlaced
  <2>3. GoWaits(d)'
    <3>1. \A i \in 1 .. Len(wire'[d]) : wire'[d][i].msg[1] = "offer" => d \in Speaks
      BY <1>w, <1>g DEF SwitchAt, GoWaits
    <3> QED BY <3>1, <1>8, <1>2, <1>g DEF SwitchAt, GoWaits
  <2>4. OfferFirst(d)'
    <3> SUFFICES ASSUME d \in Speaks, e \in Speaks PROVE s.offered
      BY <1>d, <1>8 DEF OfferFirst
    <3>1. st[e].offered \/ what = "offer"
      BY <1>1, <1>d, <1>g DEF SwitchAt, OfferFirst, what, f
    <3>2. what = "offer" => knows
      BY <1>n
    <3> QED BY <3>1, <3>2, <1>4, <1>7
  <2> QED BY <2>1, <2>2, <2>3, <2>4 DEF SwitchAt
<1>12. SwitchAt(e)'
  <2>1. Numbered(e)' /\ GoPlaced(e)'
    <3>1. Far(e) = d
      BY DEF d
    <3> QED BY <3>1, <1>8, <1>7, <1>4, <1>g DEF SwitchAt, Numbered, GoPlaced, Bare
  <2>g. /\ \A i \in 1 .. Len(urgent[e]) : urgent[e][i][1] = "go" => ~st[e].tx_seq /\ st[e].go_queued
        /\ \A i, k \in 1 .. Len(urgent[e]) : urgent[e][i][1] = "go" /\ urgent[e][k][1] = "go" => i = k
        /\ \A i \in 1 .. Len(bulk[e]) : bulk[e][i][1] = "data"
        /\ st[e].tx_seq => st[e].go_queued
        /\ st[e].go_queued => st[e].offered /\ e \in Speaks /\ Far(e) \in Speaks
        /\ \A i \in 1 .. Len(urgent[e]) : urgent[e][i][1] = "offer" => e \in Speaks
        /\ \A i \in 1 .. Len(wire[e]) : wire[e][i].msg[1] = "offer" => e \in Speaks
    BY <1>g DEF SwitchAt, GoWaits
  <2>2. what = "offer" => d \in Speaks
    BY <1>3, <1>g DEF SwitchAt, GoWaits, what
  <2>3. /\ st'[e].tx_seq = st[e].tx_seq /\ (st[e].go_queued => st'[e].go_queued)
        /\ st'[e].tx_seq => st'[e].go_queued
        /\ st'[e].go_queued => st'[e].offered /\ e \in Speaks /\ d \in Speaks
    <3>1. st'[e].tx_seq = st[e].tx_seq
      BY <1>4, <1>7, <1>8
    <3>2. Far(e) = d
      BY DEF d
    <3> QED BY <3>1, <3>2, <2>g, <2>2, <1>4, <1>7, <1>8, <1>k
  <2>4. CASE urgent'[e] = urgent[e]
    <3>1. GoWaits(e)'
      BY <2>4, <2>g, <2>3, <1>8, <1>2 DEF GoWaits, d
    <3>2. OfferFirst(e)'
      BY <2>4, <1>8, <1>g DEF SwitchAt, OfferFirst, d
    <3> QED BY <2>1, <3>1, <3>2 DEF SwitchAt
  <2>5. CASE urgent'[e] # urgent[e]
    <3>1. knows /\ AnswersGo(e, what) /\ urgent'[e] = Append(urgent[e], <<"go", 0>>)
      BY <2>5, <1>2, <1>t
    <3>2. ~st[e].go_queued /\ ~st[e].tx_seq /\ what = "offer" /\ ~st[e].offered
      BY <3>1, <1>6, <2>g
    <3>3. <<"go", 0>> \in Plain /\ urgent[e] \in Seq(Plain)
      BY <1>t DEF Plain
    <3>4. /\ Len(urgent'[e]) = Len(urgent[e]) + 1 /\ Len(urgent[e]) \in Nat
          /\ urgent'[e][Len(urgent[e]) + 1] = <<"go", 0>>
          /\ \A i \in 1 .. Len(urgent[e]) : urgent'[e][i] = urgent[e][i]
          /\ urgent[e] # <<>> => urgent'[e] # <<>> /\ Head(urgent'[e]) = Head(urgent[e])
      BY <3>1, <3>3
    <3>5. \A i \in 1 .. Len(urgent'[e]) : urgent'[e][i][1] = "go" => i = Len(urgent[e]) + 1
      <4>1. \A i \in 1 .. Len(urgent'[e]) : i \in 1 .. Len(urgent[e]) \/ i = Len(urgent[e]) + 1
        BY <3>4
      <4>2. \A i \in 1 .. Len(urgent[e]) : urgent'[e][i][1] # "go"
        BY <3>2, <3>4, <2>g
      <4> QED BY <4>1, <4>2
    <3>6. \A i \in 1 .. Len(urgent'[e]) : urgent'[e][i][1] = "offer" => e \in Speaks
      BY <3>1, <1>k
    <3>7. st'[e].go_queued /\ ~st'[e].tx_seq
      BY <3>1, <3>2, <1>4, <1>7, <1>8
    <3>8. GoWaits(e)'
      BY <3>5, <3>6, <3>7, <2>g, <2>3, <1>8, <1>2 DEF GoWaits, d
    <3>9. OfferFirst(e)'
      BY <3>4, <1>8, <1>g DEF SwitchAt, OfferFirst, d
    <3> QED BY <2>1, <3>8, <3>9 DEF SwitchAt
  <2> QED BY <2>4, <2>5
<1> QED BY <1>11, <1>12, <1>d

(* On an honest path no frame is refused, whatever is queued around the    *)
(* "go", dropped as too large, or lost because the lane of the "go" was    *)
(* full: both ends switch at the same frame, for any number of frames and  *)
(* any lane bound (link_seq_recv, encrypt_into_writing).                   *)
THEOREM NeverRefusedAlways == LsSpec => []NeverRefused
<1> DEFINE I == LsTypeOK /\ SeqInv /\ SwitchInv
<1>1. LsInit => I
  BY InitInv, SwitchInit
<1>2. I /\ [LsNext]_lsVars => I'
  <2> SUFFICES ASSUME LsTypeOK, SeqInv, SwitchInv, [LsNext]_lsVars
               PROVE  (LsTypeOK /\ SeqInv /\ SwitchInv)'
    BY Zenon
  <2>0. CountersExact
    BY DEF SeqInv
  <2>a. LsTypeOK' /\ SeqInv'
    <3>1. CASE UNCHANGED lsVars
      BY <3>1 DEF lsVars, LsTypeOK, SeqInv, CountersExact, WireExact, Faithful
    <3>2. CASE LsNext
      BY <3>2, SendInv, DrainInv, ReceiveInv, TamperInv DEF LsNext
    <3> QED BY <3>1, <3>2
  <2>b. SwitchInv'
    <3> SUFFICES ASSUME faults' = 0 PROVE \A g \in Ends : SwitchAt(g)'
      BY DEF SwitchInv, SwitchAt
    <3>1. CASE UNCHANGED lsVars
      BY <3>1 DEF lsVars, SwitchInv, SwitchAt, Numbered, GoPlaced, GoWaits, OfferFirst, Bare
    <3>2. ASSUME NEW e \in Ends, Tamper(e) PROVE FALSE
      BY <3>2 DEF Tamper, LsTypeOK
    <3>3. CASE LsNext /\ ~UNCHANGED lsVars
      <4>1. PICK e \in Ends : \/ \E lane \in {"urgent", "bulk"} : Send(e, lane)
                               \/ \E fits \in BOOLEAN : drain(e, fits)
                               \/ Receive(e)
        BY <3>2, <3>3 DEF LsNext
      <4>2. faults = 0
        BY <4>1 DEF Send, drain, Receive
      <4>3. \A g \in Ends : SwitchAt(g)
        BY <4>2 DEF SwitchInv, SwitchAt
      <4> QED BY <4>1, <4>3, <2>0, SendSwitch, DrainSwitch, ReceiveSwitch
    <3> QED BY <3>1, <3>3
  <2> QED BY <2>a, <2>b
<1>3. I => NeverRefused
  <2> SUFFICES ASSUME LsTypeOK, SeqInv, SwitchInv, faults = 0, NEW e \in Ends, wire[Far(e)] # <<>>
               PROVE  Opens(e, Head(wire[Far(e)]))
    BY DEF NeverRefused
  <2>1. SwitchAt(Far(e)) /\ CountersExact
    BY EndsFacts DEF SwitchInv, SwitchAt, SeqInv
  <2> QED BY <2>1, HonestOpens
<1> HIDE DEF I
<1> QED BY <1>1, <1>2, <1>3, PTL DEF LsSpec

-----------------------------------------------------------------------------
-----------------------------------------------------------------------------
(* The outbound queue of a bot.  Frames of a config version up to v.       *)
Frames(v) ==
    {m \in Msg : /\ m.cmd = "cfg" => m.val \in Versions
                 /\ m.cmd = "tree" => m.val \in 0 .. MaxEvents
                 /\ m.cmd \in {"cfg", "do"} => m.val <= v
                 /\ Keyed(m) => m.lane = Bulk}

(* The least of a set of naturals exists.                                  *)
LEMMA LeastOf ==
    ASSUME NEW S, S # {}, NEW T, \A x \in S : T[x] \in Nat
    PROVE  \E m \in S : \A x \in S : T[m] <= T[x]
  <1>. DEFINE D == {T[x] : x \in S}
  <1>1. D \subseteq Nat /\ D # {}
    OBVIOUS
  <1>2. PICK d \in D : \A e \in D : ~(<<e, d>> \in OpToRel(<, Nat))
    BY <1>1, NatLessThanWellFounded, WFMin
  <1>3. PICK m \in S : d = T[m]
    BY <1>2
  <1>4. ASSUME NEW x \in S PROVE T[m] <= T[x]
    <2>1. T[x] \in D /\ T[x] \in Nat /\ d \in Nat
      BY <1>1
    <2>2. ~(T[x] < d)
      BY <1>2, <2>1 DEF OpToRel
    <2>. QED BY <1>3, <2>1, <2>2
  <1>. QED BY <1>3, <1>4

(* Induction along a sequence, with a set for what holds.                  *)
LEMMA Induct ==
    ASSUME NEW n \in Nat, NEW G, 0 \in G, \A k \in 0 .. n - 1 : k \in G => k + 1 \in G
    PROVE  n \in G
  <1>. DEFINE S == {k \in 0 .. n : k \notin G}
              T == [k \in S |-> k]
  <1>1. SUFFICES ASSUME S # {} PROVE FALSE
    OBVIOUS
  <1>5. \A k \in S : T[k] \in Nat
    OBVIOUS
  <1>. HIDE DEF S, T
  <1>2. PICK m \in S : \A k \in S : T[m] <= T[k]
    BY <1>1, <1>5, LeastOf
  <1>. USE DEF S, T
  <1>3. m \in 1 .. n /\ m - 1 \in 0 .. n - 1
    OBVIOUS
  <1>4. m - 1 \notin S
    BY <1>2, <1>3
  <1>. QED BY <1>3, <1>4

(* A frame has a size.                                                     *)
LEMMA FrameSize ==
    ASSUME NEW v \in Nat, NEW m \in Frames(v)
    PROVE  SizeOf(m) \in Nat /\ m.val \in Nat /\ m \in Msg
  BY OutQueueAssumption DEF Frames, Msg, SizeOf

(* A sequence in two parts.                                                *)
LEMMA SplitAt ==
    ASSUME NEW S, NEW s \in Seq(S), NEW n \in 0 .. Len(s)
    PROVE  /\ SubSeq(s, 1, n) \in Seq(S) /\ SubSeq(s, n + 1, Len(s)) \in Seq(S)
           /\ s = SubSeq(s, 1, n) \o SubSeq(s, n + 1, Len(s))
           /\ Len(SubSeq(s, 1, n)) = n /\ Len(SubSeq(s, n + 1, Len(s))) = Len(s) - n
           /\ \A i \in 1 .. n : SubSeq(s, 1, n)[i] = s[i]
           /\ \A i \in 1 .. Len(s) - n : SubSeq(s, n + 1, Len(s))[i] = s[n + i]
  <1>1. Len(s) \in Nat
    OBVIOUS
  <1>. DEFINE a == SubSeq(s, 1, n)
              b == SubSeq(s, n + 1, Len(s))
  <1>2. a \in Seq(S) /\ Len(a) = n /\ \A i \in 1 .. n : a[i] = s[i]
    BY <1>1
  <1>3. b \in Seq(S) /\ Len(b) = Len(s) - n /\ \A i \in 1 .. Len(s) - n : b[i] = s[n + i]
    BY <1>1
  <1>. HIDE DEF a, b
  <1>4. /\ a \o b \in Seq(S) /\ Len(a \o b) = Len(s)
        /\ \A i \in 1 .. Len(s) : (a \o b)[i] = IF i <= n THEN a[i] ELSE b[i - n]
    BY <1>1, <1>2, <1>3
  <1>5. \A i \in 1 .. Len(s) : (a \o b)[i] = s[i]
    BY <1>1, <1>2, <1>3, <1>4
  <1>6. a \o b = s
    BY <1>4, <1>5, SeqEqual
  <1>. QED BY <1>2, <1>3, <1>6 DEF a, b

(* A sequence around one of its places, and with that place changed.       *)
Parts(a, b, s, i, o, t, m) ==
    /\ s = (a \o <<o>>) \o b /\ t = (a \o <<m>>) \o b
    /\ Len(a) = i - 1 /\ Len(b) = Len(s) - i
    /\ \A j \in 1 .. Len(a) : a[j] = s[j]
    /\ \A j \in 1 .. Len(b) : b[j] = s[i + j]
(* The sequence and its changed copy share the parts around the place.     *)
LEMMA Around ==
    ASSUME NEW S, NEW s \in Seq(S), NEW i \in 1 .. Len(s), NEW m \in S,
           NEW o, o = s[i], NEW t, t = [s EXCEPT ![i] = m]
    PROVE  \E a, b \in Seq(S) : Parts(a, b, s, i, o, t, m)
  <1>. DEFINE a == SubSeq(s, 1, i - 1)
              b == SubSeq(s, i + 1, Len(s))
  <1>1. Len(s) \in Nat /\ s[i] \in S
    OBVIOUS
  <1>2. a \in Seq(S) /\ Len(a) = i - 1 /\ \A j \in 1 .. i - 1 : a[j] = s[j]
    BY <1>1
  <1>3. b \in Seq(S) /\ Len(b) = Len(s) - i /\ \A j \in 1 .. Len(s) - i : b[j] = s[i + j]
    BY <1>1
  <1>4. t \in Seq(S) /\ Len(t) = Len(s) /\ t[i] = m /\ \A j \in 1 .. Len(s) : j # i => t[j] = s[j]
    BY <1>1
  <1>. HIDE DEF a, b
  <1>5. ASSUME NEW y \in S
        PROVE  /\ (a \o <<y>>) \o b \in Seq(S) /\ Len((a \o <<y>>) \o b) = Len(s)
               /\ \A j \in 1 .. Len(s) : ((a \o <<y>>) \o b)[j] = IF j = i THEN y ELSE s[j]
    <2>. DEFINE c == a \o <<y>>
    <2>1. c \in Seq(S) /\ Len(c) = i /\ c[i] = y /\ \A j \in 1 .. i - 1 : c[j] = a[j]
      BY <1>2
    <2>. HIDE DEF c
    <2>2. c \o b \in Seq(S) /\ Len(c \o b) = Len(c) + Len(b)
      BY <2>1, <1>3, ConcatProperties
    <2>3. \A j \in 1 .. Len(s) : (c \o b)[j] = IF j <= i THEN c[j] ELSE b[j - i]
      BY <2>1, <1>1, <1>3
    <2>4. \A j \in 1 .. Len(s) : (c \o b)[j] = IF j = i THEN y ELSE s[j]
      BY <2>1, <2>3, <1>1, <1>2, <1>3
    <2>5. Len(c \o b) = Len(s)
      BY <2>1, <2>2, <1>1, <1>3
    <2>. QED BY <2>2, <2>4, <2>5 DEF c
  <1>6. (a \o <<o>>) \o b = s
    <2>. DEFINE w == (a \o <<o>>) \o b
    <2>1. w \in Seq(S) /\ Len(w) = Len(s) /\ \A j \in 1 .. Len(s) : w[j] = s[j]
      BY <1>1, <1>5
    <2>. HIDE DEF w
    <2>2. w = s
      BY <2>1, SeqEqual
    <2>. QED BY <2>2 DEF w
  <1>7. (a \o <<m>>) \o b = t
    <2>. DEFINE w == (a \o <<m>>) \o b
    <2>1. w \in Seq(S) /\ Len(w) = Len(s) /\ \A j \in 1 .. Len(s) : w[j] = IF j = i THEN m ELSE s[j]
      BY <1>5
    <2>. HIDE DEF w
    <2>2. \A j \in 1 .. Len(s) : w[j] = t[j]
      BY <2>1, <1>4
    <2>3. w = t
      BY <2>1, <2>2, <1>4, SeqEqual
    <2>. QED BY <2>3 DEF w
  <1>8. Parts(a, b, s, i, o, t, m)
    BY <1>2, <1>3, <1>6, <1>7 DEF Parts
  <1>. QED BY <1>2, <1>3, <1>8

(* The sizes of the frames of a sequence, one after the other.             *)
LEMMA SumRun ==
    ASSUME NEW v \in Nat, NEW s \in Seq(Frames(v))
    PROVE  \E f : /\ f[0] = 0 /\ SumSize(s) = f[Len(s)]
                  /\ \A n \in 0 .. Len(s) - 1 : f[n + 1] = f[n] + SizeOf(s[n + 1])
                  /\ \A n \in 0 .. Len(s) : f[n] \in Nat
  <1>. DEFINE Run(f, m) == f = [n \in 0 .. m |-> IF n = 0 THEN 0 ELSE f[n - 1] + SizeOf(s[n])]
              G == {m \in 0 .. Len(s) : \E f : Run(f, m)}
  <1>1. Len(s) \in Nat
    OBVIOUS
  <1>2. 0 \in G
    <2>. DEFINE e == [n \in 0 .. 0 |-> 0]
    <2>1. Run(e, 0)
      OBVIOUS
    <2>. HIDE DEF e
    <2>2. \E f : Run(f, 0)
      BY <2>1
    <2>. QED BY <1>1, <2>2
  <1>3. ASSUME NEW k \in 0 .. Len(s) - 1, k \in G PROVE k + 1 \in G
    <2>1. PICK f : Run(f, k)
      BY <1>3
    <2>. DEFINE g == [n \in 0 .. k + 1 |-> IF n <= k THEN f[n] ELSE f[k] + SizeOf(s[k + 1])]
    <2>2. ASSUME NEW n \in 0 .. k + 1
          PROVE  g[n] = IF n = 0 THEN 0 ELSE g[n - 1] + SizeOf(s[n])
      <3>1. CASE n = 0
        BY <3>1, <2>1
      <3>2. CASE n \in 1 .. k
        <4>1. g[n] = f[n] /\ g[n - 1] = f[n - 1]
          BY <3>2
        <4>2. f[n] = f[n - 1] + SizeOf(s[n])
          BY <2>1, <3>2
        <4>. QED BY <4>1, <4>2, <3>2
      <3>3. CASE n = k + 1
        <4>1. g[n] = f[k] + SizeOf(s[k + 1]) /\ g[n - 1] = f[k]
          BY <3>3
        <4>. QED BY <4>1, <3>3
      <3>. QED BY <3>1, <3>2, <3>3
    <2>3. Run(g, k + 1)
      BY <2>2
    <2>. HIDE DEF g
    <2>4. \E e : Run(e, k + 1)
      BY <2>3
    <2>. QED BY <2>4, <1>1
  <1>. HIDE DEF G
  <1>4. Len(s) \in G
    BY <1>1, <1>2, <1>3, Induct
  <1>. USE DEF G
  <1>. DEFINE f == CHOOSE e : Run(e, Len(s))
  <1>5. Run(f, Len(s))
    BY <1>4
  <1>6. SumSize(s) = f[Len(s)]
    BY DEF SumSize
  <1>. HIDE DEF f
  <1>7. f[0] = 0 /\ \A n \in 0 .. Len(s) - 1 : f[n + 1] = f[n] + SizeOf(s[n + 1])
    BY <1>1, <1>5
  <1>. DEFINE H == {n \in 0 .. Len(s) : \A k \in 0 .. n : f[k] \in Nat}
  <1>8. 0 \in H
    BY <1>1, <1>7
  <1>9. ASSUME NEW n \in 0 .. Len(s) - 1, n \in H PROVE n + 1 \in H
    <2>1. SizeOf(s[n + 1]) \in Nat
      BY <1>1, FrameSize
    <2>2. f[n + 1] \in Nat
      BY <2>1, <1>7, <1>9
    <2>. QED BY <2>2, <1>1, <1>9
  <1>. HIDE DEF H
  <1>10. Len(s) \in H
    BY <1>1, <1>8, <1>9, Induct
  <1>. QED BY <1>6, <1>7, <1>10 DEF H

(* Sizes add up along a sequence in two parts.                             *)
LEMMA SumConcat ==
    ASSUME NEW v \in Nat, NEW s \in Seq(Frames(v)), NEW t \in Seq(Frames(v))
    PROVE  /\ SumSize(s \o t) = SumSize(s) + SumSize(t)
           /\ SumSize(s) \in Nat /\ SumSize(t) \in Nat
  <1>. DEFINE c == s \o t
  <1>1. c \in Seq(Frames(v)) /\ Len(c) = Len(s) + Len(t) /\ Len(s) \in Nat /\ Len(t) \in Nat
    BY ConcatProperties
  <1>2. /\ \A i \in 1 .. Len(s) : c[i] = s[i]
        /\ \A i \in 1 .. Len(t) : c[Len(s) + i] = t[i]
    OBVIOUS
  <1>. HIDE DEF c
  <1>3. PICK f : /\ f[0] = 0 /\ SumSize(s) = f[Len(s)]
                 /\ \A n \in 0 .. Len(s) - 1 : f[n + 1] = f[n] + SizeOf(s[n + 1])
                 /\ \A n \in 0 .. Len(s) : f[n] \in Nat
    BY SumRun
  <1>4. PICK g : /\ g[0] = 0 /\ SumSize(t) = g[Len(t)]
                 /\ \A n \in 0 .. Len(t) - 1 : g[n + 1] = g[n] + SizeOf(t[n + 1])
                 /\ \A n \in 0 .. Len(t) : g[n] \in Nat
    BY SumRun
  <1>5. PICK h : /\ h[0] = 0 /\ SumSize(c) = h[Len(c)]
                 /\ \A n \in 0 .. Len(c) - 1 : h[n + 1] = h[n] + SizeOf(c[n + 1])
                 /\ \A n \in 0 .. Len(c) : h[n] \in Nat
    BY <1>1, SumRun
  <1>. DEFINE G == {n \in 0 .. Len(s) : h[n] = f[n]}
              H == {n \in 0 .. Len(t) : h[Len(s) + n] = f[Len(s)] + g[n]}
  <1>6. 0 \in G
    BY <1>1, <1>3, <1>5
  <1>7. ASSUME NEW n \in 0 .. Len(s) - 1, n \in G PROVE n + 1 \in G
    <2>1. n + 1 \in 0 .. Len(s) /\ n + 1 \in 1 .. Len(s) /\ n \in 0 .. Len(c) - 1
      BY <1>1
    <2>2. h[n + 1] = h[n] + SizeOf(c[n + 1]) /\ f[n + 1] = f[n] + SizeOf(s[n + 1]) /\ c[n + 1] = s[n + 1]
      BY <2>1, <1>2, <1>3, <1>5
    <2>. QED BY <2>1, <2>2, <1>7
  <1>. HIDE DEF G
  <1>8. Len(s) \in G
    BY <1>1, <1>6, <1>7, Induct
  <1>9. h[Len(s)] = f[Len(s)]
    BY <1>8 DEF G
  <1>10. 0 \in H
    BY <1>1, <1>3, <1>4, <1>9
  <1>11. ASSUME NEW n \in 0 .. Len(t) - 1, n \in H PROVE n + 1 \in H
    <2>1. /\ n + 1 \in 0 .. Len(t) /\ n + 1 \in 1 .. Len(t) /\ Len(s) + n \in 0 .. Len(c) - 1
          /\ (Len(s) + n) + 1 = Len(s) + (n + 1) /\ n \in 0 .. Len(t) /\ Len(s) \in 0 .. Len(s)
      BY <1>1
    <2>2. h[(Len(s) + n) + 1] = h[Len(s) + n] + SizeOf(c[(Len(s) + n) + 1])
      BY <2>1, <1>5
    <2>3. g[n + 1] = g[n] + SizeOf(t[n + 1]) /\ c[Len(s) + (n + 1)] = t[n + 1]
      BY <2>1, <1>2, <1>4
    <2>4. t[n + 1] \in Frames(v)
      BY <2>1
    <2>5. SizeOf(t[n + 1]) \in Nat /\ f[Len(s)] \in Nat /\ g[n] \in Nat
      BY <2>1, <2>4, <1>3, <1>4, FrameSize
    <2>6. h[Len(s) + n] = f[Len(s)] + g[n]
      BY <1>11
    <2>7. h[Len(s) + (n + 1)] = f[Len(s)] + g[n + 1]
      BY <2>1, <2>2, <2>3, <2>5, <2>6, SMTT(30)
    <2>. QED BY <2>1, <2>7
  <1>. HIDE DEF H
  <1>12. Len(t) \in H
    BY <1>1, <1>10, <1>11, Induct
  <1>13. h[Len(s) + Len(t)] = f[Len(s)] + g[Len(t)]
    BY <1>12 DEF H
  <1>14. Len(s) \in 0 .. Len(s) /\ Len(t) \in 0 .. Len(t)
    BY <1>1
  <1>15. SumSize(c) = SumSize(s) + SumSize(t) /\ SumSize(s) \in Nat /\ SumSize(t) \in Nat
    BY <1>1, <1>3, <1>4, <1>5, <1>13, <1>14
  <1>. QED BY <1>15 DEF c

(* The size of one frame, and of none.                                     *)
LEMMA SumOne ==
    ASSUME NEW v \in Nat, NEW m \in Frames(v)
    PROVE  SumSize(<<m>>) = SizeOf(m) /\ SumSize(<<>>) = 0 /\ SizeOf(m) \in Nat
  <1>1. <<m>> \in Seq(Frames(v)) /\ Len(<<m>>) = 1 /\ <<m>>[1] = m
    OBVIOUS
  <1>2. <<>> \in Seq(Frames(v)) /\ Len(<<>>) = 0
    OBVIOUS
  <1>3. PICK f : /\ f[0] = 0 /\ SumSize(<<m>>) = f[Len(<<m>>)]
                 /\ \A n \in 0 .. Len(<<m>>) - 1 : f[n + 1] = f[n] + SizeOf(<<m>>[n + 1])
    BY <1>1, SumRun
  <1>4. f[0 + 1] = f[0] + SizeOf(<<m>>[0 + 1])
    BY <1>1, <1>3
  <1>5. PICK g : g[0] = 0 /\ SumSize(<<>>) = g[Len(<<>>)]
    BY <1>2, SumRun
  <1>6. SizeOf(m) \in Nat
    BY FrameSize
  <1>. QED BY <1>1, <1>2, <1>3, <1>4, <1>5, <1>6

(* No frames have no size.                                                 *)
LEMMA SumNone == SumSize(<<>>) = 0
  <1>1. <<>> \in Seq(Frames(0)) /\ Len(<<>>) = 0
    OBVIOUS
  <1>2. PICK g : g[0] = 0 /\ SumSize(<<>>) = g[Len(<<>>)]
    BY <1>1, SumRun
  <1>. QED BY <1>1, <1>2

-----------------------------------------------------------------------------
(* What somebody who has x of a command has after taking s.                *)
After(x, s, cmd) == IF LastOf(s, cmd) = Own THEN x ELSE LastOf(s, cmd)
Has(s, cmd) == \E i \in 1 .. Len(s) : s[i].cmd = cmd

(* The last frame of a command.                                            *)
LEMMA LastAt ==
    ASSUME NEW v \in Nat, NEW s \in Seq(Frames(v)), NEW cmd, NEW i \in 1 .. Len(s), s[i].cmd = cmd,
           \A j \in 1 .. Len(s) : j > i => s[j].cmd # cmd, NEW x
    PROVE  After(x, s, cmd) = s[i].val
  <1>. DEFINE at == {j \in 1 .. Len(s) : s[j].cmd = cmd}
  <1>1. Len(s) \in Nat /\ i \in at /\ at \subseteq Nat
    OBVIOUS
  <1>2. \A j \in at : i >= j
    BY <1>1
  <1>3. \A j \in at : (\A y \in at : j >= y) => j = i
    BY <1>1, <1>2
  <1>. HIDE DEF at
  <1>4. Max(at) = i
    BY <1>1, <1>2, <1>3 DEF Max
  <1>. USE DEF at
  <1>5. LastOf(s, cmd) = s[i].val
    BY <1>1, <1>4 DEF LastOf
  <1>6. s[i].val \in Nat
    BY FrameSize
  <1>. QED BY <1>5, <1>6 DEF After, Own

(* The same of a place named.                                              *)
LastPlace(s, i, cmd) == i \in 1 .. Len(s) /\ s[i].cmd = cmd /\ \A j \in 1 .. Len(s) : j > i => s[j].cmd # cmd
(* What is read is the frame at that place.                                *)
LEMMA LastHere ==
    ASSUME NEW v \in Nat, NEW s \in Seq(Frames(v)), NEW cmd, NEW i, LastPlace(s, i, cmd)
    PROVE  \A x : After(x, s, cmd) = s[i].val
  <1>1. i \in 1 .. Len(s) /\ s[i].cmd = cmd /\ \A j \in 1 .. Len(s) : j > i => s[j].cmd # cmd
    BY DEF LastPlace
  <1>. SUFFICES ASSUME NEW x PROVE After(x, s, cmd) = s[i].val
    OBVIOUS
  <1>. QED BY <1>1, LastAt

(* There is one, or none.                                                  *)
Passes(s, cmd) == ~Has(s, cmd) /\ \A x : After(x, s, cmd) = x
Shows(s, cmd) == \E i \in 1 .. Len(s) : /\ s[i].cmd = cmd /\ \A j \in 1 .. Len(s) : j > i => s[j].cmd # cmd
                                       /\ \A x : After(x, s, cmd) = s[i].val
(* A command is not in a sequence, or one of its frames is the last.       *)
LEMMA LastIs ==
    ASSUME NEW v \in Nat, NEW s \in Seq(Frames(v)), NEW cmd
    PROVE  Passes(s, cmd) \/ Shows(s, cmd)
  <1>. DEFINE at == {j \in 1 .. Len(s) : s[j].cmd = cmd}
              T == [j \in at |-> Len(s) - j]
  <1>1. CASE at = {}
    <2>1. ~Has(s, cmd)
      BY <1>1 DEF Has
    <2>2. LastOf(s, cmd) = Own
      BY <1>1 DEF LastOf
    <2>. QED BY <2>1, <2>2 DEF After, Passes
  <1>2. CASE at # {}
    <2>1. Len(s) \in Nat /\ \A j \in at : T[j] \in Nat /\ T[j] = Len(s) - j
      OBVIOUS
    <2>. HIDE DEF T
    <2>2. PICK i \in at : \A j \in at : T[i] <= T[j]
      BY <1>2, <2>1, LeastOf
    <2>3. \A j \in 1 .. Len(s) : j > i => s[j].cmd # cmd
      BY <2>1, <2>2
    <2>4. i \in 1 .. Len(s) /\ s[i].cmd = cmd
      OBVIOUS
    <2>5. \A x : After(x, s, cmd) = s[i].val
      BY <2>3, <2>4, LastAt
    <2>. QED BY <2>3, <2>4, <2>5 DEF Shows
  <1>. QED BY <1>1, <1>2

(* Two parts of a sequence, one after the other; one frame; none.          *)
LEMMA AfterConcat ==
    ASSUME NEW v \in Nat, NEW s \in Seq(Frames(v)), NEW t \in Seq(Frames(v)), NEW cmd, NEW x
    PROVE  After(x, s \o t, cmd) = After(After(x, s, cmd), t, cmd)
  <1>. DEFINE c == s \o t
  <1>1. c \in Seq(Frames(v)) /\ Len(c) = Len(s) + Len(t) /\ Len(s) \in Nat /\ Len(t) \in Nat
    BY ConcatProperties
  <1>2. /\ \A i \in 1 .. Len(s) : c[i] = s[i]
        /\ \A i \in 1 .. Len(t) : c[Len(s) + i] = t[i]
        /\ \A i \in 1 .. Len(c) : i > Len(s) => i - Len(s) \in 1 .. Len(t) /\ c[i] = t[i - Len(s)]
    OBVIOUS
  <1>. HIDE DEF c
  <1>3. CASE Shows(t, cmd)
    <2>1. PICK i \in 1 .. Len(t) : /\ t[i].cmd = cmd /\ \A j \in 1 .. Len(t) : j > i => t[j].cmd # cmd
                                   /\ \A y : After(y, t, cmd) = t[i].val
      BY <1>3 DEF Shows
    <2>. DEFINE k == Len(s) + i
    <2>2. k \in 1 .. Len(c) /\ c[k] = t[i]
      BY <1>1, <1>2
    <2>3. \A j \in 1 .. Len(c) : j > k => c[j].cmd # cmd
      <3>. SUFFICES ASSUME NEW j \in 1 .. Len(c), j > k PROVE c[j].cmd # cmd
        OBVIOUS
      <3>1. j > Len(s) /\ j - Len(s) > i
        BY <1>1
      <3>. QED BY <3>1, <2>1, <1>2
    <2>. HIDE DEF k
    <2>5. LastPlace(c, k, cmd)
      BY <2>1, <2>2, <2>3 DEF LastPlace
    <2>4. After(x, c, cmd) = c[k].val
      BY <2>5, <1>1, LastHere
    <2>. QED BY <2>1, <2>2, <2>4 DEF c
  <1>4. CASE Passes(t, cmd)
    <2>1. CASE Shows(s, cmd)
      <3>1. PICK i \in 1 .. Len(s) : /\ s[i].cmd = cmd /\ \A j \in 1 .. Len(s) : j > i => s[j].cmd # cmd
                                     /\ \A y : After(y, s, cmd) = s[i].val
        BY <2>1 DEF Shows
      <3>2. i \in 1 .. Len(c) /\ c[i] = s[i]
        BY <1>1, <1>2
      <3>3. \A j \in 1 .. Len(c) : j > i => c[j].cmd # cmd
        <4>. SUFFICES ASSUME NEW j \in 1 .. Len(c), j > i PROVE c[j].cmd # cmd
          OBVIOUS
        <4>1. CASE j \in 1 .. Len(s)
          BY <4>1, <3>1, <1>2
        <4>2. CASE j > Len(s)
          BY <4>2, <1>2, <1>4 DEF Has, Passes
        <4>. QED BY <4>1, <4>2, <1>1
      <3>5. LastPlace(c, i, cmd)
        BY <3>1, <3>2, <3>3 DEF LastPlace
      <3>4. After(x, c, cmd) = c[i].val
        BY <3>5, <1>1, LastHere
      <3>. QED BY <3>1, <3>2, <3>4, <1>4 DEF c, Passes
    <2>2. CASE Passes(s, cmd)
      <3>1. ~Has(c, cmd)
        <4>. SUFFICES ASSUME NEW j \in 1 .. Len(c), c[j].cmd = cmd PROVE FALSE
          BY DEF Has
        <4>1. CASE j \in 1 .. Len(s)
          BY <4>1, <2>2, <1>2 DEF Has, Passes
        <4>2. CASE j > Len(s)
          BY <4>2, <1>2, <1>4 DEF Has, Passes
        <4>. QED BY <4>1, <4>2, <1>1
      <3>2. After(x, c, cmd) = x
        BY <3>1, <1>1, LastIs DEF Has, Passes, Shows
      <3>. QED BY <3>2, <2>2, <1>4 DEF c, Passes
    <2>. QED BY <2>1, <2>2, LastIs
  <1>. QED BY <1>3, <1>4, LastIs

(* One frame.                                                              *)
LEMMA AfterOne ==
    ASSUME NEW v \in Nat, NEW m \in Frames(v), NEW cmd, NEW x
    PROVE  After(x, <<m>>, cmd) = IF m.cmd = cmd THEN m.val ELSE x
  <1>. DEFINE s == <<m>>
  <1>1. s \in Seq(Frames(v)) /\ Len(s) = 1 /\ s[1] = m
    OBVIOUS
  <1>. HIDE DEF s
  <1>2. CASE m.cmd = cmd
    <2>1. 1 \in 1 .. Len(s) /\ s[1].cmd = cmd /\ \A j \in 1 .. Len(s) : j > 1 => s[j].cmd # cmd
      BY <1>1, <1>2
    <2>2. After(x, s, cmd) = s[1].val
      BY <1>1, <2>1, LastAt
    <2>. QED BY <1>1, <1>2, <2>2 DEF s
  <1>3. CASE m.cmd # cmd
    <2>1. ~Has(s, cmd)
      BY <1>1, <1>3 DEF Has
    <2>2. After(x, s, cmd) = x
      BY <1>1, <2>1, LastIs DEF Has, Passes, Shows
    <2>. QED BY <1>3, <2>2 DEF s
  <1>. QED BY <1>2, <1>3

(* None of a command: nothing changes.                                     *)
LEMMA AfterNone ==
    ASSUME NEW v \in Nat, NEW s \in Seq(Frames(v)), NEW cmd, ~Has(s, cmd), NEW x
    PROVE  After(x, s, cmd) = x
  BY LastIs DEF Has, Passes, Shows

(* No frame.                                                               *)
LEMMA AfterEmpty == \A x, cmd : After(x, <<>>, cmd) = x
  <1>1. \A cmd : {i \in 1 .. Len(<<>>) : <<>>[i].cmd = cmd} = {}
    OBVIOUS
  <1>. QED BY <1>1 DEF After, LastOf

(* The config x is a version v or later, or is the bot's own.              *)
Covers(x, v) == x = Own \/ \E w \in Versions : w >= v /\ Content[w] = Content[x]

(* Somebody who has config x and takes s finds, at each command of s that  *)
(* relies on a version, that version or a later one.                       *)
Follows(x, s) == \A i \in 1 .. Len(s) :
    s[i].cmd = "do" => Covers(After(x, SubSeq(s, 1, i - 1), "cfg"), s[i].val)

(* Two parts of a sequence, one after the other.                           *)
LEMMA FollowsConcat ==
    ASSUME NEW v \in Nat, NEW s \in Seq(Frames(v)), NEW t \in Seq(Frames(v)), NEW x
    PROVE  Follows(x, s \o t) <=> Follows(x, s) /\ Follows(After(x, s, "cfg"), t)
  <1>. DEFINE c == s \o t
              y == After(x, s, "cfg")
  <1>1. c \in Seq(Frames(v)) /\ Len(c) = Len(s) + Len(t) /\ Len(s) \in Nat /\ Len(t) \in Nat
    BY ConcatProperties
  <1>2. /\ \A i \in 1 .. Len(s) : c[i] = s[i]
        /\ \A i \in 1 .. Len(t) : c[Len(s) + i] = t[i]
    OBVIOUS
  <1>3. ASSUME NEW i \in 1 .. Len(s) PROVE SubSeq(c, 1, i - 1) = SubSeq(s, 1, i - 1)
    <2>1. i - 1 \in 0 .. Len(s) /\ i - 1 \in 0 .. Len(c)
      BY <1>1
    <2>. HIDE DEF c
    <2>2. /\ SubSeq(s, 1, i - 1) \in Seq(Frames(v)) /\ SubSeq(c, 1, i - 1) \in Seq(Frames(v))
          /\ Len(SubSeq(s, 1, i - 1)) = i - 1 /\ Len(SubSeq(c, 1, i - 1)) = i - 1
          /\ \A j \in 1 .. i - 1 : SubSeq(s, 1, i - 1)[j] = s[j] /\ SubSeq(c, 1, i - 1)[j] = c[j]
      BY <2>1, <1>1, SplitAt
    <2>3. \A j \in 1 .. i - 1 : SubSeq(s, 1, i - 1)[j] = SubSeq(c, 1, i - 1)[j]
      BY <2>2, <1>2, <1>1
    <2>. QED BY <2>2, <2>3, SeqEqual
  <1>4. ASSUME NEW i \in 1 .. Len(t)
        PROVE  After(x, SubSeq(c, 1, (Len(s) + i) - 1), "cfg") = After(y, SubSeq(t, 1, i - 1), "cfg")
    <2>. DEFINE p == SubSeq(t, 1, i - 1)
                n == (Len(s) + i) - 1
    <2>1. n \in 0 .. Len(c) /\ i - 1 \in 0 .. Len(t)
      BY <1>1
    <2>2. p \in Seq(Frames(v)) /\ Len(p) = i - 1 /\ \A j \in 1 .. i - 1 : p[j] = t[j]
      BY <2>1, SplitAt
    <2>. HIDE DEF c, p
    <2>3. SubSeq(c, 1, n) \in Seq(Frames(v)) /\ Len(SubSeq(c, 1, n)) = n /\ \A j \in 1 .. n : SubSeq(c, 1, n)[j] = c[j]
      BY <2>1, <1>1, SplitAt
    <2>. HIDE DEF n
    <2>. DEFINE w == s \o p
    <2>4. /\ w \in Seq(Frames(v)) /\ Len(w) = Len(s) + Len(p)
          /\ \A j \in 1 .. Len(s) + Len(p) : w[j] = IF j <= Len(s) THEN s[j] ELSE p[j - Len(s)]
      BY <2>2, ConcatProperties
    <2>. HIDE DEF w
    <2>8. n = Len(s) + Len(p) /\ n \in Nat /\ Len(p) \in Nat /\ Len(p) < Len(t)
      BY <1>1, <2>2 DEF n
    <2>5. \A j \in 1 .. n : w[j] = c[j]
      <3>. TAKE j \in 1 .. n
      <3>1. CASE j <= Len(s)
        BY <3>1, <2>4, <2>8, <1>1, <1>2
      <3>2. CASE j > Len(s)
        <4>. DEFINE k == j - Len(s)
        <4>1. k \in 1 .. Len(p) /\ k \in 1 .. Len(t) /\ Len(s) + k = j
          BY <3>2, <1>1, <2>8
        <4>2. w[j] = p[k]
          BY <3>2, <2>4, <2>8
        <4>. HIDE DEF k
        <4>3. p[k] = t[k] /\ c[Len(s) + k] = t[k]
          BY <4>1, <2>2, <1>2
        <4>. QED BY <4>1, <4>2, <4>3
      <3>. QED BY <3>1, <3>2, <1>1, <2>8
    <2>6. SubSeq(c, 1, n) = w
      BY <2>3, <2>4, <2>5, <2>8, SeqEqual
    <2>7. After(x, s \o p, "cfg") = After(y, p, "cfg")
      BY <2>2, AfterConcat
    <2>. QED BY <2>6, <2>7 DEF n, p, w
  <1>. HIDE DEF c, y
  <1>5. Follows(x, c) => Follows(x, s)
    <2>. SUFFICES ASSUME Follows(x, c), NEW i \in 1 .. Len(s), s[i].cmd = "do"
                  PROVE  Covers(After(x, SubSeq(s, 1, i - 1), "cfg"), s[i].val)
      BY DEF Follows
    <2>1. i \in 1 .. Len(c) /\ c[i] = s[i]
      BY <1>1, <1>2
    <2>. QED BY <2>1, <1>3 DEF Follows
  <1>6. Follows(x, c) => Follows(y, t)
    <2>. SUFFICES ASSUME Follows(x, c), NEW i \in 1 .. Len(t), t[i].cmd = "do"
                  PROVE  Covers(After(y, SubSeq(t, 1, i - 1), "cfg"), t[i].val)
      BY DEF Follows
    <2>1. Len(s) + i \in 1 .. Len(c) /\ c[Len(s) + i] = t[i]
      BY <1>1, <1>2
    <2>. QED BY <2>1, <1>4 DEF Follows
  <1>7. Follows(x, s) /\ Follows(y, t) => Follows(x, c)
    <2>. SUFFICES ASSUME Follows(x, s), Follows(y, t), NEW i \in 1 .. Len(c), c[i].cmd = "do"
                  PROVE  Covers(After(x, SubSeq(c, 1, i - 1), "cfg"), c[i].val)
      BY DEF Follows
    <2>1. CASE i \in 1 .. Len(s)
      BY <2>1, <1>2, <1>3 DEF Follows
    <2>2. CASE i > Len(s)
      <3>1. PICK k \in 1 .. Len(t) : i = Len(s) + k
        <4>1. i - Len(s) \in 1 .. Len(t) /\ i = Len(s) + (i - Len(s))
          BY <2>2, <1>1
        <4>. QED BY <4>1
      <3>. QED BY <3>1, <1>2, <1>4 DEF Follows
    <2>. QED BY <2>1, <2>2, <1>1
  <1>. QED BY <1>5, <1>6, <1>7 DEF c, y

(* One frame.                                                              *)
LEMMA FollowsOne ==
    ASSUME NEW v \in Nat, NEW m \in Frames(v), NEW x
    PROVE  Follows(x, <<m>>) <=> (m.cmd = "do" => Covers(x, m.val))
  <1>1. <<m>> \in Seq(Frames(v)) /\ Len(<<m>>) = 1 /\ <<m>>[1] = m
    OBVIOUS
  <1>2. SubSeq(<<m>>, 1, 1 - 1) = <<>>
    BY SubSeqEmpty
  <1>3. After(x, SubSeq(<<m>>, 1, 1 - 1), "cfg") = x
    BY <1>2, AfterEmpty
  <1>4. \A i \in 1 .. Len(<<m>>) : i = 1
    BY <1>1
  <1>. QED BY <1>1, <1>3, <1>4 DEF Follows

(* No frame.                                                               *)
LEMMA FollowsEmpty == \A x : Follows(x, <<>>)
  BY DEF Follows

(* One frame of Sealable.                                                  *)
SealableStep(s, p, n) == IF Fits(s[n]) THEN Append(p, s[n]) ELSE p

(* Sealable, frame by frame.                                               *)
LEMMA SealedRun ==
    ASSUME NEW v \in Nat, NEW s \in Seq(Frames(v))
    PROVE  \E f : /\ f[0] = <<>> /\ Sealable(s) = f[Len(s)]
                  /\ \A n \in 0 .. Len(s) - 1 : f[n + 1] = SealableStep(s, f[n], n + 1)
  <1>. DEFINE Run(f, m) == f = [n \in 0 .. m |-> IF n = 0 THEN <<>> ELSE SealableStep(s, f[n - 1], n)]
              G == {m \in 0 .. Len(s) : \E f : Run(f, m)}
  <1>1. Len(s) \in Nat
    OBVIOUS
  <1>2. 0 \in G
    <2>. DEFINE e == [n \in 0 .. 0 |-> <<>>]
    <2>1. Run(e, 0)
      OBVIOUS
    <2>. HIDE DEF e
    <2>2. \E f : Run(f, 0)
      BY <2>1
    <2>. QED BY <1>1, <2>2
  <1>3. ASSUME NEW k \in 0 .. Len(s) - 1, k \in G PROVE k + 1 \in G
    <2>1. PICK f : Run(f, k)
      BY <1>3
    <2>. DEFINE g == [n \in 0 .. k + 1 |-> IF n <= k THEN f[n] ELSE SealableStep(s, f[k], k + 1)]
    <2>2. ASSUME NEW n \in 0 .. k + 1
          PROVE  g[n] = IF n = 0 THEN <<>> ELSE SealableStep(s, g[n - 1], n)
      <3>1. CASE n = 0
        BY <3>1, <2>1
      <3>2. CASE n \in 1 .. k
        <4>1. g[n] = f[n] /\ g[n - 1] = f[n - 1]
          BY <3>2
        <4>2. f[n] = SealableStep(s, f[n - 1], n)
          BY <2>1, <3>2
        <4>. QED BY <4>1, <4>2, <3>2
      <3>3. CASE n = k + 1
        <4>1. g[n] = (SealableStep(s, f[k], k + 1)) /\ g[n - 1] = f[k]
          BY <3>3
        <4>. QED BY <4>1, <3>3
      <3>. QED BY <3>1, <3>2, <3>3
    <2>3. Run(g, k + 1)
      BY <2>2
    <2>. HIDE DEF g
    <2>4. \E e : Run(e, k + 1)
      BY <2>3
    <2>. QED BY <2>4, <1>1
  <1>. HIDE DEF G
  <1>4. Len(s) \in G
    BY <1>1, <1>2, <1>3, Induct
  <1>. USE DEF G
  <1>. DEFINE f == CHOOSE e : Run(e, Len(s))
  <1>5. Run(f, Len(s))
    BY <1>4
  <1>6. Sealable(s) = f[Len(s)]
    BY DEF Sealable, SealableStep
  <1>. HIDE DEF f
  <1>7. f[0] = <<>> /\ \A n \in 0 .. Len(s) - 1 : f[n + 1] = SealableStep(s, f[n], n + 1)
    BY <1>1, <1>5
  <1>. QED BY <1>6, <1>7

(* What Sealable keeps: the last frame of a command that always fits, that *)
(* the commands find their config, and a last frame that fits.             *)
LEMMA SealedKeeps ==
    ASSUME NEW v \in Nat, NEW s \in Seq(Frames(v))
    PROVE  /\ Sealable(s) \in Seq(Frames(v))
           /\ \A cmd : (\A i \in 1 .. Len(s) : s[i].cmd = cmd => Fits(s[i]))
                          => \A x : After(x, Sealable(s), cmd) = After(x, s, cmd)
           /\ (\A i \in 1 .. Len(s) : s[i].cmd = "cfg" => Fits(s[i]))
                 => \A x : Follows(x, s) => Follows(x, Sealable(s))
           /\ s # <<>> /\ Fits(s[Len(s)]) => Sealable(s) # <<>>
  <1>1. PICK f : /\ f[0] = <<>> /\ Sealable(s) = f[Len(s)]
                 /\ \A n \in 0 .. Len(s) - 1 : f[n + 1] = SealableStep(s, f[n], n + 1)
    BY SealedRun
  <1>. DEFINE All(cmd) == \A i \in 1 .. Len(s) : s[i].cmd = cmd => Fits(s[i])
              Same(p, n) == \A cmd : All(cmd) => \A x : After(x, p, cmd) = After(x, SubSeq(s, 1, n), cmd)
              Finds(p) == All("cfg") => \A x : Follows(x, s) => Follows(x, p)
              G == {n \in 0 .. Len(s) : f[n] \in Seq(Frames(v)) /\ Same(f[n], n) /\ Finds(f[n])}
  <1>2. Len(s) \in Nat
    OBVIOUS
  <1>3. 0 \in G
    <2>1. SubSeq(s, 1, 0) = <<>> /\ <<>> \in Seq(Frames(v))
      BY SubSeqEmpty
    <2>2. Same(<<>>, 0)
      BY <2>1
    <2>3. Finds(<<>>)
      BY FollowsEmpty
    <2>. HIDE DEF Same, Finds
    <2>4. f[0] \in Seq(Frames(v)) /\ Same(f[0], 0) /\ Finds(f[0])
      BY <1>1, <2>1, <2>2, <2>3, Zenon
    <2>5. 0 \in 0 .. Len(s)
      BY <1>2
    <2>. QED BY <2>4, <2>5
  <1>4. ASSUME NEW n \in 0 .. Len(s) - 1, n \in G PROVE n + 1 \in G
    <2>. DEFINE p == f[n]
                m == s[n + 1]
                a == SubSeq(s, 1, n)
    <2>1. p \in Seq(Frames(v)) /\ Same(p, n) /\ Finds(p)
      BY <1>4
    <2>2. n + 1 \in 1 .. Len(s) /\ n + 1 \in 0 .. Len(s) /\ n \in 0 .. Len(s) /\ m \in Frames(v)
      BY <1>2
    <2>3. f[n + 1] = IF Fits(m) THEN Append(p, m) ELSE p
      BY <1>1 DEF SealableStep
    <2>4. a \in Seq(Frames(v)) /\ Len(a) = n /\ \A i \in 1 .. n : a[i] = s[i]
      BY <2>2, SplitAt
    <2>5. SubSeq(s, 1, n + 1) = a \o <<m>>
      <3>1. SubSeq(s, 1, n + 1) \in Seq(Frames(v)) /\ Len(SubSeq(s, 1, n + 1)) = n + 1
            /\ \A i \in 1 .. n + 1 : SubSeq(s, 1, n + 1)[i] = s[i]
        BY <2>2, SplitAt
      <3>. DEFINE w == a \o <<m>>
      <3>. HIDE DEF a, m
      <3>2. w \in Seq(Frames(v)) /\ Len(w) = n + 1 /\ w[n + 1] = m /\ \A i \in 1 .. n : w[i] = a[i]
        BY <2>2, <2>4
      <3>3. \A i \in 1 .. n + 1 : w[i] = s[i]
        BY <3>2, <2>4, <2>2 DEF m
      <3>. HIDE DEF w
      <3>4. SubSeq(s, 1, n + 1) = w
        BY <3>1, <3>2, <3>3, SeqEqual
      <3>. QED BY <3>4 DEF w
    <2>. HIDE DEF p
    <2>6. \A x, cmd : After(x, SubSeq(s, 1, n + 1), cmd) = IF m.cmd = cmd THEN m.val ELSE After(x, a, cmd)
      <3>. TAKE x, cmd
      <3>. DEFINE t == <<m>>
      <3>. HIDE DEF a, m
      <3>1. t \in Seq(Frames(v))
        BY <2>2
      <3>. HIDE DEF t
      <3>2. After(x, a \o t, cmd) = After(After(x, a, cmd), t, cmd)
        BY <3>1, <2>4, AfterConcat
      <3>3. After(After(x, a, cmd), <<m>>, cmd) = IF m.cmd = cmd THEN m.val ELSE After(x, a, cmd)
        BY <2>2, AfterOne
      <3>. QED BY <3>2, <3>3, <2>5 DEF t
    <2>7. CASE ~Fits(m)
      <3>1. Same(p, n + 1)
        <4>. SUFFICES ASSUME NEW cmd, All(cmd), NEW x
                      PROVE  After(x, p, cmd) = After(x, SubSeq(s, 1, n + 1), cmd)
          OBVIOUS
        <4>1. m.cmd # cmd
          BY <2>2, <2>7
        <4>2. After(x, p, cmd) = After(x, a, cmd)
          BY <2>1
        <4>. QED BY <4>1, <4>2, <2>6
      <3>2. f[n + 1] = p
        BY <2>3, <2>7
      <3>. HIDE DEF Same, Finds
      <3>. QED BY <3>1, <3>2, <2>1, <2>2
    <2>8. CASE Fits(m)
      <3>. DEFINE w == p \o <<m>>
      <3>1. <<m>> \in Seq(Frames(v))
        BY <2>2
      <3>. HIDE DEF m
      <3>2. Append(p, m) = w
        BY <2>1, <2>2, AppendIsConcat
      <3>3. w \in Seq(Frames(v))
        BY <3>1, <2>1, ConcatProperties
      <3>4. \A x, cmd : After(x, w, cmd) = IF m.cmd = cmd THEN m.val ELSE After(x, p, cmd)
        <4>. TAKE x, cmd
        <4>. DEFINE t == <<m>>
        <4>. HIDE DEF t
        <4>3. t \in Seq(Frames(v))
          BY <3>1 DEF t
        <4>4. After(x, p \o t, cmd) = After(After(x, p, cmd), t, cmd)
          BY <4>3, <2>1, AfterConcat
        <4>1. After(x, w, cmd) = After(After(x, p, cmd), <<m>>, cmd)
          BY <4>4 DEF t
        <4>2. After(After(x, p, cmd), <<m>>, cmd) = IF m.cmd = cmd THEN m.val ELSE After(x, p, cmd)
          BY <2>2, AfterOne
        <4>. QED BY <4>1, <4>2
      <3>5. Same(w, n + 1)
        <4>. HIDE DEF w
        <4>. SUFFICES ASSUME NEW cmd, All(cmd), NEW x
                      PROVE  After(x, w, cmd) = After(x, SubSeq(s, 1, n + 1), cmd)
          OBVIOUS
        <4>1. After(x, p, cmd) = After(x, a, cmd)
          BY <2>1
        <4>. QED BY <4>1, <3>4, <2>6
      <3>6. Finds(w)
        <4>. SUFFICES ASSUME All("cfg"), NEW x, Follows(x, s) PROVE Follows(x, w)
          OBVIOUS
        <4>1. Follows(x, p) /\ After(x, p, "cfg") = After(x, a, "cfg")
          BY <2>1
        <4>2. m.cmd = "do" => Covers(After(x, SubSeq(s, 1, (n + 1) - 1), "cfg"), m.val)
          BY <2>2 DEF Follows, m
        <4>3. SubSeq(s, 1, (n + 1) - 1) = a
          OBVIOUS
        <4>4. Follows(After(x, p, "cfg"), <<m>>)
          BY <4>1, <4>2, <4>3, <2>2, FollowsOne
        <4>. QED BY <4>1, <4>4, <3>1, <2>1, FollowsConcat
      <3>7. f[n + 1] = w
        BY <3>2, <2>3, <2>8
      <3>. HIDE DEF Same, Finds, w
      <3>. QED BY <3>3, <3>5, <3>6, <3>7, <2>2
    <2>. QED BY <2>7, <2>8
  <1>. HIDE DEF G
  <1>5. Len(s) \in G
    BY <1>2, <1>3, <1>4, Induct
  <1>6. SubSeq(s, 1, Len(s)) = s
    BY <1>2, SubSeqFull
  <1>7. Sealable(s) \in Seq(Frames(v)) /\ Same(Sealable(s), Len(s)) /\ Finds(Sealable(s))
    <2>. HIDE DEF Same, Finds
    <2>. QED BY <1>1, <1>5 DEF G
  <1>8. ASSUME s # <<>>, Fits(s[Len(s)]) PROVE Sealable(s) # <<>>
    <2>1. Len(s) - 1 \in 0 .. Len(s) - 1 /\ (Len(s) - 1) + 1 = Len(s)
      BY <1>2, <1>8
    <2>2. Sealable(s) = Append(f[Len(s) - 1], s[Len(s)])
      BY <2>1, <1>1, <1>8 DEF SealableStep
    <2>3. f[Len(s) - 1] \in Seq(Frames(v))
      <3>1. \A n \in 0 .. (Len(s) - 1) - 1 : n \in G => n + 1 \in G
        <4>. SUFFICES ASSUME NEW n \in 0 .. (Len(s) - 1) - 1, n \in G PROVE n + 1 \in G
          OBVIOUS
        <4>1. n \in 0 .. Len(s) - 1
          BY <1>2
        <4>. QED BY <4>1, <1>4
      <3>2. Len(s) - 1 \in Nat
        BY <2>1
      <3>3. Len(s) - 1 \in G
        BY <3>1, <3>2, <1>3, Induct
      <3>. HIDE DEF Same, Finds
      <3>. QED BY <3>3 DEF G
    <2>4. s[Len(s)] \in Frames(v)
      BY <2>1, <1>2
    <2>. QED BY <2>2, <2>3, <2>4, AppendProperties
  <1>. QED BY <1>6, <1>7, <1>8

-----------------------------------------------------------------------------
(* A lane: frames of that lane, and at most one of each coalesce key.      *)
Single(s) == \A i, j \in 1 .. Len(s) : Keyed(s[i]) /\ s[i].cmd = s[j].cmd => i = j
LaneOK(l, s, v) == s \in Seq(Frames(v)) /\ (\A i \in 1 .. Len(s) : s[i].lane = l) /\ Single(s)

(* A queue whose lanes are in order and whose byte counts are exact.       *)
QueueRec(v) == [lanes : [Lanes -> Seq(Frames(v))], bytes : [Lanes -> Nat], total : Nat,
                cfg : Nat \cup {Own}, tree : Nat \cup {Own}]
Sound(c, v) ==
    /\ c \in QueueRec(v)
    /\ \A l \in Lanes : LaneOK(l, c.lanes[l], v) /\ c.bytes[l] = SumSize(c.lanes[l])
    /\ c.total = (SumSize(c.lanes[Urgent]) + SumSize(c.lanes[DeltaL])) + SumSize(c.lanes[Bulk])

(* c with lane l become s, and cfg and tree standing as sent.              *)
Relaned(c, l, s, h, k) ==
    [lanes |-> [c.lanes EXCEPT ![l] = s], bytes |-> [c.bytes EXCEPT ![l] = SumSize(s)],
     total |-> (c.total - SumSize(c.lanes[l])) + SumSize(s), cfg |-> h, tree |-> k]

(* Where there is a lane there is a size.                                  *)
LEMMA LaneSize ==
    ASSUME NEW v \in Nat, NEW s \in Seq(Frames(v))
    PROVE  SumSize(s) \in Nat
  BY SumConcat

(* The lanes are three.                                                    *)
LEMMA ThreeLanes == Urgent \in Lanes /\ DeltaL \in Lanes /\ Bulk \in Lanes /\ \A l \in Lanes : l \in {Urgent, DeltaL, Bulk}
  BY DEF Urgent, DeltaL, Bulk, Lanes

(* A queue whose lane changed is sound if the lane is.                     *)
LEMMA RelanedSound ==
    ASSUME NEW v \in Nat, NEW c, Sound(c, v), NEW l \in Lanes, NEW s, LaneOK(l, s, v),
           NEW h \in Nat \cup {Own}, NEW k \in Nat \cup {Own}
    PROVE  Sound(Relaned(c, l, s, h, k), v)
  <1>. DEFINE d == Relaned(c, l, s, h, k)
              z == [i \in Lanes |-> SumSize(c.lanes[i])]
  <1>1. s \in Seq(Frames(v)) /\ SumSize(s) \in Nat
    BY LaneSize DEF LaneOK
  <1>2. /\ c.lanes \in [Lanes -> Seq(Frames(v))] /\ c.bytes \in [Lanes -> Nat] /\ c.total \in Nat
    BY DEF Sound, QueueRec
  <1>3. \A i \in Lanes : z[i] \in Nat /\ z[i] = SumSize(c.lanes[i])
    BY <1>2, LaneSize
  <1>4. c.total = (z[Urgent] + z[DeltaL]) + z[Bulk]
    BY <1>3, ThreeLanes DEF Sound
  <1>5. /\ d.lanes = [c.lanes EXCEPT ![l] = s] /\ d.bytes = [c.bytes EXCEPT ![l] = SumSize(s)]
        /\ d.total = (c.total - z[l]) + SumSize(s) /\ d.cfg = h /\ d.tree = k
        /\ d = [lanes |-> d.lanes, bytes |-> d.bytes, total |-> d.total, cfg |-> d.cfg, tree |-> d.tree]
    BY <1>3 DEF Relaned
  <1>. HIDE DEF d, z
  <1>6. d.lanes[l] = s /\ d.bytes[l] = SumSize(s) /\ \A i \in Lanes : i # l => d.lanes[i] = c.lanes[i] /\ d.bytes[i] = c.bytes[i]
    BY <1>2, <1>5
  <1>7. \A i \in Lanes : SumSize(d.lanes[i]) = IF i = l THEN SumSize(s) ELSE z[i]
    BY <1>3, <1>6
  <1>8. \A i \in Lanes : LaneOK(i, d.lanes[i], v) /\ d.bytes[i] = SumSize(d.lanes[i])
    BY <1>6 DEF Sound
  <1>9. z[Urgent] \in Nat /\ z[DeltaL] \in Nat /\ z[Bulk] \in Nat
    BY <1>3, ThreeLanes
  <1>10. d.total = (SumSize(d.lanes[Urgent]) + SumSize(d.lanes[DeltaL])) + SumSize(d.lanes[Bulk]) /\ d.total \in Nat
    <2>1. CASE l = Urgent
      <3>1. SumSize(d.lanes[Urgent]) = SumSize(s) /\ SumSize(d.lanes[DeltaL]) = z[DeltaL] /\ SumSize(d.lanes[Bulk]) = z[Bulk]
        BY <2>1, <1>7, ThreeLanes DEF Urgent, DeltaL, Bulk
      <3>. QED BY <2>1, <3>1, <1>1, <1>4, <1>5, <1>9, SMTT(30)
    <2>2. CASE l = DeltaL
      <3>1. SumSize(d.lanes[Urgent]) = z[Urgent] /\ SumSize(d.lanes[DeltaL]) = SumSize(s) /\ SumSize(d.lanes[Bulk]) = z[Bulk]
        BY <2>2, <1>7, ThreeLanes DEF Urgent, DeltaL, Bulk
      <3>. QED BY <2>2, <3>1, <1>1, <1>4, <1>5, <1>9
    <2>3. CASE l = Bulk
      <3>1. SumSize(d.lanes[Urgent]) = z[Urgent] /\ SumSize(d.lanes[DeltaL]) = z[DeltaL] /\ SumSize(d.lanes[Bulk]) = SumSize(s)
        BY <2>3, <1>7, ThreeLanes DEF Urgent, DeltaL, Bulk
      <3>. QED BY <2>3, <3>1, <1>1, <1>4, <1>5, <1>9
    <2>. QED BY <2>1, <2>2, <2>3, ThreeLanes
  <1>11. d \in QueueRec(v)
    <2>1. d.lanes \in [Lanes -> Seq(Frames(v))] /\ d.bytes \in [Lanes -> Nat] /\ d.cfg \in Nat \cup {Own} /\ d.tree \in Nat \cup {Own}
      BY <1>1, <1>2, <1>5
    <2>. QED BY <2>1, <1>5, <1>10 DEF QueueRec
  <1>12. Sound(d, v)
    BY <1>8, <1>10, <1>11 DEF Sound
  <1>. QED BY <1>12 DEF d

(* A frame more at the end of a lane that has none of its key.             *)
LEMMA LaneAppend ==
    ASSUME NEW v \in Nat, NEW l, NEW s, LaneOK(l, s, v), NEW m \in Frames(v), m.lane = l, Keyed(m) => ~Has(s, m.cmd)
    PROVE  LaneOK(l, s \o <<m>>, v) /\ SumSize(s \o <<m>>) = SumSize(s) + SizeOf(m) /\ Append(s, m) = s \o <<m>>
  <1>. DEFINE w == s \o <<m>>
              t == <<m>>
  <1>1. s \in Seq(Frames(v)) /\ t \in Seq(Frames(v)) /\ Len(s) \in Nat
    BY DEF LaneOK
  <1>2. w \in Seq(Frames(v)) /\ Len(w) = Len(s) + 1 /\ w[Len(s) + 1] = m /\ \A i \in 1 .. Len(s) : w[i] = s[i]
    BY <1>1
  <1>3. SumSize(s \o t) = SumSize(s) + SumSize(t)
    <2>. HIDE DEF t
    <2>. QED BY <1>1, SumConcat
  <1>4. SumSize(t) = SizeOf(m)
    BY SumOne
  <1>5. Append(s, m) = w
    BY <1>1, AppendIsConcat
  <1>. HIDE DEF w
  <1>6. \A i \in 1 .. Len(w) : i \in 1 .. Len(s) \/ i = Len(s) + 1
    BY <1>1, <1>2
  <1>7. \A i \in 1 .. Len(w) : w[i].lane = l
    BY <1>2, <1>6 DEF LaneOK
  <1>8. Single(w)
    <2>. SUFFICES ASSUME NEW i \in 1 .. Len(w), NEW j \in 1 .. Len(w), Keyed(w[i]), w[i].cmd = w[j].cmd PROVE i = j
      BY DEF Single
    <2>1. CASE i \in 1 .. Len(s) /\ j \in 1 .. Len(s)
      BY <2>1, <1>2 DEF LaneOK, Single
    <2>2. CASE i \in 1 .. Len(s) /\ j = Len(s) + 1
      <3>1. Keyed(m) /\ s[i].cmd = m.cmd
        BY <2>2, <1>2 DEF Keyed
      <3>. QED BY <2>2, <3>1 DEF Has
    <2>3. CASE i = Len(s) + 1 /\ j \in 1 .. Len(s)
      <3>1. Keyed(m) /\ s[j].cmd = m.cmd
        BY <2>3, <1>2
      <3>. QED BY <2>3, <3>1 DEF Has
    <2>. QED BY <2>1, <2>2, <2>3, <1>6
  <1>. QED BY <1>2, <1>3, <1>4, <1>5, <1>7, <1>8 DEF LaneOK, w

(* The end of a lane.                                                      *)
LEMMA LaneRest ==
    ASSUME NEW v \in Nat, NEW l, NEW s, LaneOK(l, s, v), NEW n \in 0 .. Len(s)
    PROVE  LaneOK(l, SubSeq(s, n + 1, Len(s)), v)
  <1>. DEFINE r == SubSeq(s, n + 1, Len(s))
  <1>1. s \in Seq(Frames(v)) /\ Len(s) \in Nat
    BY DEF LaneOK
  <1>2. r \in Seq(Frames(v)) /\ Len(r) = Len(s) - n /\ \A i \in 1 .. Len(s) - n : r[i] = s[n + i]
    BY <1>1, SplitAt
  <1>. HIDE DEF r
  <1>3. \A i \in 1 .. Len(r) : n + i \in 1 .. Len(s) /\ r[i] = s[n + i]
    BY <1>1, <1>2
  <1>4. \A i \in 1 .. Len(r) : r[i].lane = l
    BY <1>3 DEF LaneOK
  <1>5. Single(r)
    <2>. SUFFICES ASSUME NEW i \in 1 .. Len(r), NEW j \in 1 .. Len(r), Keyed(r[i]), r[i].cmd = r[j].cmd PROVE i = j
      BY DEF Single
    <2>1. n + i = n + j
      BY <1>3 DEF LaneOK, Single
    <2>. QED BY <2>1, <1>1, <1>2
  <1>. QED BY <1>2, <1>4, <1>5 DEF LaneOK, r

(* The oldest frame of a lane and the others.                              *)
SameHas(s) == \A cmd : Has(Tail(s), cmd) \/ Head(s).cmd = cmd <=> Has(s, cmd)
(* Without its oldest frame it is still a lane.                            *)
LEMMA LaneTail ==
    ASSUME NEW v \in Nat, NEW l, NEW s, LaneOK(l, s, v), s # <<>>
    PROVE  /\ LaneOK(l, Tail(s), v) /\ Head(s) \in Frames(v) /\ s = <<Head(s)>> \o Tail(s)
           /\ SumSize(s) = SizeOf(Head(s)) + SumSize(Tail(s))
           /\ SameHas(s)
  <1>. DEFINE t == Tail(s)
              h == <<Head(s)>>
  <1>1. s \in Seq(Frames(v)) /\ Len(s) \in Nat /\ Len(s) > 0
    BY DEF LaneOK
  <1>2. /\ Head(s) \in Frames(v) /\ Head(s) = s[1] /\ t \in Seq(Frames(v)) /\ Len(t) = Len(s) - 1
        /\ \A i \in 1 .. Len(t) : t[i] = s[i + 1]
    BY <1>1, HeadTailProperties
  <1>3. h \in Seq(Frames(v)) /\ Len(h) = 1 /\ h[1] = s[1]
    BY <1>2
  <1>4. s = h \o t
    <2>. HIDE DEF h, t
    <2>4. h \in Seq(Frames(v)) /\ t \in Seq(Frames(v))
      BY <1>2, <1>3
    <2>1. /\ h \o t \in Seq(Frames(v)) /\ Len(h \o t) = Len(h) + Len(t)
          /\ \A i \in 1 .. Len(h) + Len(t) : (h \o t)[i] = IF i <= Len(h) THEN h[i] ELSE t[i - Len(h)]
      BY <2>4, ConcatProperties
    <2>2. \A i \in 1 .. Len(s) : (h \o t)[i] = s[i]
      BY <2>1, <1>1, <1>2, <1>3
    <2>3. Len(h \o t) = Len(s)
      BY <2>1, <1>1, <1>2, <1>3
    <2>. QED BY <2>1, <2>2, <2>3, <1>1, SeqEqual
  <1>5. SumSize(h \o t) = SumSize(h) + SumSize(t)
    <2>. HIDE DEF h, t
    <2>. QED BY <1>2, <1>3, SumConcat
  <1>6. SumSize(h) = SizeOf(Head(s))
    BY <1>2, SumOne
  <1>. HIDE DEF t
  <1>7. \A i \in 1 .. Len(t) : i + 1 \in 1 .. Len(s) /\ t[i] = s[i + 1]
    BY <1>1, <1>2
  <1>8. \A i \in 1 .. Len(t) : t[i].lane = l
    BY <1>7 DEF LaneOK
  <1>9. Single(t)
    <2>. SUFFICES ASSUME NEW i \in 1 .. Len(t), NEW j \in 1 .. Len(t), Keyed(t[i]), t[i].cmd = t[j].cmd PROVE i = j
      BY DEF Single
    <2>1. i + 1 = j + 1
      BY <1>7 DEF LaneOK, Single
    <2>. QED BY <2>1, <1>1, <1>2
  <1>10. ASSUME NEW cmd PROVE Has(t, cmd) \/ Head(s).cmd = cmd <=> Has(s, cmd)
    <2>1. Has(t, cmd) => Has(s, cmd)
      BY <1>7 DEF Has
    <2>2. Head(s).cmd = cmd => Has(s, cmd)
      BY <1>1, <1>2 DEF Has
    <2>3. ASSUME NEW i \in 1 .. Len(s), s[i].cmd = cmd PROVE Has(t, cmd) \/ Head(s).cmd = cmd
      <3>1. CASE i = 1
        BY <3>1, <2>3, <1>2
      <3>2. CASE i # 1
        <4>1. i - 1 \in 1 .. Len(t) /\ t[i - 1] = s[i]
          BY <3>2, <1>1, <1>2
        <4>. QED BY <4>1, <2>3 DEF Has
      <3>. QED BY <3>1, <3>2
    <2>. QED BY <2>1, <2>2, <2>3 DEF Has
  <1>11. LaneOK(l, t, v)
    BY <1>2, <1>8, <1>9 DEF LaneOK
  <1>. QED BY <1>2, <1>4, <1>5, <1>6, <1>10, <1>11 DEF SameHas, t

(* A frame in the place of one of its key.                                 *)
Reset(s, m, t, v) ==
    /\ \A x : After(x, t, m.cmd) = m.val
    /\ \A x, cmd : cmd # m.cmd => After(x, t, cmd) = After(x, s, cmd)
    /\ m.cmd = "cfg" /\ m.val = v /\ v \in Versions => \A x : Follows(x, s) => Follows(x, t)
    /\ m.cmd # "cfg" => \A x : Follows(x, s) => Follows(x, t)
Resized(s, o, m, t) ==
    /\ SumSize(t) = (SumSize(s) - SizeOf(o)) + SizeOf(m)
    /\ SizeOf(o) \in Nat /\ SumSize(s) \in Nat /\ SizeOf(m) \in Nat
(* With a frame replaced it is still a lane, of the new size.              *)
LEMMA LaneSet ==
    ASSUME NEW v \in Nat, NEW l, NEW s, LaneOK(l, s, v), NEW i \in 1 .. Len(s), NEW m \in Frames(v),
           m.lane = l, Keyed(m), s[i].cmd = m.cmd, NEW w, w = [s EXCEPT ![i] = m]
    PROVE  /\ LaneOK(l, w, v)
           /\ Resized(s, s[i], m, w)
           /\ Reset(s, m, w, v)
  <1>. DEFINE t == [s EXCEPT ![i] = m]
              o == s[i]
  <1>1. s \in Seq(Frames(v)) /\ Len(s) \in Nat /\ o \in Frames(v) /\ o.cmd = m.cmd /\ Keyed(o)
    BY DEF LaneOK, Keyed
  <1>2. t \in Seq(Frames(v)) /\ Len(t) = Len(s) /\ t[i] = m /\ \A j \in 1 .. Len(s) : j # i => t[j] = s[j]
    BY <1>1
  <1>18. PICK a, b \in Seq(Frames(v)) : Parts(a, b, s, i, o, t, m)
    <2>1. o = s[i] /\ t = [s EXCEPT ![i] = m]
      OBVIOUS
    <2>. HIDE DEF t, o
    <2>. QED BY <2>1, <1>1, Around
  <1>. HIDE DEF t, o
  <1>3. /\ s = (a \o <<o>>) \o b /\ t = (a \o <<m>>) \o b
        /\ Len(a) = i - 1 /\ Len(b) = Len(s) - i
        /\ \A j \in 1 .. Len(a) : a[j] = s[j]
        /\ \A j \in 1 .. Len(b) : b[j] = s[i + j]
    BY <1>18 DEF Parts
  <1>4. \A j \in 1 .. Len(t) : t[j].lane = l
    BY <1>2 DEF LaneOK
  <1>5. \A j \in 1 .. Len(t) : t[j].cmd = s[j].cmd
    BY <1>1, <1>2 DEF o
  <1>6. Single(t)
    <2>. SUFFICES ASSUME NEW j \in 1 .. Len(t), NEW k \in 1 .. Len(t), Keyed(t[j]), t[j].cmd = t[k].cmd PROVE j = k
      BY DEF Single
    <2>1. Keyed(s[j]) /\ s[j].cmd = s[k].cmd
      BY <1>5 DEF Keyed
    <2>. QED BY <2>1, <1>2 DEF LaneOK, Single
  <1>7. \A j \in 1 .. Len(s) : j # i => s[j].cmd # m.cmd
    BY <1>1 DEF LaneOK, Single, o
  <1>8. ~Has(b, m.cmd) /\ ~Has(a, m.cmd)
    <2>1. \A j \in 1 .. Len(b) : i + j \in 1 .. Len(s) /\ i + j # i
      BY <1>1, <1>3
    <2>2. \A j \in 1 .. Len(a) : j \in 1 .. Len(s) /\ j # i
      BY <1>1, <1>3
    <2>. QED BY <2>1, <2>2, <1>3, <1>7 DEF Has
  <1>9. ASSUME NEW y \in Frames(v)
        PROVE  /\ SumSize((a \o <<y>>) \o b) = (SumSize(a) + SizeOf(y)) + SumSize(b)
               /\ SumSize(a) \in Nat /\ SumSize(b) \in Nat /\ SizeOf(y) \in Nat
               /\ \A x, cmd : After(x, (a \o <<y>>) \o b, cmd) = After(IF y.cmd = cmd THEN y.val ELSE After(x, a, cmd), b, cmd)
               /\ \A x : Follows(x, (a \o <<y>>) \o b) <=>
                           /\ Follows(x, a) /\ (y.cmd = "do" => Covers(After(x, a, "cfg"), y.val))
                           /\ Follows(IF y.cmd = "cfg" THEN y.val ELSE After(x, a, "cfg"), b)
    <2>. DEFINE one == <<y>>
                aw  == a \o one
    <2>1. one \in Seq(Frames(v))
      OBVIOUS
    <2>2. SumSize(one) = SizeOf(y) /\ SizeOf(y) \in Nat /\ \A x, cmd : After(x, one, cmd) = IF y.cmd = cmd THEN y.val ELSE x
      BY SumOne, AfterOne
    <2>3. \A x : Follows(x, one) <=> (y.cmd = "do" => Covers(x, y.val))
      BY FollowsOne
    <2>. HIDE DEF one
    <2>4. aw \in Seq(Frames(v))
      BY <2>1, ConcatProperties
    <2>5. SumSize(aw) = SumSize(a) + SumSize(one) /\ SumSize(a) \in Nat
      BY <2>1, SumConcat
    <2>6. \A x, cmd : After(x, aw, cmd) = After(After(x, a, cmd), one, cmd)
      BY <2>1, AfterConcat
    <2>7. \A x : Follows(x, aw) <=> Follows(x, a) /\ Follows(After(x, a, "cfg"), one)
      BY <2>1, FollowsConcat
    <2>. HIDE DEF aw
    <2>8. SumSize(aw \o b) = SumSize(aw) + SumSize(b) /\ SumSize(b) \in Nat
      BY <2>4, SumConcat
    <2>9. \A x, cmd : After(x, aw \o b, cmd) = After(After(x, aw, cmd), b, cmd)
      BY <2>4, AfterConcat
    <2>10. \A x : Follows(x, aw \o b) <=> Follows(x, aw) /\ Follows(After(x, aw, "cfg"), b)
      BY <2>4, FollowsConcat
    <2>11. SumSize(aw \o b) = (SumSize(a) + SizeOf(y)) + SumSize(b)
      BY <2>2, <2>5, <2>8
    <2>12. \A x, cmd : After(x, aw, cmd) = IF y.cmd = cmd THEN y.val ELSE After(x, a, cmd)
      BY <2>2, <2>6
    <2>13. \A x, cmd : After(x, aw \o b, cmd) = After(IF y.cmd = cmd THEN y.val ELSE After(x, a, cmd), b, cmd)
      BY <2>9, <2>12
    <2>14. ASSUME NEW x
           PROVE  Follows(x, aw \o b) <=> /\ Follows(x, a) /\ (y.cmd = "do" => Covers(After(x, a, "cfg"), y.val))
                                          /\ Follows(IF y.cmd = "cfg" THEN y.val ELSE After(x, a, "cfg"), b)
      BY <2>3, <2>7, <2>10, <2>12
    <2>. QED BY <2>2, <2>5, <2>8, <2>11, <2>13, <2>14 DEF one, aw
  <1>10. SumSize(t) = (SumSize(s) - SizeOf(o)) + SizeOf(m) /\ SumSize(s) \in Nat /\ SizeOf(o) \in Nat /\ SizeOf(m) \in Nat
    <2>1. /\ SumSize(s) = (SumSize(a) + SizeOf(o)) + SumSize(b) /\ SizeOf(o) \in Nat
          /\ SumSize(t) = (SumSize(a) + SizeOf(m)) + SumSize(b) /\ SizeOf(m) \in Nat
          /\ SumSize(a) \in Nat /\ SumSize(b) \in Nat
      BY <1>1, <1>3, <1>9
    <2>. QED BY <2>1
  <1>11. \A x : After(x, t, m.cmd) = m.val
    <2>. TAKE x
    <2>1. After(x, t, m.cmd) = After(m.val, b, m.cmd)
      BY <1>3, <1>9
    <2>. QED BY <2>1, <1>8, AfterNone
  <1>12. \A x, cmd : cmd # m.cmd => After(x, t, cmd) = After(x, s, cmd)
    BY <1>1, <1>3, <1>9, SMTT(30)
  <1>13. ASSUME NEW x, Follows(x, s) PROVE Follows(x, a) /\ Follows(IF o.cmd = "cfg" THEN o.val ELSE After(x, a, "cfg"), b)
    BY <1>1, <1>3, <1>9, <1>13
  <1>14. m.cmd # "do"
    BY DEF Keyed
  <1>15. ASSUME m.cmd # "cfg", NEW x, Follows(x, s) PROVE Follows(x, t)
    BY <1>1, <1>3, <1>9, <1>13, <1>14, <1>15
  <1>16. ASSUME m.cmd = "cfg", m.val = v, v \in Versions, NEW x, Follows(x, s) PROVE Follows(x, t)
    <2>1. Follows(m.val, b)
      <3>. SUFFICES ASSUME NEW j \in 1 .. Len(b), b[j].cmd = "do"
                    PROVE  Covers(After(m.val, SubSeq(b, 1, j - 1), "cfg"), b[j].val)
        BY DEF Follows
      <3>. DEFINE p == SubSeq(b, 1, j - 1)
      <3>1. j - 1 \in 0 .. Len(b) /\ Len(b) \in Nat
        OBVIOUS
      <3>2. p \in Seq(Frames(v)) /\ Len(p) = j - 1 /\ \A k \in 1 .. j - 1 : p[k] = b[k]
        BY <3>1, SplitAt
      <3>. HIDE DEF p
      <3>3. \A k \in 1 .. Len(p) : k \in 1 .. Len(b) /\ p[k] = b[k]
        BY <3>1, <3>2
      <3>4. ~Has(p, "cfg")
        BY <3>3, <1>8, <1>16 DEF Has
      <3>5. After(m.val, p, "cfg") = m.val
        BY <3>2, <3>4, AfterNone
      <3>6. b[j] \in Frames(v)
        OBVIOUS
      <3>7. b[j].val <= v
        BY <3>6 DEF Frames
      <3>8. Covers(m.val, b[j].val)
        BY <3>7, <1>16, OutQueueAssumption DEF Covers, Versions
      <3>. QED BY <3>5, <3>8 DEF p
    <2>. QED BY <2>1, <1>3, <1>9, <1>13, <1>14, <1>16
  <1>17. LaneOK(l, t, v)
    BY <1>2, <1>4, <1>6 DEF LaneOK
  <1>19. w = t
    BY DEF t
  <1>. QED BY <1>19, <1>10, <1>11, <1>12, <1>15, <1>16, <1>17 DEF Reset, Resized, o

(* A frame more: what is read after it.                                    *)
More(s, m, w) ==
    /\ \A x, cmd : After(x, w, cmd) = IF m.cmd = cmd THEN m.val ELSE After(x, s, cmd)
    /\ \A x : Follows(x, w) <=> Follows(x, s) /\ (m.cmd = "do" => Covers(After(x, s, "cfg"), m.val))
(* What one more frame at the end does to a reader.                        *)
LEMMA MoreOf ==
    ASSUME NEW v \in Nat, NEW s \in Seq(Frames(v)), NEW m \in Frames(v), NEW w, w = s \o <<m>>
    PROVE  w \in Seq(Frames(v)) /\ More(s, m, w)
  <1>. DEFINE t == <<m>>
  <1>1. t \in Seq(Frames(v)) /\ w = s \o t
    OBVIOUS
  <1>2. \A x, cmd : After(x, t, cmd) = IF m.cmd = cmd THEN m.val ELSE x
    BY AfterOne
  <1>3. \A x : Follows(x, t) <=> (m.cmd = "do" => Covers(x, m.val))
    BY FollowsOne
  <1>. HIDE DEF t
  <1>4. w \in Seq(Frames(v))
    BY <1>1, ConcatProperties
  <1>5. \A x, cmd : After(x, w, cmd) = After(After(x, s, cmd), t, cmd)
    BY <1>1, AfterConcat
  <1>6. \A x : Follows(x, w) <=> Follows(x, s) /\ Follows(After(x, s, "cfg"), t)
    BY <1>1, FollowsConcat
  <1>7. \A x, cmd : After(x, w, cmd) = IF m.cmd = cmd THEN m.val ELSE After(x, s, cmd)
    BY <1>2, <1>5
  <1>8. \A x : Follows(x, w) <=> Follows(x, s) /\ (m.cmd = "do" => Covers(After(x, s, "cfg"), m.val))
    BY <1>3, <1>6
  <1>. QED BY <1>4, <1>7, <1>8 DEF More

(* A frame less: what is read without the first.                           *)
Less(s, m, t) ==
    /\ \A x, cmd : After(x, s, cmd) = After(IF m.cmd = cmd THEN m.val ELSE x, t, cmd)
    /\ \A x : Follows(x, s) <=> /\ m.cmd = "do" => Covers(x, m.val)
                                /\ Follows(IF m.cmd = "cfg" THEN m.val ELSE x, t)
(* What the first frame does to a reader.                                  *)
LEMMA LessOf ==
    ASSUME NEW v \in Nat, NEW t \in Seq(Frames(v)), NEW m \in Frames(v), NEW s, s = <<m>> \o t
    PROVE  Less(s, m, t)
  <1>. DEFINE h == <<m>>
  <1>1. h \in Seq(Frames(v)) /\ s = h \o t
    OBVIOUS
  <1>2. \A x, cmd : After(x, h, cmd) = IF m.cmd = cmd THEN m.val ELSE x
    BY AfterOne
  <1>3. \A x : Follows(x, h) <=> (m.cmd = "do" => Covers(x, m.val))
    BY FollowsOne
  <1>. HIDE DEF h
  <1>4. \A x, cmd : After(x, s, cmd) = After(After(x, h, cmd), t, cmd)
    BY <1>1, AfterConcat, SMTT(30)
  <1>5. \A x : Follows(x, s) <=> Follows(x, h) /\ Follows(After(x, h, "cfg"), t)
    BY <1>1, FollowsConcat, SMTT(30)
  <1>6. \A x, cmd : After(x, s, cmd) = After(IF m.cmd = cmd THEN m.val ELSE x, t, cmd)
    BY <1>2, <1>4
  <1>7. \A x : Follows(x, s) <=> /\ m.cmd = "do" => Covers(x, m.val)
                                 /\ Follows(IF m.cmd = "cfg" THEN m.val ELSE x, t)
    <2>. TAKE x
    <2>1. After(x, h, "cfg") = IF m.cmd = "cfg" THEN m.val ELSE x
      BY <1>2
    <2>2. Follows(x, s) <=> Follows(x, h) /\ Follows(After(x, h, "cfg"), t)
      BY <1>5
    <2>3. Follows(x, h) <=> (m.cmd = "do" => Covers(x, m.val))
      BY <1>3
    <2>. QED BY <2>1, <2>2, <2>3
  <1>. QED BY <1>6, <1>7 DEF Less

(* The faster lanes hold no configs or trees.                              *)
LEMMA FastLane ==
    ASSUME NEW v \in Nat, NEW l, l # Bulk, NEW s, LaneOK(l, s, v), NEW cmd \in {"cfg", "tree"}
    PROVE  ~Has(s, cmd) /\ \A x : After(x, s, cmd) = x
  <1>1. s \in Seq(Frames(v)) /\ \A i \in 1 .. Len(s) : s[i] \in Frames(v) /\ s[i].lane = l
    BY DEF LaneOK
  <1>2. ~Has(s, cmd)
    BY <1>1 DEF Has, Frames, Keyed
  <1>. QED BY <1>1, <1>2, AfterNone

(* The parts of Relaned.                                                   *)
LEMMA RelanedIs ==
    ASSUME NEW v \in Nat, NEW c, Sound(c, v), NEW l \in Lanes, NEW s, NEW h, NEW k
    PROVE  /\ Relaned(c, l, s, h, k).cfg = h /\ Relaned(c, l, s, h, k).tree = k
           /\ Relaned(c, l, s, h, k).lanes[l] = s
           /\ \A i \in Lanes : i # l => Relaned(c, l, s, h, k).lanes[i] = c.lanes[i]
  BY DEF Relaned, Sound, QueueRec

(* Every lane of a sound queue.                                            *)
LEMMA SoundLane ==
    ASSUME NEW v \in Nat, NEW c, Sound(c, v), NEW l \in Lanes
    PROVE  /\ LaneOK(l, c.lanes[l], v) /\ c.lanes[l] \in Seq(Frames(v)) /\ c.bytes[l] = SumSize(c.lanes[l])
           /\ SumSize(c.lanes[l]) \in Nat /\ c.total \in Nat
           /\ c.cfg \in Nat \cup {Own} /\ c.tree \in Nat \cup {Own}
           /\ c = [lanes |-> c.lanes, bytes |-> c.bytes, total |-> c.total, cfg |-> c.cfg, tree |-> c.tree]
           /\ DOMAIN c.lanes = Lanes /\ DOMAIN c.bytes = Lanes
           /\ c.lanes \in [Lanes -> Seq(Frames(v))] /\ c.bytes \in [Lanes -> Nat]
  <1>1. c \in QueueRec(v) /\ LaneOK(l, c.lanes[l], v) /\ c.bytes[l] = SumSize(c.lanes[l])
    BY DEF Sound
  <1>2. SumSize(c.lanes[l]) \in Nat
    BY <1>1, LaneSize DEF LaneOK
  <1>. QED BY <1>1, <1>2 DEF QueueRec, LaneOK

(* A queue field by field, and with some of them changed.                  *)
FiveFields(c) == c = [lanes |-> c.lanes, bytes |-> c.bytes, total |-> c.total, cfg |-> c.cfg, tree |-> c.tree]
(* Holding changes the frames, Standing what counts as sent.               *)
LEMMA HoldingIs ==
    ASSUME NEW c, FiveFields(c), NEW a, NEW b, NEW t
    PROVE  Holding(c, a, b, t) = [lanes |-> a, bytes |-> b, total |-> t, cfg |-> c.cfg, tree |-> c.tree]
  <1>. DEFINE La == c.lanes
              By == c.bytes
              To == c.total
              Cf == c.cfg
              Tr == c.tree
  <1>1. c = [lanes |-> La, bytes |-> By, total |-> To, cfg |-> Cf, tree |-> Tr]
    BY DEF FiveFields
  <1>. HIDE DEF La, By, To, Cf, Tr
  <1>. DEFINE d == Holding(c, a, b, t)
  <1>2. d = [c EXCEPT !.lanes = a, !.bytes = b, !.total = t]
    BY DEF Holding
  <1>. HIDE DEF d
  <1>3. d = [lanes |-> a, bytes |-> b, total |-> t, cfg |-> Cf, tree |-> Tr]
    BY <1>1, <1>2
  <1>. QED BY <1>3 DEF d, Cf, Tr

(* Standing changes what counts as sent.                                   *)
LEMMA StandingIs ==
    ASSUME NEW c, FiveFields(c), NEW h, NEW k
    PROVE  Standing(c, h, k) = [lanes |-> c.lanes, bytes |-> c.bytes, total |-> c.total, cfg |-> h, tree |-> k]
  <1>. DEFINE La == c.lanes
              By == c.bytes
              To == c.total
              Cf == c.cfg
              Tr == c.tree
  <1>1. c = [lanes |-> La, bytes |-> By, total |-> To, cfg |-> Cf, tree |-> Tr]
    BY DEF FiveFields
  <1>. HIDE DEF La, By, To, Cf, Tr
  <1>. DEFINE d == Standing(c, h, k)
  <1>2. d = [c EXCEPT !.cfg = h, !.tree = k]
    BY DEF Standing
  <1>. HIDE DEF d
  <1>3. d = [lanes |-> La, bytes |-> By, total |-> To, cfg |-> h, tree |-> k]
    BY <1>1, <1>2
  <1>. QED BY <1>3 DEF d, La, By, To

(* A sound queue has its five fields.                                      *)
LEMMA SoundFields ==
    ASSUME NEW v \in Nat, NEW c, Sound(c, v)
    PROVE  FiveFields(c)
  BY DEF Sound, QueueRec, FiveFields

(* Put: the lane has one more.                                             *)
LEMMA PutIs ==
    ASSUME NEW v \in Nat, NEW c, Sound(c, v), NEW m \in Frames(v), Keyed(m) => ~Has(c.lanes[m.lane], m.cmd)
    PROVE  /\ Put(c, m) = Relaned(c, m.lane, c.lanes[m.lane] \o <<m>>, c.cfg, c.tree)
           /\ LaneOK(m.lane, c.lanes[m.lane] \o <<m>>, v) /\ Sound(Put(c, m), v)
  <1>. DEFINE l == m.lane
              s == c.lanes[l]
              w == s \o <<m>>
  <1>1. l \in Lanes
    BY FrameSize DEF Msg
  <1>. HIDE DEF l
  <1>2. /\ LaneOK(l, s, v) /\ c.bytes[l] = SumSize(s) /\ SumSize(s) \in Nat /\ c.total \in Nat
        /\ c.cfg \in Nat \cup {Own} /\ c.tree \in Nat \cup {Own}
        /\ c = [lanes |-> c.lanes, bytes |-> c.bytes, total |-> c.total, cfg |-> c.cfg, tree |-> c.tree]
    BY <1>1, SoundLane
  <1>. HIDE DEF s
  <1>3. LaneOK(l, w, v) /\ SumSize(w) = SumSize(s) + SizeOf(m) /\ Append(s, m) = w
    BY <1>2, LaneAppend DEF l, s
  <1>4. SizeOf(m) \in Nat
    BY FrameSize
  <1>. HIDE DEF w
  <1>5. Put(c, m) = [lanes |-> [c.lanes EXCEPT ![l] = Append(@, m)], bytes |-> [c.bytes EXCEPT ![l] = @ + SizeOf(m)],
                     total |-> c.total + SizeOf(m), cfg |-> c.cfg, tree |-> c.tree]
    <2>1. Put(c, m) = Holding(c, [c.lanes EXCEPT ![l] = Append(@, m)], [c.bytes EXCEPT ![l] = @ + SizeOf(m)], c.total + SizeOf(m))
      BY DEF Put, l
    <2>. DEFINE a == [c.lanes EXCEPT ![l] = Append(@, m)]
                b == [c.bytes EXCEPT ![l] = @ + SizeOf(m)]
                t == c.total + SizeOf(m)
    <2>2. FiveFields(c)
      BY SoundFields
    <2>3. Put(c, m) = Holding(c, a, b, t)
      BY <2>1
    <2>. HIDE DEF a, b, t
    <2>4. Put(c, m) = [lanes |-> a, bytes |-> b, total |-> t, cfg |-> c.cfg, tree |-> c.tree]
      BY <2>2, <2>3, HoldingIs
    <2>. QED BY <2>4 DEF a, b, t
  <1>6. [c.lanes EXCEPT ![l] = Append(@, m)] = [c.lanes EXCEPT ![l] = w]
    BY <1>3 DEF s
  <1>7. [c.bytes EXCEPT ![l] = @ + SizeOf(m)] = [c.bytes EXCEPT ![l] = SumSize(w)]
    BY <1>2, <1>3
  <1>8. c.total + SizeOf(m) = (c.total - SumSize(s)) + SumSize(w)
    BY <1>2, <1>3, <1>4
  <1>9. Put(c, m) = Relaned(c, l, w, c.cfg, c.tree)
    BY <1>5, <1>6, <1>7, <1>8 DEF Relaned, s
  <1>10. Sound(Relaned(c, l, w, c.cfg, c.tree), v)
    BY <1>1, <1>2, <1>3, RelanedSound
  <1>. QED BY <1>3, <1>9, <1>10 DEF l, s, w

(* DropOldest: the lane has lost its first, and what it stood for.         *)
LEMMA DropIs ==
    ASSUME NEW v \in Nat, NEW c, Sound(c, v), NEW l \in Lanes, c.lanes[l] # <<>>
    PROVE  /\ DropOldest(c, l) = Relaned(c, l, Tail(c.lanes[l]),
                                         IF Head(c.lanes[l]).cmd = "cfg" THEN Own ELSE c.cfg,
                                         IF Head(c.lanes[l]).cmd = "tree" THEN Own ELSE c.tree)
           /\ Sound(DropOldest(c, l), v)
  <1>. DEFINE s == c.lanes[l]
              o == Head(s)
              h == IF o.cmd = "cfg" THEN Own ELSE c.cfg
              k == IF o.cmd = "tree" THEN Own ELSE c.tree
  <1>2. /\ LaneOK(l, s, v) /\ c.bytes[l] = SumSize(s) /\ SumSize(s) \in Nat /\ c.total \in Nat
        /\ c.cfg \in Nat \cup {Own} /\ c.tree \in Nat \cup {Own}
        /\ c = [lanes |-> c.lanes, bytes |-> c.bytes, total |-> c.total, cfg |-> c.cfg, tree |-> c.tree]
    BY SoundLane
  <1>. HIDE DEF s
  <1>3. LaneOK(l, Tail(s), v) /\ o \in Frames(v) /\ SumSize(s) = SizeOf(o) + SumSize(Tail(s))
    BY <1>2, LaneTail DEF s
  <1>4. SizeOf(o) \in Nat /\ SumSize(Tail(s)) \in Nat
    BY <1>3, FrameSize, LaneSize DEF LaneOK
  <1>. HIDE DEF o
  <1>5. DropOldest(c, l) = [lanes |-> [c.lanes EXCEPT ![l] = Tail(@)], bytes |-> [c.bytes EXCEPT ![l] = @ - SizeOf(o)],
                            total |-> c.total - SizeOf(o), cfg |-> h, tree |-> k]
    <2>1. ("cfg" \in {o.cmd} <=> o.cmd = "cfg") /\ ("tree" \in {o.cmd} <=> o.cmd = "tree")
      OBVIOUS
    <2>. DEFINE e == Holding(c, [c.lanes EXCEPT ![l] = Tail(@)], [c.bytes EXCEPT ![l] = @ - SizeOf(o)], c.total - SizeOf(o))
    <2>2. DropOldest(c, l) = cfg_push_lost(e, {o.cmd})
      BY DEF DropOldest, o, s
    <2>3. e = [lanes |-> [c.lanes EXCEPT ![l] = Tail(@)], bytes |-> [c.bytes EXCEPT ![l] = @ - SizeOf(o)],
               total |-> c.total - SizeOf(o), cfg |-> c.cfg, tree |-> c.tree]
      <3>. DEFINE a == [c.lanes EXCEPT ![l] = Tail(@)]
                  b == [c.bytes EXCEPT ![l] = @ - SizeOf(o)]
                  t == c.total - SizeOf(o)
      <3>1. FiveFields(c)
        BY SoundFields
      <3>2. e = Holding(c, a, b, t)
        OBVIOUS
      <3>. HIDE DEF a, b, t, h, k, e
      <3>3. e = [lanes |-> a, bytes |-> b, total |-> t, cfg |-> c.cfg, tree |-> c.tree]
        BY <3>1, <3>2, HoldingIs
      <3>. QED BY <3>3 DEF a, b, t
    <2>4. FiveFields(e)
      BY <2>3 DEF FiveFields
    <2>. HIDE DEF e
    <2>5. cfg_push_lost(e, {o.cmd}) = [lanes |-> e.lanes, bytes |-> e.bytes, total |-> e.total, cfg |-> h, tree |-> k]
      BY <2>1, <2>3, <2>4, StandingIs, SMTT(30) DEF cfg_push_lost
    <2>. QED BY <2>2, <2>3, <2>5
  <1>6. [c.lanes EXCEPT ![l] = Tail(@)] = [c.lanes EXCEPT ![l] = Tail(s)]
    BY DEF s
  <1>7. [c.bytes EXCEPT ![l] = @ - SizeOf(o)] = [c.bytes EXCEPT ![l] = SumSize(Tail(s))]
    BY <1>2, <1>3, <1>4
  <1>8. c.total - SizeOf(o) = (c.total - SumSize(s)) + SumSize(Tail(s))
    BY <1>2, <1>3, <1>4
  <1>9. h \in Nat \cup {Own} /\ k \in Nat \cup {Own}
    BY <1>2
  <1>. HIDE DEF h, k
  <1>10. DropOldest(c, l) = Relaned(c, l, Tail(s), h, k)
    BY <1>5, <1>6, <1>7, <1>8 DEF Relaned, s
  <1>11. Sound(Relaned(c, l, Tail(s), h, k), v)
    BY <1>2, <1>3, <1>9, RelanedSound
  <1>. QED BY <1>10, <1>11 DEF s, h, k, o

(* What became of a lane s that is w after m came, g the command of the    *)
(* frame that went.                                                        *)
Became(s, w, m, v, g) ==
    /\ Keyed(m) => \A x : After(x, w, m.cmd) = m.val
    /\ \A x : \A cmd \in {"cfg", "tree"} : cmd # m.cmd /\ cmd # g => After(x, w, cmd) = After(x, s, cmd)
    /\ g # "cfg" /\ (m.cmd = "cfg" => m.val = v /\ v \in Versions)
         => \A x : Follows(x, s) /\ (m.cmd = "do" => Covers(After(x, s, "cfg"), m.val)) => Follows(x, w)

(* The queue c after m came, as w in its lane.                             *)
Came(c, w, m, g) ==
    Relaned(c, m.lane, w, IF g = "cfg" THEN Own ELSE c.cfg, IF g = "tree" THEN Own ELSE c.tree)

(* A frame at the end of the lane.                                         *)
LEMMA PutBecame ==
    ASSUME NEW v \in Nat, NEW s \in Seq(Frames(v)), NEW m \in Frames(v)
    PROVE  Became(s, s \o <<m>>, m, v, "none")
  <1>. DEFINE w == s \o <<m>>
  <1>0. w = s \o <<m>>
    OBVIOUS
  <1>. HIDE DEF w
  <1>1. More(s, m, w)
    BY <1>0, MoreOf
  <1>2. Became(s, w, m, v, "none")
    BY <1>1 DEF Became, More
  <1>. QED BY <1>2 DEF w

(* The first of the lane goes and the frame comes at its end.              *)
LEMMA DropBecame ==
    ASSUME NEW v \in Nat, NEW s, NEW l, LaneOK(l, s, v), s # <<>>, NEW m \in Frames(v)
    PROVE  Became(s, Tail(s) \o <<m>>, m, v, Head(s).cmd)
  <1>. DEFINE t == Tail(s)
              o == Head(s)
              w == t \o <<m>>
  <1>1. t \in Seq(Frames(v)) /\ o \in Frames(v) /\ s = <<o>> \o t
    BY LaneTail DEF LaneOK
  <1>. HIDE DEF t, o
  <1>0. w = t \o <<m>>
    OBVIOUS
  <1>. HIDE DEF w
  <1>2. More(t, m, w)
    BY <1>0, <1>1, MoreOf
  <1>3. Less(s, o, t)
    BY <1>1, LessOf
  <1>4. ASSUME Keyed(m), NEW x PROVE After(x, w, m.cmd) = m.val
    BY <1>2 DEF More
  <1>5. ASSUME NEW x, NEW cmd, cmd # m.cmd, cmd # o.cmd PROVE After(x, w, cmd) = After(x, s, cmd)
    BY <1>2, <1>3, <1>5 DEF More, Less
  <1>6. ASSUME NEW x, o.cmd # "cfg", Follows(x, s), m.cmd = "do" => Covers(After(x, s, "cfg"), m.val)
        PROVE  Follows(x, w)
    <2>1. After(x, s, "cfg") = After(x, t, "cfg") /\ Follows(x, t)
      BY <1>3, <1>6 DEF Less
    <2>. QED BY <2>1, <1>2, <1>6 DEF More
  <1>7. Became(s, w, m, v, o.cmd)
    BY <1>4, <1>5, <1>6 DEF Became
  <1>. QED BY <1>7 DEF w, t, o

(* enqueue: a frame replaced, put at the end, put for the oldest, or       *)
(* refused.                                                                *)
LEMMA EnqueueIs ==
    ASSUME NEW v \in Nat, NEW c, Sound(c, v), NEW m \in Frames(v)
    PROVE  \E w, g : /\ LaneOK(m.lane, w, v) /\ Became(c.lanes[m.lane], w, m, v, g)
                     /\ enqueue(c, m) = Came(c, w, m, g)
                     /\ g = "cfg" <=> LosesConfig(c, m)
  <1>. DEFINE l == m.lane
              s == c.lanes[l]
              Is(w, g) == /\ LaneOK(l, w, v) /\ Became(s, w, m, v, g)
                          /\ enqueue(c, m) = Came(c, w, m, g)
                          /\ g = "cfg" <=> LosesConfig(c, m)
  <1>1. l \in Lanes
    BY FrameSize DEF Msg
  <1>2. /\ LaneOK(l, s, v) /\ s \in Seq(Frames(v)) /\ c.bytes[l] = SumSize(s) /\ SumSize(s) \in Nat /\ c.total \in Nat
        /\ c.cfg \in Nat \cup {Own} /\ c.tree \in Nat \cup {Own}
        /\ c = [lanes |-> c.lanes, bytes |-> c.bytes, total |-> c.total, cfg |-> c.cfg, tree |-> c.tree]
        /\ DOMAIN c.lanes = Lanes /\ DOMAIN c.bytes = Lanes
        /\ c.lanes \in [Lanes -> Seq(Frames(v))] /\ c.bytes \in [Lanes -> Nat]
    BY <1>1, SoundLane
  <1>3. SUFFICES \E w, g : Is(w, g)
    OBVIOUS
  <1>4. CASE Twin(c, m) # {}
    <2>. DEFINE i == CHOOSE i \in Twin(c, m) : TRUE
                more == SizeOf(m) - SizeOf(s[i])
                w == [s EXCEPT ![i] = m]
    <2>1. i \in Twin(c, m)
      BY <1>4
    <2>2. enqueue(c, m) = Holding(c, [c.lanes EXCEPT ![l] = [@ EXCEPT ![i] = m]], [c.bytes EXCEPT ![l] = @ + more], c.total + more)
      BY <1>4 DEF enqueue
    <2>. HIDE DEF i
    <2>3. i \in 1 .. Len(s) /\ Keyed(m) /\ s[i].cmd = m.cmd
      BY <2>1 DEF Twin
    <2>. HIDE DEF l, s
    <2>4. LaneOK(l, w, v) /\ Resized(s, s[i], m, w) /\ Reset(s, m, w, v)
      <3>1. m.lane = l
        BY DEF l
      <3>2. w = [s EXCEPT ![i] = m]
        OBVIOUS
      <3>3. LaneOK(l, s, v)
        BY <1>2
      <3>. HIDE DEF w
      <3>. QED BY <2>3, <3>1, <3>2, <3>3, LaneSet
    <2>5. [c.lanes EXCEPT ![l] = [@ EXCEPT ![i] = m]] = [c.lanes EXCEPT ![l] = w]
      BY DEF s
    <2>. HIDE DEF w
    <2>6. [c.bytes EXCEPT ![l] = @ + more] = [c.bytes EXCEPT ![l] = SumSize(w)] /\ c.total + more = (c.total - SumSize(s)) + SumSize(w)
      <3>1. SumSize(s) + more = SumSize(w) /\ c.total + more = (c.total - SumSize(s)) + SumSize(w)
        BY <1>2, <2>4 DEF Resized
      <3>. HIDE DEF more
      <3>. QED BY <1>1, <1>2, <3>1
    <2>7. enqueue(c, m) = Came(c, w, m, "none")
      <3>1. enqueue(c, m) = [lanes |-> [c.lanes EXCEPT ![l] = w], bytes |-> [c.bytes EXCEPT ![l] = SumSize(w)],
                             total |-> (c.total - SumSize(s)) + SumSize(w), cfg |-> c.cfg, tree |-> c.tree]
        <4>. DEFINE a == [c.lanes EXCEPT ![l] = w]
                    b == [c.bytes EXCEPT ![l] = SumSize(w)]
                    t == (c.total - SumSize(s)) + SumSize(w)
        <4>1. FiveFields(c)
          BY SoundFields
        <4>2. enqueue(c, m) = Holding(c, a, b, t)
          BY <2>2, <2>5, <2>6
        <4>. HIDE DEF a, b, t
        <4>3. enqueue(c, m) = [lanes |-> a, bytes |-> b, total |-> t, cfg |-> c.cfg, tree |-> c.tree]
          BY <4>1, <4>2, HoldingIs
        <4>. QED BY <4>3 DEF a, b, t
      <3>. QED BY <3>1 DEF Came, Relaned, l, s
    <2>8. Became(s, w, m, v, "none")
      BY <2>4 DEF Became, Reset
    <2>9. ~LosesConfig(c, m)
      BY <1>4 DEF LosesConfig
    <2>10. Is(w, "none")
      BY <2>4, <2>7, <2>8, <2>9
    <2>. QED BY <2>10
  <1>5. CASE Twin(c, m) = {} /\ (~Full(c, m) \/ (m.lane # Urgent /\ s = <<>>))
    <2>1. enqueue(c, m) = Put(c, m)
      BY <1>5 DEF enqueue
    <2>2. Keyed(m) => ~Has(s, m.cmd)
      BY <1>5 DEF Twin, Has
    <2>3. Put(c, m) = Relaned(c, l, s \o <<m>>, c.cfg, c.tree) /\ LaneOK(l, s \o <<m>>, v)
      BY <2>2, PutIs
    <2>4. Became(s, s \o <<m>>, m, v, "none")
      BY <1>2, PutBecame
    <2>5. ~LosesConfig(c, m)
      BY <1>5 DEF LosesConfig
    <2>. DEFINE w == s \o <<m>>
    <2>6. Came(c, w, m, "none") = Relaned(c, l, w, c.cfg, c.tree)
      BY DEF Came
    <2>. HIDE DEF w
    <2>7. Is(w, "none")
      BY <2>1, <2>3, <2>4, <2>5, <2>6 DEF w
    <2>. QED BY <2>7
  <1>6. CASE Twin(c, m) = {} /\ Full(c, m) /\ m.lane # Urgent /\ s # <<>>
    <2>. DEFINE d == DropOldest(c, l)
                o == Head(s)
                t == Tail(s)
                w == t \o <<m>>
                h == IF o.cmd = "cfg" THEN Own ELSE c.cfg
                k == IF o.cmd = "tree" THEN Own ELSE c.tree
    <2>1. enqueue(c, m) = Put(d, m)
      BY <1>6 DEF enqueue
    <2>2. Keyed(m) => ~Has(s, m.cmd)
      BY <1>6 DEF Twin, Has
    <2>3. d = Relaned(c, l, t, h, k) /\ Sound(d, v)
      BY <1>1, <1>6, DropIs
    <2>4. LaneOK(l, t, v) /\ SameHas(s)
      BY <1>2, <1>6, LaneTail
    <2>5. Became(s, w, m, v, o.cmd)
      BY <1>2, <1>6, DropBecame
    <2>. HIDE DEF d, t, h, k
    <2>6. d.lanes[l] = t /\ d.cfg = h /\ d.tree = k /\ SumSize(t) \in Nat
      BY <1>1, <2>3, <2>4, RelanedIs, LaneSize DEF LaneOK
    <2>7. Keyed(m) => ~Has(d.lanes[l], m.cmd)
      BY <2>2, <2>4, <2>6 DEF SameHas, t
    <2>8. Put(d, m) = Relaned(d, l, w, h, k) /\ LaneOK(l, w, v)
      BY <2>3, <2>6, <2>7, PutIs
    <2>9. SumSize(w) \in Nat
      BY <2>8, LaneSize DEF LaneOK
    <2>. HIDE DEF w, s, l
    <2>10. /\ d.lanes = [c.lanes EXCEPT ![l] = t] /\ d.bytes = [c.bytes EXCEPT ![l] = SumSize(t)]
           /\ d.total = (c.total - SumSize(s)) + SumSize(t)
      BY <2>3 DEF Relaned, s
    <2>11. /\ [d.lanes EXCEPT ![l] = w] = [c.lanes EXCEPT ![l] = w]
           /\ [d.bytes EXCEPT ![l] = SumSize(w)] = [c.bytes EXCEPT ![l] = SumSize(w)]
           /\ (d.total - SumSize(d.lanes[l])) + SumSize(w) = (c.total - SumSize(s)) + SumSize(w)
      <3>1. [d.lanes EXCEPT ![l] = w] = [c.lanes EXCEPT ![l] = w]
        BY <1>1, <1>2, <2>10
      <3>2. [d.bytes EXCEPT ![l] = SumSize(w)] = [c.bytes EXCEPT ![l] = SumSize(w)]
        BY <1>1, <1>2, <2>10
      <3>3. (d.total - SumSize(t)) + SumSize(w) = (c.total - SumSize(s)) + SumSize(w)
        BY <1>2, <2>6, <2>9, <2>10
      <3>. QED BY <3>1, <3>2, <3>3, <2>6
    <2>12. Relaned(d, l, w, h, k) = Relaned(c, l, w, h, k)
      BY <2>11 DEF Relaned, s
    <2>13. enqueue(c, m) = Came(c, w, m, o.cmd)
      BY <2>1, <2>8, <2>12 DEF Came, l, h, k
    <2>14. o.cmd = "cfg" <=> LosesConfig(c, m)
      BY <1>6 DEF LosesConfig, l, s
    <2>15. Is(w, o.cmd)
      BY <2>5, <2>8, <2>13, <2>14
    <2>. QED BY <2>15
  <1>7. CASE Twin(c, m) = {} /\ Full(c, m) /\ m.lane = Urgent
    <2>1. enqueue(c, m) = c
      BY <1>7 DEF enqueue
    <2>2. ~Keyed(m)
      BY <1>7 DEF Frames, Urgent, Bulk
    <2>3. m.cmd # "cfg" /\ m.cmd # "tree"
      BY <2>2 DEF Keyed
    <2>4. Became(s, s, m, v, "none")
      BY <2>2 DEF Became
    <2>5. ~LosesConfig(c, m)
      BY <1>7 DEF LosesConfig
    <2>. HIDE DEF l, s
    <2>6. [c.lanes EXCEPT ![l] = s] = c.lanes /\ [c.bytes EXCEPT ![l] = SumSize(s)] = c.bytes /\ (c.total - SumSize(s)) + SumSize(s) = c.total
      <3>1. [c.lanes EXCEPT ![l] = s] = c.lanes
        BY <1>1, <1>2 DEF s
      <3>2. [c.bytes EXCEPT ![l] = SumSize(s)] = c.bytes
        BY <1>1, <1>2
      <3>. QED BY <3>1, <3>2, <1>2
    <2>7. Relaned(c, l, s, c.cfg, c.tree) = [lanes |-> c.lanes, bytes |-> c.bytes, total |-> c.total, cfg |-> c.cfg, tree |-> c.tree]
      BY <2>6 DEF Relaned, s
    <2>8. enqueue(c, m) = Came(c, s, m, "none")
      BY <2>1, <2>7, <1>2 DEF Came, l
    <2>9. Is(s, "none")
      BY <1>2, <2>4, <2>5, <2>8
    <2>. QED BY <2>9
  <1>. QED BY <1>4, <1>5, <1>6, <1>7

(* What enqueue of m makes of the queue c: the books stay sound, a config  *)
(* or tree is the newest of its kind, a kind that lost its newest no       *)
(* longer stands as sent, and unless a config went commands still find     *)
(* theirs.                                                                 *)
Unsent(c, d, m) ==
    /\ d.cfg = Own \/ (d.cfg = c.cfg /\ (m.cmd # "cfg" => \A x : After(x, d.lanes[Bulk], "cfg") = After(x, c.lanes[Bulk], "cfg")))
    /\ d.tree = Own \/ (d.tree = c.tree /\ (m.cmd # "tree" => \A x : After(x, d.lanes[Bulk], "tree") = After(x, c.lanes[Bulk], "tree")))
Unbroken(c, d, m, v) ==
    /\ m.cmd # "cfg" => \A x : After(x, d.lanes[Bulk], "cfg") = After(x, c.lanes[Bulk], "cfg")
    /\ (m.cmd = "cfg" => m.val = v /\ v \in Versions)
         => \A x : Follows(x, c.lanes[m.lane]) /\ (m.cmd = "do" => Covers(After(x, c.lanes[m.lane], "cfg"), m.val))
                     => Follows(x, d.lanes[m.lane])
Elsewhere(c, d, l) == \A i \in Lanes : i # l => d.lanes[i] = c.lanes[i]
Newer(d, m) == \A x : After(x, d.lanes[Bulk], m.cmd) = m.val
(* enqueue keeps the queue sound and says what it lost.                    *)
LEMMA EnqueueKeeps ==
    ASSUME NEW v \in Nat, NEW c, Sound(c, v), NEW m \in Frames(v), NEW d, d = enqueue(c, m)
    PROVE  /\ Sound(d, v) /\ Elsewhere(c, d, m.lane) /\ Unsent(c, d, m)
           /\ Keyed(m) => Newer(d, m)
           /\ ~LosesConfig(c, m) => Unbroken(c, d, m, v)
  <1>1. PICK w, g : /\ LaneOK(m.lane, w, v) /\ Became(c.lanes[m.lane], w, m, v, g)
                    /\ enqueue(c, m) = Came(c, w, m, g)
                    /\ g = "cfg" <=> LosesConfig(c, m)
    BY EnqueueIs
  <1>. DEFINE l == m.lane
              h == IF g = "cfg" THEN Own ELSE c.cfg
              k == IF g = "tree" THEN Own ELSE c.tree
  <1>2. l \in Lanes /\ (Keyed(m) => l = Bulk)
    BY FrameSize DEF Msg, Frames
  <1>3. d = Relaned(c, l, w, h, k)
    BY <1>1 DEF Came
  <1>4. h \in Nat \cup {Own} /\ k \in Nat \cup {Own}
    BY <1>2, SoundLane
  <1>. HIDE DEF h, k, l
  <1>5. Sound(d, v)
    BY <1>1, <1>2, <1>3, <1>4, RelanedSound DEF l
  <1>6. d.cfg = h /\ d.tree = k /\ d.lanes[l] = w /\ \A i \in Lanes : i # l => d.lanes[i] = c.lanes[i]
    BY <1>2, <1>3, RelanedIs
  <1>7. /\ Keyed(m) => \A x : After(x, w, m.cmd) = m.val
        /\ \A x : \A cmd \in {"cfg", "tree"} : cmd # m.cmd /\ cmd # g => After(x, w, cmd) = After(x, c.lanes[l], cmd)
        /\ g # "cfg" /\ (m.cmd = "cfg" => m.val = v /\ v \in Versions)
             => \A x : Follows(x, c.lanes[l]) /\ (m.cmd = "do" => Covers(After(x, c.lanes[l], "cfg"), m.val)) => Follows(x, w)
    BY <1>1 DEF Became, l
  <1>8. ASSUME NEW cmd \in {"cfg", "tree"}, cmd # m.cmd, cmd # g, NEW x
        PROVE  After(x, d.lanes[Bulk], cmd) = After(x, c.lanes[Bulk], cmd)
    <2>1. CASE l = Bulk
      BY <2>1, <1>6, <1>7, <1>8
    <2>2. CASE l # Bulk
      BY <2>2, <1>6, ThreeLanes
    <2>. QED BY <2>1, <2>2
  <1>9. Unsent(c, d, m)
    <2>1. d.cfg = Own \/ (d.cfg = c.cfg /\ g # "cfg")
      BY <1>6 DEF h
    <2>2. d.tree = Own \/ (d.tree = c.tree /\ g # "tree")
      BY <1>6 DEF k
    <2>. QED BY <2>1, <2>2, <1>8 DEF Unsent
  <1>10. Keyed(m) => Newer(d, m)
    BY <1>2, <1>6, <1>7 DEF Newer
  <1>11. ASSUME ~LosesConfig(c, m) PROVE Unbroken(c, d, m, v)
    <2>1. g # "cfg"
      BY <1>1, <1>11
    <2>2. ASSUME m.cmd # "cfg", NEW x PROVE After(x, d.lanes[Bulk], "cfg") = After(x, c.lanes[Bulk], "cfg")
      BY <2>1, <2>2, <1>8
    <2>3. ASSUME m.cmd = "cfg" => m.val = v /\ v \in Versions, NEW x, Follows(x, c.lanes[l]),
                 m.cmd = "do" => Covers(After(x, c.lanes[l], "cfg"), m.val)
          PROVE  Follows(x, d.lanes[l])
      BY <2>1, <2>3, <1>6, <1>7
    <2>. QED BY <2>2, <2>3 DEF Unbroken, l
  <1>12. Elsewhere(c, d, m.lane)
    BY <1>6 DEF Elsewhere, l
  <1>. QED BY <1>5, <1>9, <1>10, <1>11, <1>12

(* What stands as sent is no matter of the lanes.                          *)
Sent == Nat \cup {Own}
SameLoss(c, d) == \A m : LosesConfig(d, m) <=> LosesConfig(c, m)
(* A queue is sound whatever stands as sent.                               *)
LEMMA StandingSound ==
    ASSUME NEW v \in Nat, NEW c, Sound(c, v), NEW h \in Sent, NEW k \in Sent, NEW d, d = Standing(c, h, k)
    PROVE  /\ Sound(d, v) /\ d.lanes = c.lanes /\ d.cfg = h /\ d.tree = k
           /\ SameLoss(c, d)
  <1>1. d.lanes = c.lanes /\ d.bytes = c.bytes /\ d.total = c.total /\ d.cfg = h /\ d.tree = k
        /\ d = [lanes |-> d.lanes, bytes |-> d.bytes, total |-> d.total, cfg |-> d.cfg, tree |-> d.tree]
    BY SoundFields, StandingIs
  <1>2. c \in QueueRec(v)
    BY DEF Sound
  <1>3. d \in QueueRec(v)
    BY <1>1, <1>2 DEF QueueRec, Sent
  <1>4. Sound(d, v)
    BY <1>1, <1>3 DEF Sound
  <1>5. ASSUME NEW m PROVE LosesConfig(d, m) <=> LosesConfig(c, m)
    BY <1>1 DEF LosesConfig, Twin, Full
  <1>. QED BY <1>1, <1>4, <1>5 DEF SameLoss

(* A config sent: it is the newest, and stands as sent.                    *)
ConfigSent(c, d, v) ==
    /\ Elsewhere(c, d, Bulk) /\ d.cfg = Content[v]
    /\ \A x : After(x, d.lanes[Bulk], "cfg") = v
    /\ d.tree = Own \/ (d.tree = c.tree /\ \A x : After(x, d.lanes[Bulk], "tree") = After(x, c.lanes[Bulk], "tree"))
    /\ ~LosesConfig(c, CfgMsg) => \A x : Follows(x, c.lanes[Bulk]) => Follows(x, d.lanes[Bulk])
(* send_config_to_bot sends the config, or it stands as sent already.      *)
LEMMA SendConfig ==
    ASSUME cfg \in Versions, NEW c, Sound(c, cfg), NEW force \in BOOLEAN, NEW d, d = send_config_to_bot(c, force)
    PROVE  /\ Sound(d, cfg)
           /\ IF Sends(c, force) THEN ConfigSent(c, d, cfg) ELSE d = c /\ c.cfg = Content[cfg]
  <1>1. cfg \in Nat /\ Content[cfg] \in Nat
    BY OutQueueAssumption DEF Versions
  <1>2. CASE ~Sends(c, force)
    BY <1>2 DEF Sends, send_config_to_bot
  <1>3. CASE Sends(c, force)
    <2>. DEFINE a == Standing(c, Own, c.tree)
                b == enqueue(a, CfgMsg)
                m == CfgMsg
    <2>1. d = Standing(b, Content[cfg], b.tree)
      BY <1>3 DEF Sends, send_config_to_bot
    <2>2. m \in Frames(cfg) /\ m.cmd = "cfg" /\ m.lane = Bulk /\ m.val = cfg /\ Keyed(m)
      BY <1>1, ThreeLanes DEF CfgMsg, Frames, Msg, Keyed
    <2>3. c.tree \in Sent /\ Own \in Sent /\ Content[cfg] \in Sent
      BY <1>1, ThreeLanes, SoundLane DEF Sent
    <2>4. a = Standing(c, Own, c.tree) /\ b = enqueue(a, m) /\ m = CfgMsg
      OBVIOUS
    <2>. HIDE DEF a, b, m
    <2>5. Sound(a, cfg) /\ a.lanes = c.lanes /\ a.tree = c.tree /\ (LosesConfig(a, m) <=> LosesConfig(c, m))
      <3>1. Sound(a, cfg) /\ a.lanes = c.lanes /\ a.tree = c.tree /\ SameLoss(c, a)
        BY <1>1, <2>3, <2>4, StandingSound, SMTT(30)
      <3>. QED BY <3>1 DEF SameLoss
    <2>6. /\ Sound(b, cfg) /\ Elsewhere(a, b, m.lane) /\ Unsent(a, b, m) /\ Newer(b, m)
          /\ ~LosesConfig(a, m) => Unbroken(a, b, m, cfg)
      BY <1>1, <2>2, <2>4, <2>5, EnqueueKeeps
    <2>7. b.tree \in Sent
      BY <1>1, <2>6, ThreeLanes, SoundLane DEF Sent
    <2>8. Sound(d, cfg) /\ d.lanes = b.lanes /\ d.tree = b.tree /\ d.cfg = Content[cfg]
      <3>1. Sound(b, cfg) /\ cfg \in Nat /\ Content[cfg] \in Sent
        BY <1>1, <2>3, <2>6
      <3>. QED BY <3>1, <2>1, <2>7, StandingSound
    <2>9. Elsewhere(c, d, Bulk)
      BY <2>2, <2>5, <2>6, <2>8 DEF Elsewhere
    <2>10. \A x : After(x, d.lanes[Bulk], "cfg") = cfg
      BY <2>2, <2>6, <2>8 DEF Newer
    <2>11. d.tree = Own \/ (d.tree = c.tree /\ \A x : After(x, d.lanes[Bulk], "tree") = After(x, c.lanes[Bulk], "tree"))
      BY <2>2, <2>5, <2>6, <2>8 DEF Unsent
    <2>12. ASSUME ~LosesConfig(c, m), NEW x, Follows(x, c.lanes[Bulk]) PROVE Follows(x, d.lanes[Bulk])
      BY <2>2, <2>5, <2>6, <2>8, <2>12 DEF Unbroken
    <2>13. ConfigSent(c, d, cfg)
      BY <2>4, <2>8, <2>9, <2>10, <2>11, <2>12 DEF ConfigSent
    <2>. QED BY <1>3, <2>8, <2>13
  <1>. QED BY <1>2, <1>3

(* A config read stays a version or the bot's own; somebody with tables of *)
(* its own finds every config it needs; more versions take more frames.    *)
LEMMA AfterType ==
    ASSUME NEW v \in Nat, NEW s \in Seq(Frames(v)), NEW x \in Versions \cup {Own}
    PROVE  After(x, s, "cfg") \in Versions \cup {Own}
  <1>1. CASE Passes(s, "cfg")
    BY <1>1 DEF Passes
  <1>2. CASE Shows(s, "cfg")
    <2>1. PICK i \in 1 .. Len(s) : s[i].cmd = "cfg" /\ \A y : After(y, s, "cfg") = s[i].val
      BY <1>2 DEF Shows
    <2>2. s[i] \in Frames(v)
      OBVIOUS
    <2>. QED BY <2>1, <2>2 DEF Frames
  <1>. QED BY <1>1, <1>2, LastIs

(* Somebody with tables of its own finds every config it needs.            *)
LEMMA OwnFollows ==
    ASSUME NEW v \in Nat, NEW s \in Seq(Frames(v)), NEW x
    PROVE  /\ After(Own, s, "cfg") \in {Own, After(x, s, "cfg")}
           /\ Follows(x, s) => Follows(Own, s)
  <1>1. ASSUME NEW p PROVE After(Own, p, "cfg") \in {Own, After(x, p, "cfg")}
    BY DEF After
  <1>2. ASSUME Follows(x, s) PROVE Follows(Own, s)
    <2>. SUFFICES ASSUME NEW i \in 1 .. Len(s), s[i].cmd = "do"
                  PROVE  Covers(After(Own, SubSeq(s, 1, i - 1), "cfg"), s[i].val)
      BY DEF Follows
    <2>. DEFINE p == SubSeq(s, 1, i - 1)
    <2>1. Covers(After(x, p, "cfg"), s[i].val)
      BY <1>2 DEF Follows
    <2>. HIDE DEF p
    <2>2. After(Own, p, "cfg") = Own \/ After(Own, p, "cfg") = After(x, p, "cfg")
      BY <1>1
    <2>3. Covers(After(Own, p, "cfg"), s[i].val)
      BY <2>1, <2>2 DEF Covers
    <2>. QED BY <2>3 DEF p
  <1>. QED BY <1>1, <1>2

(* A later version takes the same frames.                                  *)
LEMMA LaterFrames ==
    ASSUME NEW v \in Nat
    PROVE  /\ Frames(v) \subseteq Frames(v + 1) /\ Seq(Frames(v)) \subseteq Seq(Frames(v + 1))
           /\ \A c : Sound(c, v) => Sound(c, v + 1)
  <1>1. Frames(v) \subseteq Frames(v + 1)
    BY DEF Frames, Msg
  <1>2. Seq(Frames(v)) \subseteq Seq(Frames(v + 1))
    BY <1>1
  <1>3. ASSUME NEW l, NEW s, LaneOK(l, s, v) PROVE LaneOK(l, s, v + 1)
    BY <1>2, <1>3 DEF LaneOK
  <1>4. QueueRec(v) \subseteq QueueRec(v + 1)
    BY <1>2 DEF QueueRec
  <1>5. ASSUME NEW c, Sound(c, v) PROVE Sound(c, v + 1)
    BY <1>3, <1>4, <1>5 DEF Sound
  <1>. QED BY <1>1, <1>2, <1>5

-----------------------------------------------------------------------------
(* A drain.  A sequence in two parts.                                      *)
Cat(o, s, t) == o = s \o t
Joined(s, t, w) ==
    /\ Len(w) = Len(s) + Len(t)
    /\ \A i \in 1 .. Len(s) : w[i] = s[i]
    /\ \A i \in 1 .. Len(t) : w[Len(s) + i] = t[i]
(* The places of a sequence in two parts.                                  *)
LEMMA JoinIs ==
    ASSUME NEW S, NEW s \in Seq(S), NEW t \in Seq(S), NEW w, Cat(w, s, t)
    PROVE  Joined(s, t, w)
  BY DEF Joined, Cat

(* It is the only one.                                                     *)
LEMMA JoinedIs ==
    ASSUME NEW S, NEW s \in Seq(S), NEW t \in Seq(S), NEW w \in Seq(S), Joined(s, t, w)
    PROVE  w = s \o t
  <1>. DEFINE o == s \o t
  <1>1. o \in Seq(S) /\ Joined(s, t, o)
    BY JoinIs, ConcatProperties DEF Cat
  <1>. HIDE DEF o
  <1>2. Len(s) \in Nat /\ Len(t) \in Nat /\ Len(o) = Len(w) /\ Len(w) = Len(s) + Len(t)
    BY <1>1 DEF Joined
  <1>3. ASSUME NEW i \in 1 .. Len(w) PROVE o[i] = w[i]
    <2>1. CASE i <= Len(s)
      <3>1. i \in 1 .. Len(s)
        BY <2>1, <1>2
      <3>. QED BY <3>1, <1>1 DEF Joined
    <2>2. CASE i > Len(s)
      <3>1. i - Len(s) \in 1 .. Len(t) /\ Len(s) + (i - Len(s)) = i
        BY <2>2, <1>2
      <3>2. o[Len(s) + (i - Len(s))] = t[i - Len(s)] /\ w[Len(s) + (i - Len(s))] = t[i - Len(s)]
        BY <3>1, <1>1 DEF Joined
      <3>. QED BY <3>1, <3>2
    <2>. QED BY <2>1, <2>2, <1>2
  <1>4. w = o
    BY <1>1, <1>2, <1>3, SeqEqual
  <1>. QED BY <1>4 DEF o

(* A sequence in two parts, cut.                                           *)
Cut(s, t, u, n, a, b) ==
    /\ SubSeq(u, 1, n) = SubSeq(s, 1, a) \o SubSeq(t, 1, b)
    /\ SubSeq(u, n + 1, Len(u)) = SubSeq(s, a + 1, Len(s)) \o SubSeq(t, b + 1, Len(t))
(* The cut goes through one of the parts.                                  *)
LEMMA CutConcat ==
    ASSUME NEW S, NEW s \in Seq(S), NEW t \in Seq(S), NEW u \in Seq(S), Cat(u, s, t),
           NEW a \in 0 .. Len(s), NEW b \in 0 .. Len(t), b > 0 => a = Len(s), NEW n, n = a + b
    PROVE  Cut(s, t, u, n, a, b)
  <1>1. Joined(s, t, u)
    BY JoinIs
  <1>2. /\ Len(s) \in Nat /\ Len(t) \in Nat /\ Len(u) = Len(s) + Len(t)
        /\ (\A i \in 1 .. Len(s) : u[i] = s[i])
        /\ (\A i \in 1 .. Len(t) : u[Len(s) + i] = t[i])
    BY <1>1 DEF Joined
  <1>3. a \in 0 .. Len(s) /\ b \in 0 .. Len(t) /\ n = a + b /\ (b > 0 => a = Len(s)) /\ (a < Len(s) => n = a) /\ n \in Nat
    BY <1>2
  <1>. DEFINE sa == SubSeq(s, 1, a)
              sb == SubSeq(s, a + 1, Len(s))
              ta == SubSeq(t, 1, b)
              tb == SubSeq(t, b + 1, Len(t))
              ua == SubSeq(u, 1, n)
              ub == SubSeq(u, n + 1, Len(u))
  <1>4. /\ sa \in Seq(S) /\ sb \in Seq(S) /\ Len(sa) = a /\ Len(sb) = Len(s) - a
        /\ \A i \in 1 .. a : sa[i] = s[i]
        /\ \A i \in 1 .. Len(s) - a : sb[i] = s[a + i]
    BY <1>3, SplitAt
  <1>5. /\ ta \in Seq(S) /\ tb \in Seq(S) /\ Len(ta) = b /\ Len(tb) = Len(t) - b
        /\ \A i \in 1 .. b : ta[i] = t[i]
        /\ \A i \in 1 .. Len(t) - b : tb[i] = t[b + i]
    BY <1>3, SplitAt
  <1>6. /\ ua \in Seq(S) /\ ub \in Seq(S) /\ Len(ua) = n /\ Len(ub) = Len(u) - n
        /\ \A i \in 1 .. n : ua[i] = u[i]
        /\ \A i \in 1 .. Len(u) - n : ub[i] = u[n + i]
    <2>1. n \in 0 .. Len(u)
      BY <1>2, <1>3
    <2>. QED BY <2>1, SplitAt
  <1>. HIDE DEF sa, sb, ta, tb, ua, ub
  <1>9. /\ Len(s) \in Int /\ Len(t) \in Int /\ Len(u) = Len(s) + Len(t) /\ n = a + b
        /\ a \in Int /\ b \in Int /\ 0 <= a /\ 0 <= b /\ a <= Len(s) /\ b <= Len(t)
    BY <1>2, <1>3
  <1>7. ua = sa \o ta
    <2>1. ASSUME NEW i \in 1 .. a PROVE ua[i] = sa[i]
      <3>1. i \in 1 .. n /\ i \in 1 .. Len(s)
        BY <1>2, <1>3
      <3>. QED BY <3>1, <1>2, <1>4, <1>6
    <2>2. ASSUME NEW i \in 1 .. b PROVE ua[a + i] = ta[i]
      <3>1. a + i \in 1 .. n /\ i \in 1 .. Len(t) /\ a = Len(s)
        BY <1>2, <1>3
      <3>2. ua[a + i] = u[Len(s) + i]
        BY <3>1, <1>6
      <3>. QED BY <3>1, <3>2, <1>2, <1>5
    <2>3. Joined(sa, ta, ua)
      BY <2>1, <2>2, <1>3, <1>4, <1>5, <1>6 DEF Joined
    <2>. QED BY <2>3, <1>4, <1>5, <1>6, JoinedIs
  <1>8. ub = sb \o tb
    <2>5. Len(u) - n = (Len(s) - a) + (Len(t) - b)
      BY <1>9
    <2>1. ASSUME NEW i \in 1 .. Len(s) - a PROVE ub[i] = sb[i]
      <3>1. i \in 1 .. Len(u) - n /\ a + i \in 1 .. Len(s) /\ n + i = a + i
        BY <1>2, <1>3
      <3>2. ub[i] = u[n + i]
        BY <3>1, <1>6
      <3>3. u[a + i] = s[a + i]
        BY <3>1, <1>2
      <3>4. sb[i] = s[a + i]
        BY <1>4
      <3>. QED BY <3>1, <3>2, <3>3, <3>4
    <2>2. ASSUME NEW i \in 1 .. Len(t) - b PROVE ub[(Len(s) - a) + i] = tb[i]
      <3>1. (Len(s) - a) + i \in 1 .. Len(u) - n
        BY <1>9
      <3>2. n + ((Len(s) - a) + i) = Len(s) + (b + i) /\ b + i \in 1 .. Len(t)
        BY <1>2, <1>3
      <3>3. ub[(Len(s) - a) + i] = u[Len(s) + (b + i)]
        BY <3>1, <3>2, <1>6
      <3>. QED BY <3>2, <3>3, <1>2, <1>5
    <2>4. Len(ub) = (Len(s) - a) + (Len(t) - b)
      BY <2>5, <1>6
    <2>3. Joined(sb, tb, ub)
      BY <2>1, <2>2, <2>4, <1>4, <1>5 DEF Joined
    <2>. QED BY <2>3, <1>4, <1>5, <1>6, JoinedIs
  <1>. QED BY <1>3, <1>7, <1>8 DEF Cut, sa, sb, ta, tb, ua, ub

(* All but the last, and the last.                                         *)
LEMMA FrontLast ==
    ASSUME NEW S, NEW s \in Seq(S), s # <<>>
    PROVE  Front(s) \in Seq(S) /\ Last(s) \in S /\ s = Front(s) \o <<Last(s)>> /\ Len(Front(s)) = Len(s) - 1
  <1>. DEFINE n == Len(s) - 1
              p == SubSeq(s, 1, n)
              f == SubSeq(s, n + 1, Len(s))
  <1>1. Len(s) \in Nat /\ n \in 0 .. Len(s) /\ Len(s) = n + 1
    OBVIOUS
  <1>4. Front(s) = p /\ Last(s) = s[Len(s)]
    BY DEF Front, Last
  <1>. HIDE DEF n
  <1>2. p \in Seq(S) /\ f \in Seq(S) /\ s = p \o f /\ Len(p) = n /\ Len(f) = Len(s) - n
        /\ \A i \in 1 .. Len(s) - n : f[i] = s[n + i]
    BY <1>1, SplitAt
  <1>. HIDE DEF p, f
  <1>3. f = <<s[Len(s)]>>
    <2>1. Len(f) = 1 /\ f[1] = s[Len(s)] /\ s[Len(s)] \in S
      BY <1>1, <1>2
    <2>. QED BY <2>1, <1>2
  <1>5. s[Len(s)] \in S
    BY <1>1
  <1>. QED BY <1>1, <1>2, <1>3, <1>4, <1>5 DEF n

(* The three lanes one after the other.                                    *)
Together(x, u, d, b, o) ==
    /\ \A cmd \in {"cfg", "tree"} : After(x, o, cmd) = After(x, b, cmd)
    /\ Follows(x, o) <=> Follows(x, u) /\ Follows(x, d) /\ Follows(x, b)
(* Their bytes add up, and a reader of all three reads the BULK lane.      *)
LEMMA LanesTogether ==
    ASSUME NEW v \in Nat, NEW u, LaneOK(Urgent, u, v), NEW d, LaneOK(DeltaL, d, v), NEW b, LaneOK(Bulk, b, v),
           NEW o, Cat(o, u \o d, b)
    PROVE  /\ o \in Seq(Frames(v))
           /\ SumSize(o) = (SumSize(u) + SumSize(d)) + SumSize(b)
           /\ SumSize(u) \in Nat /\ SumSize(d) \in Nat /\ SumSize(b) \in Nat
           /\ \A x : Together(x, u, d, b, o)
  <1>. DEFINE w == u \o d
  <1>1. u \in Seq(Frames(v)) /\ d \in Seq(Frames(v)) /\ b \in Seq(Frames(v))
    BY DEF LaneOK
  <1>2. w \in Seq(Frames(v)) /\ SumSize(w) = SumSize(u) + SumSize(d) /\ SumSize(u) \in Nat /\ SumSize(d) \in Nat
    BY <1>1, SumConcat, ConcatProperties
  <1>3. \A x, cmd : After(x, w, cmd) = After(After(x, u, cmd), d, cmd)
    BY <1>1, AfterConcat
  <1>4. \A x : Follows(x, w) <=> Follows(x, u) /\ Follows(After(x, u, "cfg"), d)
    BY <1>1, FollowsConcat
  <1>0. o = w \o b
    BY DEF Cat
  <1>. HIDE DEF w
  <1>5. o \in Seq(Frames(v)) /\ SumSize(o) = SumSize(w) + SumSize(b) /\ SumSize(b) \in Nat
    BY <1>0, <1>1, <1>2, SumConcat, ConcatProperties
  <1>6. \A x, cmd : After(x, o, cmd) = After(After(x, w, cmd), b, cmd)
    BY <1>0, <1>1, <1>2, AfterConcat
  <1>7. \A x : Follows(x, o) <=> Follows(x, w) /\ Follows(After(x, w, "cfg"), b)
    BY <1>0, <1>1, <1>2, FollowsConcat
  <1>8. \A cmd \in {"cfg", "tree"} : \A x : After(x, u, cmd) = x /\ After(x, d, cmd) = x
    <2>1. Urgent # Bulk /\ DeltaL # Bulk
      BY DEF Urgent, DeltaL, Bulk
    <2>. SUFFICES ASSUME NEW cmd \in {"cfg", "tree"}, NEW x PROVE After(x, u, cmd) = x /\ After(x, d, cmd) = x
      OBVIOUS
    <2>2. After(x, u, cmd) = x
      BY <2>1, FastLane
    <2>3. After(x, d, cmd) = x
      BY <2>1, FastLane
    <2>. QED BY <2>2, <2>3
  <1>9. ASSUME NEW x PROVE Together(x, u, d, b, o)
    <2>1. \A cmd \in {"cfg", "tree"} : After(x, o, cmd) = After(x, b, cmd)
      BY <1>3, <1>6, <1>8
    <2>2. After(x, u, "cfg") = x /\ After(x, w, "cfg") = x
      BY <1>3, <1>8
    <2>. QED BY <2>1, <2>2, <1>4, <1>7 DEF Together
  <1>. QED BY <1>2, <1>5, <1>9

(* Frames that move on towards the socket are read as before.              *)
Moved(x, a, b, c, p, f) ==
    /\ \A cmd : After(After(x, a \o p, cmd), f, cmd) = After(After(After(x, a, cmd), b, cmd), c, cmd)
    /\ Follows(x, a) /\ Follows(After(x, a, "cfg"), b) /\ Follows(After(After(x, a, "cfg"), b, "cfg"), c)
         => Follows(x, a \o p) /\ Follows(After(x, a \o p, "cfg"), f)
(* It makes no difference to the reader where the frames are.              *)
LEMMA MoveOn ==
    ASSUME NEW v \in Nat, NEW a \in Seq(Frames(v)), NEW b \in Seq(Frames(v)), NEW c \in Seq(Frames(v)),
           NEW p \in Seq(Frames(v)), NEW f \in Seq(Frames(v)), NEW o, Cat(o, p, f), Cat(o, b, c), NEW x
    PROVE  Moved(x, a, b, c, p, f)
  <1>. DEFINE w == a \o p
              y(cmd) == After(x, a, cmd)
  <1>10. o = p \o f /\ o = b \o c
    BY DEF Cat
  <1>11. \A cmd : After(y(cmd), b \o c, cmd) = After(After(y(cmd), b, cmd), c, cmd)
    BY AfterConcat
  <1>12. \A cmd : After(y(cmd), p \o f, cmd) = After(After(y(cmd), p, cmd), f, cmd)
    BY AfterConcat
  <1>3. \A cmd : After(x, w, cmd) = After(y(cmd), p, cmd)
    BY AfterConcat
  <1>14. Follows(y("cfg"), b \o c) <=> Follows(y("cfg"), b) /\ Follows(After(y("cfg"), b, "cfg"), c)
    BY FollowsConcat
  <1>15. Follows(y("cfg"), p \o f) <=> Follows(y("cfg"), p) /\ Follows(After(y("cfg"), p, "cfg"), f)
    BY FollowsConcat
  <1>6. Follows(x, w) <=> Follows(x, a) /\ Follows(y("cfg"), p)
    BY FollowsConcat
  <1>. HIDE DEF w, y
  <1>1. \A cmd : After(y(cmd), o, cmd) = After(After(y(cmd), b, cmd), c, cmd)
    BY <1>10, <1>11, Zenon
  <1>2. \A cmd : After(y(cmd), o, cmd) = After(After(y(cmd), p, cmd), f, cmd)
    BY <1>10, <1>12, Zenon
  <1>4. Follows(y("cfg"), o) <=> Follows(y("cfg"), b) /\ Follows(After(y("cfg"), b, "cfg"), c)
    BY <1>10, <1>14, Zenon
  <1>5. Follows(y("cfg"), o) <=> Follows(y("cfg"), p) /\ Follows(After(y("cfg"), p, "cfg"), f)
    BY <1>10, <1>15, Zenon
  <1>7. \A cmd : After(After(x, w, cmd), f, cmd) = After(After(y(cmd), b, cmd), c, cmd)
    BY <1>1, <1>2, <1>3
  <1>8. Follows(x, a) /\ Follows(y("cfg"), b) /\ Follows(After(y("cfg"), b, "cfg"), c)
          => Follows(x, w) /\ Follows(After(x, w, "cfg"), f)
    BY <1>3, <1>4, <1>5, <1>6
  <1>. QED BY <1>7, <1>8 DEF Moved, w, y

(* n places taken from three rows, the first before the second.            *)
TakenAs(n, lu, ld, lb, tu, td, tb) ==
    /\ tu = IF n <= 0 THEN 0 ELSE IF n - 0 >= lu THEN lu ELSE n - 0
    /\ td = IF n <= lu THEN 0 ELSE IF n - lu >= ld THEN ld ELSE n - lu
    /\ tb = IF n <= lu + ld THEN 0 ELSE IF n - (lu + ld) >= lb THEN lb ELSE n - (lu + ld)
InTurn(n, lu, ld, lb, tu, td, tb) ==
    /\ tu \in 0 .. lu /\ td \in 0 .. ld /\ tb \in 0 .. lb
    /\ (td > 0 => tu = lu) /\ n = (tu + td) + tb /\ (tb > 0 => tu + td = lu + ld)
(* The places taken of each row.                                           *)
LEMMA TakenSum ==
    ASSUME NEW lu \in Nat, NEW ld \in Nat, NEW lb \in Nat, NEW n, n \in 0 .. (lu + ld) + lb,
           NEW tu, NEW td, NEW tb, TakenAs(n, lu, ld, lb, tu, td, tb)
    PROVE  InTurn(n, lu, ld, lb, tu, td, tb)
  <1>. USE DEF TakenAs, InTurn
  <1>1. CASE n <= lu
    <2>1. tu = n /\ td = 0 /\ tb = 0
      BY <1>1
    <2>. QED BY <2>1, <1>1
  <1>2. CASE n > lu /\ n <= lu + ld
    <2>1. tu = lu /\ td = n - lu /\ tb = 0
      BY <1>2
    <2>. QED BY <2>1, <1>2
  <1>3. CASE n > lu + ld
    <2>1. tu = lu /\ td = ld /\ tb = n - (lu + ld)
      BY <1>3
    <2>. QED BY <2>1, <1>3
  <1>. QED BY <1>1, <1>2, <1>3

(* What a drain of n frames leaves of a lane, and of all of them.          *)
Rest(l, n) == SubSeq(q.lanes[l], Taken(l, n) + 1, Len(q.lanes[l]))
First(n) == SubSeq(Order, 1, n)
Others(n) == SubSeq(Order, n + 1, Len(Order))
(* A drain takes from each lane in turn.                                   *)
LEMMA DrainCut ==
    ASSUME NEW v \in Nat, Sound(q, v), NEW n \in 0 .. Len(Order)
    PROVE  /\ \A l \in Lanes : Taken(l, n) \in 0 .. Len(q.lanes[l])
           /\ Order \in Seq(Frames(v)) /\ SumSize(Order) = q.total
           /\ \A x : Together(x, q.lanes[Urgent], q.lanes[DeltaL], q.lanes[Bulk], Order)
           /\ Cat(Others(n), Rest(Urgent, n) \o Rest(DeltaL, n), Rest(Bulk, n))
  <1>. DEFINE u == q.lanes[Urgent]
              d == q.lanes[DeltaL]
              b == q.lanes[Bulk]
              w == u \o d
              tu == Taken(Urgent, n)
              td == Taken(DeltaL, n)
              tb == Taken(Bulk, n)
              a == tu + td
  <1>1. LaneOK(Urgent, u, v) /\ LaneOK(DeltaL, d, v) /\ LaneOK(Bulk, b, v)
    BY ThreeLanes DEF Sound
  <1>2. q.total = (SumSize(u) + SumSize(d)) + SumSize(b)
    BY DEF Sound
  <1>3. u \in Seq(Frames(v)) /\ d \in Seq(Frames(v)) /\ b \in Seq(Frames(v)) /\ Len(u) \in Nat /\ Len(d) \in Nat /\ Len(b) \in Nat
    BY <1>1 DEF LaneOK
  <1>4. Order = w \o b /\ Cat(Order, u \o d, b)
    BY DEF Order, Cat
  <1>5. TakenAs(n, Len(u), Len(d), Len(b), tu, td, tb)
    BY DEF TakenAs, Taken, Urgent, DeltaL, Bulk
  <1>. HIDE DEF u, d, b, tu, td, tb
  <1>6. w \in Seq(Frames(v)) /\ Len(w) = Len(u) + Len(d)
    BY <1>3, ConcatProperties
  <1>7. Cat(w, u, d)
    BY DEF Cat
  <1>. HIDE DEF w
  <1>8. Order \in Seq(Frames(v)) /\ Len(Order) = Len(w) + Len(b)
    BY <1>3, <1>4, <1>6, ConcatProperties
  <1>. DEFINE o == Order
  <1>9. Cat(o, w, b) /\ o \in Seq(Frames(v)) /\ n \in 0 .. (Len(u) + Len(d)) + Len(b)
    BY <1>4, <1>6, <1>8 DEF Cat
  <1>. HIDE DEF o
  <1>10. /\ tu \in 0 .. Len(u) /\ td \in 0 .. Len(d) /\ tb \in 0 .. Len(b)
         /\ (td > 0 => tu = Len(u)) /\ n = (tu + td) + tb /\ (tb > 0 => tu + td = Len(u) + Len(d))
    <2>1. InTurn(n, Len(u), Len(d), Len(b), tu, td, tb)
      BY <1>3, <1>5, <1>9, TakenSum
    <2>. QED BY <2>1 DEF InTurn
  <1>11. a \in 0 .. Len(w) /\ (tb > 0 => a = Len(w)) /\ n = a + tb /\ a = tu + td
    BY <1>3, <1>6, <1>10
  <1>. HIDE DEF a
  <1>12. Cut(w, b, o, n, a, tb)
    BY <1>3, <1>6, <1>9, <1>10, <1>11, CutConcat
  <1>13. Cut(u, d, w, a, tu, td)
    BY <1>3, <1>6, <1>7, <1>10, <1>11, CutConcat
  <1>14. SubSeq(o, n + 1, Len(o)) = (SubSeq(u, tu + 1, Len(u)) \o SubSeq(d, td + 1, Len(d))) \o SubSeq(b, tb + 1, Len(b))
    BY <1>12, <1>13 DEF Cut
  <1>15. Cat(Others(n), Rest(Urgent, n) \o Rest(DeltaL, n), Rest(Bulk, n))
    BY <1>14 DEF Cat, Others, Rest, o, u, d, b, tu, td, tb
  <1>16. SumSize(Order) = q.total /\ \A x : Together(x, u, d, b, Order)
    BY <1>1, <1>2, <1>4, LanesTogether
  <1>17. \A l \in Lanes : Taken(l, n) \in 0 .. Len(q.lanes[l])
    BY <1>10, ThreeLanes DEF tu, td, tb, u, d, b
  <1>. QED BY <1>8, <1>15, <1>16, <1>17 DEF u, d, b

(* The commands of the frames dropped on the way.                          *)
Bad(n) == {Order[k].cmd : k \in {k \in 1 .. n : ~Fits(Order[k])}}
(* The queue a drain leaves is sound.                                      *)
LEMMA DrainedIs ==
    ASSUME NEW v \in Nat, Sound(q, v), NEW n \in 0 .. Len(Order), NEW d, d = Drained(n)
    PROVE  /\ Sound(d, v) /\ \A l \in Lanes : d.lanes[l] = Rest(l, n)
           /\ d.cfg = IF "cfg" \in Bad(n) THEN Own ELSE q.cfg
           /\ d.tree = IF "tree" \in Bad(n) THEN Own ELSE q.tree
           /\ \A x : Together(x, d.lanes[Urgent], d.lanes[DeltaL], d.lanes[Bulk], Others(n))
           /\ First(n) \in Seq(Frames(v)) /\ Others(n) \in Seq(Frames(v)) /\ Cat(Order, First(n), Others(n))
  <1>1. /\ \A l \in Lanes : Taken(l, n) \in 0 .. Len(q.lanes[l])
        /\ Order \in Seq(Frames(v)) /\ SumSize(Order) = q.total
        /\ Cat(Others(n), Rest(Urgent, n) \o Rest(DeltaL, n), Rest(Bulk, n))
    BY DrainCut
  <1>2. /\ d.lanes = [l \in Lanes |-> Rest(l, n)]
        /\ d.bytes = [l \in Lanes |-> q.bytes[l] - SumSize(SubSeq(q.lanes[l], 1, Taken(l, n)))]
        /\ d.total = q.total - SumSize(First(n))
        /\ d.cfg = IF "cfg" \in Bad(n) THEN Own ELSE q.cfg
        /\ d.tree = IF "tree" \in Bad(n) THEN Own ELSE q.tree
        /\ d = [lanes |-> d.lanes, bytes |-> d.bytes, total |-> d.total, cfg |-> d.cfg, tree |-> d.tree]
    <2>. DEFINE e == Holding(q, [l \in Lanes |-> Rest(l, n)],
                                [l \in Lanes |-> q.bytes[l] - SumSize(SubSeq(q.lanes[l], 1, Taken(l, n)))],
                                q.total - SumSize(First(n)))
    <2>1. d = cfg_push_lost(e, Bad(n))
      BY DEF Drained, Rest, First, Bad
    <2>2. e = [lanes |-> [l \in Lanes |-> Rest(l, n)],
               bytes |-> [l \in Lanes |-> q.bytes[l] - SumSize(SubSeq(q.lanes[l], 1, Taken(l, n)))],
               total |-> q.total - SumSize(First(n)), cfg |-> q.cfg, tree |-> q.tree]
      <3>. DEFINE a == [l \in Lanes |-> Rest(l, n)]
                  b == [l \in Lanes |-> q.bytes[l] - SumSize(SubSeq(q.lanes[l], 1, Taken(l, n)))]
                  t == q.total - SumSize(First(n))
      <3>1. FiveFields(q)
        BY SoundFields
      <3>2. e = Holding(q, a, b, t)
        OBVIOUS
      <3>. HIDE DEF a, b, t, e
      <3>3. e = [lanes |-> a, bytes |-> b, total |-> t, cfg |-> q.cfg, tree |-> q.tree]
        BY <3>1, <3>2, HoldingIs
      <3>. QED BY <3>3 DEF a, b, t
    <2>3. FiveFields(e)
      BY <2>2 DEF FiveFields
    <2>. HIDE DEF e
    <2>4. d = [lanes |-> e.lanes, bytes |-> e.bytes, total |-> e.total,
               cfg |-> IF "cfg" \in Bad(n) THEN Own ELSE e.cfg, tree |-> IF "tree" \in Bad(n) THEN Own ELSE e.tree]
      BY <2>1, <2>3, StandingIs DEF cfg_push_lost
    <2>. QED BY <2>2, <2>4
  <1>3. ASSUME NEW l \in Lanes
        PROVE  /\ LaneOK(l, Rest(l, n), v) /\ d.lanes[l] = Rest(l, n) /\ Rest(l, n) \in Seq(Frames(v))
               /\ d.bytes[l] = SumSize(Rest(l, n)) /\ SumSize(Rest(l, n)) \in Nat
    <2>. DEFINE s == q.lanes[l]
                t == Taken(l, n)
                f == SubSeq(s, 1, t)
                r == SubSeq(s, t + 1, Len(s))
    <2>1. LaneOK(l, s, v) /\ s \in Seq(Frames(v)) /\ q.bytes[l] = SumSize(s)
      BY SoundLane
    <2>2. t \in 0 .. Len(s)
      BY <1>1
    <2>3. d.bytes[l] = q.bytes[l] - SumSize(f) /\ d.lanes[l] = Rest(l, n) /\ r = Rest(l, n)
      BY <1>2 DEF Rest
    <2>. HIDE DEF s, t
    <2>4. LaneOK(l, r, v)
      BY <2>1, <2>2, LaneRest
    <2>5. f \in Seq(Frames(v)) /\ r \in Seq(Frames(v)) /\ s = f \o r
      BY <2>1, <2>2, SplitAt
    <2>. HIDE DEF f, r
    <2>6. SumSize(f \o r) = SumSize(f) + SumSize(r) /\ SumSize(f) \in Nat /\ SumSize(r) \in Nat
      BY <2>5, SumConcat
    <2>7. d.bytes[l] = SumSize(r)
      BY <2>1, <2>3, <2>5, <2>6
    <2>. QED BY <2>3, <2>4, <2>5, <2>6, <2>7
  <1>4. Order = First(n) \o Others(n) /\ First(n) \in Seq(Frames(v)) /\ Others(n) \in Seq(Frames(v))
    BY <1>1, SplitAt DEF First, Others
  <1>5. SumSize(First(n) \o Others(n)) = SumSize(First(n)) + SumSize(Others(n)) /\ SumSize(First(n)) \in Nat /\ SumSize(Others(n)) \in Nat
    BY <1>4, SumConcat
  <1>6. d.total = SumSize(Others(n)) /\ d.total \in Nat
    BY <1>1, <1>2, <1>4, <1>5
  <1>7. /\ LaneOK(Urgent, d.lanes[Urgent], v) /\ LaneOK(DeltaL, d.lanes[DeltaL], v) /\ LaneOK(Bulk, d.lanes[Bulk], v)
        /\ Cat(Others(n), d.lanes[Urgent] \o d.lanes[DeltaL], d.lanes[Bulk])
    BY <1>1, <1>3, ThreeLanes
  <1>8. /\ SumSize(Others(n)) = (SumSize(d.lanes[Urgent]) + SumSize(d.lanes[DeltaL])) + SumSize(d.lanes[Bulk])
        /\ \A x : Together(x, d.lanes[Urgent], d.lanes[DeltaL], d.lanes[Bulk], Others(n))
    BY <1>7, LanesTogether
  <1>9. d \in QueueRec(v)
    <2>1. d.lanes \in [Lanes -> Seq(Frames(v))]
      BY <1>2, <1>3
    <2>2. d.bytes \in [Lanes -> Nat]
      BY <1>2, <1>3
    <2>3. d.cfg \in Nat \cup {Own} /\ d.tree \in Nat \cup {Own}
      BY <1>2, SoundLane, ThreeLanes
    <2>. QED BY <2>1, <2>2, <2>3, <1>2, <1>6 DEF QueueRec
  <1>10. Sound(d, v)
    BY <1>3, <1>6, <1>8, <1>9 DEF Sound
  <1>11. Cat(Order, First(n), Others(n))
    BY <1>4 DEF Cat
  <1>. QED BY <1>2, <1>3, <1>4, <1>8, <1>10, <1>11

(* What goes through the socket and what stays queued are read as the      *)
(* queue was, but for what could not be sealed.                            *)
Through(x, d, z, n) ==
    /\ \A cmd \in {"cfg", "tree"} : cmd \notin Bad(n)
         => After(After(x, z, cmd), d.lanes[Bulk], cmd) = After(x, q.lanes[Bulk], cmd)
    /\ "cfg" \notin Bad(n) /\ (\A l \in Lanes : Follows(x, q.lanes[l]))
         => Follows(x, z) /\ \A l \in Lanes : Follows(After(x, z, "cfg"), d.lanes[l])
(* The bot ends up with the same, and its commands find their config.      *)
LEMMA DrainReads ==
    ASSUME NEW v \in Nat, Sound(q, v), NEW n \in 0 .. Len(Order), NEW d, d = Drained(n), NEW z, z = Sealable(First(n)), NEW x
    PROVE  z \in Seq(Frames(v)) /\ Through(x, d, z, n)
  <1>. DEFINE g == First(n)
              r == Others(n)
              B == q.lanes[Bulk]
              C == d.lanes[Bulk]
  <1>1. g \in Seq(Frames(v)) /\ r \in Seq(Frames(v)) /\ Order = g \o r
        /\ \A y : Together(y, d.lanes[Urgent], d.lanes[DeltaL], C, r)
    BY DrainedIs DEF Cat
  <1>2. /\ \A y : Together(y, q.lanes[Urgent], q.lanes[DeltaL], B, Order)
        /\ Order \in Seq(Frames(v))
    BY DrainCut
  <1>3. ASSUME NEW cmd, cmd \notin Bad(n) PROVE \A i \in 1 .. Len(g) : g[i].cmd = cmd => Fits(g[i])
    <2>1. Len(g) = n /\ \A i \in 1 .. n : g[i] = Order[i]
      BY <1>2, SplitAt DEF First
    <2>. QED BY <2>1, <1>3 DEF Bad
  <1>. HIDE DEF g, r
  <1>4. /\ z \in Seq(Frames(v))
        /\ \A cmd : (\A i \in 1 .. Len(g) : g[i].cmd = cmd => Fits(g[i])) => \A y : After(y, z, cmd) = After(y, g, cmd)
        /\ (\A i \in 1 .. Len(g) : g[i].cmd = "cfg" => Fits(g[i])) => \A y : Follows(y, g) => Follows(y, z)
    <2>1. z = Sealable(g)
      BY DEF g
    <2>. QED BY <1>1, <2>1, SealedKeeps
  <1>5. \A cmd : After(x, Order, cmd) = After(After(x, g, cmd), r, cmd)
    BY <1>1, AfterConcat
  <1>6. Follows(x, Order) <=> Follows(x, g) /\ Follows(After(x, g, "cfg"), r)
    BY <1>1, FollowsConcat
  <1>7. ASSUME NEW cmd \in {"cfg", "tree"}, cmd \notin Bad(n) PROVE After(After(x, z, cmd), C, cmd) = After(x, B, cmd)
    <2>1. After(x, z, cmd) = After(x, g, cmd)
      BY <1>3, <1>4, <1>7
    <2>2. After(After(x, g, cmd), r, cmd) = After(After(x, g, cmd), C, cmd)
      BY <1>1 DEF Together
    <2>3. After(x, Order, cmd) = After(x, B, cmd)
      BY <1>2 DEF Together
    <2>. QED BY <2>1, <2>2, <2>3, <1>5
  <1>8. ASSUME "cfg" \notin Bad(n), \A l \in Lanes : Follows(x, q.lanes[l])
        PROVE  Follows(x, z) /\ \A l \in Lanes : Follows(After(x, z, "cfg"), d.lanes[l])
    <2>1. Follows(x, Order)
      BY <1>2, <1>8, ThreeLanes DEF Together
    <2>2. Follows(x, z) /\ After(x, z, "cfg") = After(x, g, "cfg")
      BY <2>1, <1>3, <1>4, <1>6, <1>8
    <2>3. Follows(After(x, z, "cfg"), r)
      BY <2>1, <2>2, <1>6
    <2>4. Follows(After(x, z, "cfg"), d.lanes[Urgent]) /\ Follows(After(x, z, "cfg"), d.lanes[DeltaL]) /\ Follows(After(x, z, "cfg"), C)
      BY <2>3, <1>1 DEF Together
    <2>. QED BY <2>2, <2>4, ThreeLanes
  <1>9. Through(x, d, z, n)
    BY <1>7, <1>8 DEF Through
  <1>. QED BY <1>4, <1>9

-----------------------------------------------------------------------------
(* The invariant.  What the bot will have when the socket and the frame in *)
(* flight are read; then, for a queue c behind them: what stands as sent   *)
(* is what the bot ends up with (or it has pushed since), it ends up with  *)
(* the config v or a later one, and commands find their config.            *)
Flight == IF writing = None THEN <<>> ELSE <<writing>>
Reach(x, cmd) == After(After(x, socket, cmd), Flight, cmd)
CfgReach == Reach(bot.cfg, "cfg")
TreeReach == Reach(bot.tree, "tree")

CfgBooks(c, x, p) ==
    c.cfg # Own => LET e == After(x, c.lanes[Bulk], "cfg") IN IF e = Own THEN p ELSE Content[e] = c.cfg
TreeBooks(c, y) == c.tree # Own => After(y, c.lanes[Bulk], "tree") = c.tree
ReadyFor(c, x, v) == Covers(After(x, c.lanes[Bulk], "cfg"), v)
AllFollow(c, x) == \A l \in Lanes : Follows(x, c.lanes[l])

OqBase ==
    /\ cfg \in Versions /\ tree \in 0 .. MaxEvents
    /\ pending \in BOOLEAN /\ window \in BOOLEAN /\ bw \in Nat
    /\ linked \in BOOLEAN /\ dead \in BOOLEAN /\ pushed \in BOOLEAN /\ push \in BOOLEAN /\ lost \in BOOLEAN
    /\ bot \in [cfg : Versions \cup {Own}, tree : 0 .. MaxEvents]
    /\ events \in 0 .. MaxEvents
OqShape ==
    /\ Sound(q, cfg) /\ writing \in Frames(cfg) \cup {None} /\ socket \in Seq(Frames(cfg))
    /\ ~linked => q = NewQueue /\ writing = None /\ socket = <<>> /\ ~dead /\ ~push
OqBooks == linked /\ ~dead => CfgBooks(q, CfgReach, push) /\ TreeBooks(q, TreeReach)
OqReady == linked /\ ~dead /\ ~lost /\ pushed /\ ~pending => ReadyFor(q, CfgReach, cfg)
OqDos ==
    ~lost => /\ Follows(bot.cfg, socket)
             /\ ~dead => Follows(After(bot.cfg, socket, "cfg"), Flight) /\ AllFollow(q, CfgReach)
OqInv == OqBase /\ OqShape /\ OqBooks /\ OqReady /\ OqDos

(* The version is a number; None is no frame; what is in flight is one.    *)
LEMMA FlightIs ==
    ASSUME OqBase, OqShape
    PROVE  /\ cfg \in Nat /\ Content[cfg] \in Nat /\ Content[cfg] # Own
           /\ Flight \in Seq(Frames(cfg)) /\ CfgReach \in Versions \cup {Own}
  <1>1. cfg \in Nat /\ Content[cfg] \in Nat /\ Content[cfg] # Own
    BY OutQueueAssumption DEF OqBase, Versions, Own
  <1>2. Flight \in Seq(Frames(cfg))
    BY DEF OqShape, Flight
  <1>3. bot.cfg \in Versions \cup {Own} /\ socket \in Seq(Frames(cfg))
    BY DEF OqBase, OqShape
  <1>4. After(bot.cfg, socket, "cfg") \in Versions \cup {Own}
    BY <1>1, <1>3, AfterType
  <1>5. After(After(bot.cfg, socket, "cfg"), Flight, "cfg") \in Versions \cup {Own}
    BY <1>1, <1>2, <1>4, AfterType
  <1>. QED BY <1>1, <1>2, <1>5 DEF CfgReach, Reach

(* send_config_to_bot keeps the books, and the bot will have the config.   *)
LEMMA SendConfigBooks ==
    ASSUME cfg \in Versions, Content[cfg] # Own, NEW c, Sound(c, cfg), NEW force \in BOOLEAN, NEW d, d = send_config_to_bot(c, force),
           NEW x \in Versions \cup {Own}, NEW y, NEW p, CfgBooks(c, x, p), TreeBooks(c, y)
    PROVE  /\ Sound(d, cfg) /\ CfgBooks(d, x, p) /\ TreeBooks(d, y) /\ ReadyFor(d, x, cfg)
           /\ ~(Sends(c, force) /\ LosesConfig(c, CfgMsg)) /\ AllFollow(c, x) => AllFollow(d, x)
  <1>1. Sound(d, cfg) /\ IF Sends(c, force) THEN ConfigSent(c, d, cfg) ELSE d = c /\ c.cfg = Content[cfg]
    BY SendConfig
  <1>2. cfg # Own /\ \A w \in Versions : Covers(w, w)
    BY OutQueueAssumption DEF Versions, Own, Covers
  <1>3. CASE ~Sends(c, force)
    <2>1. d = c /\ c.cfg = Content[cfg]
      BY <1>1, <1>3
    <2>2. Covers(After(x, c.lanes[Bulk], "cfg"), cfg)
      <3>. DEFINE e == After(x, c.lanes[Bulk], "cfg")
      <3>1. e = Own \/ Content[e] = Content[cfg]
        BY <2>1 DEF CfgBooks
      <3>. HIDE DEF e
      <3>2. Covers(e, cfg)
        BY <3>1, OutQueueAssumption DEF Covers, Versions
      <3>. QED BY <3>2 DEF e
    <2>. QED BY <2>1, <2>2, <1>1, <1>3 DEF ReadyFor
  <1>4. CASE Sends(c, force)
    <2>1. ConfigSent(c, d, cfg)
      BY <1>1, <1>4
    <2>2. d.cfg = Content[cfg] /\ After(x, d.lanes[Bulk], "cfg") = cfg
      BY <2>1 DEF ConfigSent
    <2>3. CfgBooks(d, x, p)
      BY <2>2, <1>2 DEF CfgBooks
    <2>4. ReadyFor(d, x, cfg)
      BY <2>2, <1>2 DEF ReadyFor
    <2>5. TreeBooks(d, y)
      BY <2>1 DEF ConfigSent, TreeBooks
    <2>6. ASSUME ~LosesConfig(c, CfgMsg), AllFollow(c, x) PROVE AllFollow(d, x)
      <3>1. \A i \in Lanes : i # Bulk => Follows(x, d.lanes[i])
        BY <2>1, <2>6 DEF ConfigSent, Elsewhere, AllFollow
      <3>2. Follows(x, d.lanes[Bulk])
        BY <2>1, <2>6, ThreeLanes DEF ConfigSent, AllFollow
      <3>. QED BY <3>1, <3>2 DEF AllFollow
    <2>. QED BY <2>3, <2>4, <2>5, <2>6, <1>1, <1>4
  <1>. QED BY <1>3, <1>4

(* enqueue of anything but a config keeps the books, and unless it costs a *)
(* config the bot loses nothing.                                           *)
LEMMA EnqueueBooks ==
    ASSUME NEW v \in Nat, NEW c, Sound(c, v), NEW m \in Frames(v), m.cmd # "cfg", NEW d, d = enqueue(c, m),
           NEW x, NEW y, NEW p, CfgBooks(c, x, p), IF m.cmd = "tree" THEN c.tree = m.val ELSE TreeBooks(c, y)
    PROVE  /\ Sound(d, v) /\ CfgBooks(d, x, p) /\ TreeBooks(d, y)
           /\ ~LosesConfig(c, m) => /\ ReadyFor(c, x, v) => ReadyFor(d, x, v)
                                    /\ AllFollow(c, x) /\ (m.cmd = "do" => Covers(After(x, c.lanes[m.lane], "cfg"), m.val))
                                         => AllFollow(d, x)
  <1>1. /\ Sound(d, v) /\ Elsewhere(c, d, m.lane) /\ Unsent(c, d, m)
        /\ Keyed(m) => Newer(d, m)
        /\ ~LosesConfig(c, m) => Unbroken(c, d, m, v)
    BY EnqueueKeeps
  <1>2. CfgBooks(d, x, p)
    BY <1>1 DEF CfgBooks, Unsent
  <1>3. TreeBooks(d, y)
    <2>1. CASE m.cmd = "tree"
      <3>1. Newer(d, m) /\ (d.tree = Own \/ d.tree = c.tree)
        BY <2>1, <1>1 DEF Keyed, Unsent
      <3>. QED BY <3>1, <2>1 DEF Newer, TreeBooks
    <2>2. CASE m.cmd # "tree"
      BY <2>2, <1>1 DEF TreeBooks, Unsent
    <2>. QED BY <2>1, <2>2
  <1>4. ASSUME ~LosesConfig(c, m)
        PROVE  /\ ReadyFor(c, x, v) => ReadyFor(d, x, v)
               /\ AllFollow(c, x) /\ (m.cmd = "do" => Covers(After(x, c.lanes[m.lane], "cfg"), m.val)) => AllFollow(d, x)
    <2>1. Unbroken(c, d, m, v)
      BY <1>1, <1>4
    <2>2. ReadyFor(c, x, v) => ReadyFor(d, x, v)
      BY <2>1 DEF Unbroken, ReadyFor
    <2>3. ASSUME AllFollow(c, x), m.cmd = "do" => Covers(After(x, c.lanes[m.lane], "cfg"), m.val) PROVE AllFollow(d, x)
      <3>0. m.lane \in Lanes
        BY FrameSize DEF Msg
      <3>1. Follows(x, d.lanes[m.lane])
        BY <3>0, <2>1, <2>3 DEF Unbroken, AllFollow
      <3>2. \A i \in Lanes : i # m.lane => Follows(x, d.lanes[i])
        BY <2>3, <1>1 DEF Elsewhere, AllFollow
      <3>. QED BY <3>1, <3>2 DEF AllFollow
    <2>. QED BY <2>2, <2>3
  <1>. QED BY <1>1, <1>2, <1>3, <1>4

(* A step that leaves the socket, the frame in flight and the bot alone.   *)
LEMMA QueueStep ==
    ASSUME OqInv, OqBase', UNCHANGED <<writing, linked, dead, socket, bot>>, cfg' = cfg \/ cfg' = cfg + 1,
           Sound(q', cfg'), ~linked => q' = q /\ push' = push,
           linked /\ ~dead => CfgBooks(q', CfgReach, push') /\ TreeBooks(q', TreeReach),
           linked /\ ~dead /\ ~lost' /\ pushed' /\ ~pending' => ReadyFor(q', CfgReach, cfg'),
           lost => lost', ~lost' /\ ~dead => AllFollow(q', CfgReach)
    PROVE  OqInv'
  <1>1. cfg \in Nat
    BY FlightIs DEF OqInv
  <1>2. Frames(cfg) \subseteq Frames(cfg') /\ Seq(Frames(cfg)) \subseteq Seq(Frames(cfg'))
    <2>1. CASE cfg' = cfg + 1
      BY <2>1, <1>1, LaterFrames
    <2>2. CASE cfg' = cfg
      BY <2>2
    <2>. QED BY <2>1, <2>2
  <1>3. OqShape'
    BY <1>2 DEF OqInv, OqShape
  <1>4. CfgReach' = CfgReach /\ TreeReach' = TreeReach /\ Flight' = Flight
    BY DEF CfgReach, TreeReach, Reach, Flight
  <1>5. OqBooks'
    BY <1>4 DEF OqBooks
  <1>6. OqReady'
    BY <1>4 DEF OqReady
  <1>7. OqDos'
    BY <1>4 DEF OqInv, OqDos
  <1>. QED BY <1>3, <1>5, <1>6, <1>7 DEF OqInv

(* A queue with nothing in it.                                             *)
LEMMA NewIs ==
    ASSUME NEW v \in Nat
    PROVE  /\ Sound(NewQueue, v) /\ \A x, y, p : CfgBooks(NewQueue, x, p) /\ TreeBooks(NewQueue, y) /\ AllFollow(NewQueue, x)
           /\ \A l \in Lanes : NewQueue.lanes[l] = <<>>
  <1>1. NewQueue.cfg = Own /\ NewQueue.tree = Own /\ NewQueue.total = 0 /\ \A l \in Lanes : NewQueue.lanes[l] = <<>> /\ NewQueue.bytes[l] = 0
    BY DEF NewQueue
  <1>2. NewQueue \in QueueRec(v)
    BY DEF NewQueue, QueueRec
  <1>3. \A l \in Lanes : LaneOK(l, <<>>, v)
    BY DEF LaneOK, Single
  <1>4. Sound(NewQueue, v)
    BY <1>1, <1>2, <1>3, SumNone, ThreeLanes DEF Sound
  <1>. QED BY <1>1, <1>4, FollowsEmpty DEF CfgBooks, TreeBooks, AllFollow

(* The connection goes.                                                    *)
LEMMA GoneStep ==
    ASSUME OqInv, Gone, OqBase', UNCHANGED <<cfg, bot, lost>>
    PROVE  OqInv'
  <1>1. cfg \in Nat
    BY FlightIs DEF OqInv
  <1>2. OqShape'
    BY <1>1, NewIs DEF Gone, OqShape
  <1>3. OqBooks' /\ OqReady'
    BY DEF Gone, OqBooks, OqReady
  <1>4. OqDos'
    <2>1. socket' = <<>> /\ Flight' = <<>> /\ q' = NewQueue
      BY DEF Gone, Flight
    <2>. QED BY <2>1, <1>1, NewIs, FollowsEmpty DEF OqDos
  <1>. QED BY <1>2, <1>3, <1>4 DEF OqInv

(* It holds at the start.                                                  *)
LEMMA OqStart == OqInit => OqInv
  <1>. SUFFICES ASSUME OqInit PROVE OqInv
    OBVIOUS
  <1>1. OqBase
    <2>1. 0 \in Versions /\ 0 \in 0 .. MaxEvents /\ 0 \in Nat
      BY OutQueueAssumption DEF Versions
    <2>2. bot \in [cfg : Versions \cup {Own}, tree : 0 .. MaxEvents]
      BY <2>1 DEF OqInit
    <2>3. /\ pending \in BOOLEAN /\ window \in BOOLEAN /\ linked \in BOOLEAN /\ dead \in BOOLEAN /\ pushed \in BOOLEAN
          /\ push \in BOOLEAN /\ lost \in BOOLEAN
      BY DEF OqInit
    <2>4. cfg \in Versions /\ tree \in 0 .. MaxEvents /\ bw \in Nat /\ events \in 0 .. MaxEvents
      BY <2>1 DEF OqInit
    <2>. QED BY <2>2, <2>3, <2>4 DEF OqBase
  <1>2. cfg = 0 /\ q = NewQueue /\ writing = None /\ socket = <<>> /\ linked /\ ~pushed
    BY DEF OqInit
  <1>3. OqShape
    BY <1>2, NewIs DEF OqShape
  <1>4. OqBooks
    BY <1>2, NewIs DEF OqBooks
  <1>5. OqReady
    BY <1>2 DEF OqReady
  <1>6. OqDos
    <2>1. Flight = <<>>
      BY <1>2 DEF Flight
    <2>. QED BY <2>1, <1>2, NewIs, FollowsEmpty DEF OqDos
  <1>. QED BY <1>1, <1>3, <1>4, <1>5, <1>6 DEF OqInv

(* One step of each action.                                                *)
LEMMA ChangeConfigStep ==
    ASSUME OqInv, ChangeConfig
    PROVE  OqInv'
  <1>1. OqBase'
    BY OutQueueAssumption DEF OqInv, OqBase, ChangeConfig, Versions
  <1>2. cfg \in Nat /\ Sound(q, cfg)
    BY FlightIs DEF OqInv, OqShape
  <1>3. Sound(q', cfg')
    BY <1>2, LaterFrames DEF ChangeConfig
  <1>4. linked /\ ~dead => CfgBooks(q, CfgReach, push) /\ TreeBooks(q, TreeReach)
    BY DEF OqInv, OqBooks
  <1>5. ~lost /\ ~dead => AllFollow(q, CfgReach)
    BY DEF OqInv, OqDos
  <1>6. /\ UNCHANGED <<writing, linked, dead, socket, bot>> /\ cfg' = cfg + 1 /\ q' = q /\ push' = push /\ lost' = lost
        /\ pending'
    BY DEF ChangeConfig
  <1>. QED BY <1>1, <1>3, <1>4, <1>5, <1>6, QueueStep

(* flush_bot_config.                                                       *)
LEMMA FlushStep ==
    ASSUME OqInv, flush_bot_config
    PROVE  OqInv'
  <1>1. OqBase'
    BY DEF OqInv, OqBase, flush_bot_config
  <1>2. cfg \in Nat /\ Sound(q, cfg) /\ Content[cfg] # Own /\ CfgReach \in Versions \cup {Own} /\ cfg \in Versions
    BY FlightIs DEF OqInv, OqShape, OqBase
  <1>3. /\ UNCHANGED <<writing, linked, dead, socket, bot>> /\ cfg' = cfg /\ push' = push /\ pushed' = pushed
        /\ q' = IF linked THEN send_config_to_bot(q, FALSE) ELSE q
        /\ lost' = (lost \/ (linked /\ Sends(q, FALSE) /\ LosesConfig(q, CfgMsg)))
    BY DEF flush_bot_config
  <1>4. Sound(q', cfg')
    <2>1. Sound(send_config_to_bot(q, FALSE), cfg)
      BY <1>2, SendConfig
    <2>. QED BY <2>1, <1>2, <1>3
  <1>5. ~lost /\ ~dead => AllFollow(q, CfgReach)
    BY DEF OqInv, OqDos
  <1>6. CASE linked /\ ~dead
    <2>1. CfgBooks(q, CfgReach, push) /\ TreeBooks(q, TreeReach)
      BY <1>6 DEF OqInv, OqBooks
    <2>2. q' = send_config_to_bot(q, FALSE)
      BY <1>3, <1>6
    <2>3. /\ CfgBooks(q', CfgReach, push) /\ TreeBooks(q', TreeReach) /\ ReadyFor(q', CfgReach, cfg)
          /\ ~(Sends(q, FALSE) /\ LosesConfig(q, CfgMsg)) /\ AllFollow(q, CfgReach) => AllFollow(q', CfgReach)
      BY <1>2, <2>1, <2>2, SendConfigBooks
    <2>4. ~lost' => AllFollow(q', CfgReach) /\ ~lost
      BY <1>3, <1>5, <1>6, <2>3
    <2>. QED BY <2>3, <2>4, <1>1, <1>3, <1>4, <1>6, QueueStep
  <1>7. CASE ~linked \/ dead
    <2>1. ~linked => ~dead
      BY DEF OqInv, OqShape
    <2>2. ~lost' /\ ~dead => AllFollow(q', CfgReach)
      BY <2>1, <1>3, <1>5, <1>7
    <2>. QED BY <2>2, <1>1, <1>3, <1>4, <1>7, QueueStep
  <1>. QED BY <1>6, <1>7, <1>1 DEF OqBase

(* Pull.                                                                   *)
LEMMA PullStep ==
    ASSUME OqInv, Pull
    PROVE  OqInv'
  <1>1. OqBase'
    BY OutQueueAssumption DEF OqInv, OqBase, Pull, Event
  <1>2. cfg \in Nat /\ Sound(q, cfg) /\ Content[cfg] # Own /\ CfgReach \in Versions \cup {Own} /\ cfg \in Versions
    BY FlightIs DEF OqInv, OqShape, OqBase
  <1>3. /\ UNCHANGED <<writing, linked, dead, socket, bot>> /\ cfg' = cfg /\ push' = push /\ pushed' = pushed /\ linked /\ ~dead
        /\ q' = send_config_to_bot(q, TRUE) /\ lost' = (lost \/ LosesConfig(q, CfgMsg))
    BY DEF Pull
  <1>5. ~lost => AllFollow(q, CfgReach)
    BY <1>3 DEF OqInv, OqDos
  <1>6. CfgBooks(q, CfgReach, push) /\ TreeBooks(q, TreeReach)
    BY <1>3 DEF OqInv, OqBooks
  <1>7. /\ Sound(q', cfg) /\ CfgBooks(q', CfgReach, push) /\ TreeBooks(q', TreeReach) /\ ReadyFor(q', CfgReach, cfg)
        /\ ~(Sends(q, TRUE) /\ LosesConfig(q, CfgMsg)) /\ AllFollow(q, CfgReach) => AllFollow(q', CfgReach)
    BY <1>2, <1>3, <1>6, SendConfigBooks
  <1>8. ~lost' => AllFollow(q', CfgReach)
    BY <1>3, <1>5, <1>7
  <1>. QED BY <1>1, <1>3, <1>7, <1>8, QueueStep

(* process_bot_config_push.                                                *)
LEMMA BotPushStep ==
    ASSUME OqInv, NEW accepted \in BOOLEAN, process_bot_config_push(accepted)
    PROVE  OqInv'
  <1>. DEFINE c == Standing(q, Own, q.tree)
  <1>1. OqBase'
    <2>1. cfg' \in Versions
      BY OutQueueAssumption DEF OqInv, OqBase, process_bot_config_push, Versions
    <2>2. pending' \in BOOLEAN /\ lost' \in BOOLEAN /\ push' \in BOOLEAN /\ pushed' \in BOOLEAN
      BY DEF process_bot_config_push
    <2>3. UNCHANGED <<tree, window, bw, linked, dead, bot, events>>
      BY DEF process_bot_config_push
    <2>. QED BY <2>1, <2>2, <2>3 DEF OqInv, OqBase
  <1>2. cfg \in Nat /\ Sound(q, cfg) /\ Content[cfg] # Own /\ CfgReach \in Versions \cup {Own} /\ cfg \in Versions
    BY FlightIs DEF OqInv, OqShape, OqBase
  <1>3. /\ UNCHANGED <<writing, linked, dead, socket, bot>> /\ linked /\ push' = FALSE /\ pushed' = TRUE
        /\ cfg' = IF accepted THEN cfg + 1 ELSE cfg
        /\ pending' = (pending \/ accepted)
        /\ q' = IF ~accepted /\ ~pushed THEN send_config_to_bot(c, TRUE) ELSE c
        /\ lost' = (lost \/ (~accepted /\ ~pushed /\ LosesConfig(c, CfgMsg)))
    BY DEF process_bot_config_push
  <1>4. q.tree \in Sent /\ Own \in Sent
    BY <1>2, ThreeLanes, SoundLane DEF Sent
  <1>5. Sound(c, cfg) /\ c.lanes = q.lanes /\ c.cfg = Own /\ c.tree = q.tree
    <2>1. c = Standing(q, Own, q.tree)
      OBVIOUS
    <2>. HIDE DEF c
    <2>. QED BY <2>1, <1>2, <1>4, StandingSound
  <1>. HIDE DEF c
  <1>6. ~lost /\ ~dead => AllFollow(c, CfgReach)
    BY <1>5 DEF OqInv, OqDos, AllFollow
  <1>7. CfgBooks(c, CfgReach, FALSE) /\ (~dead => TreeBooks(c, TreeReach))
    BY <1>3, <1>5 DEF OqInv, OqBooks, CfgBooks, TreeBooks
  <1>8. CASE ~accepted /\ ~pushed
    <2>1. q' = send_config_to_bot(c, TRUE) /\ cfg' = cfg
      BY <1>3, <1>8
    <2>2. Sound(q', cfg')
      BY <2>1, <1>2, <1>5, SendConfig
    <2>3. ASSUME ~dead
          PROVE  /\ CfgBooks(q', CfgReach, FALSE) /\ TreeBooks(q', TreeReach) /\ ReadyFor(q', CfgReach, cfg)
                 /\ ~(Sends(c, TRUE) /\ LosesConfig(c, CfgMsg)) /\ AllFollow(c, CfgReach) => AllFollow(q', CfgReach)
      BY <2>1, <2>3, <1>2, <1>5, <1>7, SendConfigBooks
    <2>4. ~lost' /\ ~dead => AllFollow(q', CfgReach)
      BY <2>3, <1>3, <1>6, <1>8
    <2>5. lost => lost'
      BY <1>3
    <2>. QED BY <2>1, <2>2, <2>3, <2>4, <2>5, <1>1, <1>3, QueueStep
  <1>9. CASE accepted \/ pushed
    <2>1. q' = c /\ lost' = lost
      BY <1>3, <1>9, <1>1 DEF OqBase, OqInv
    <2>2. Sound(q', cfg')
      BY <2>1, <1>2, <1>3, <1>5, LaterFrames
    <2>3. linked /\ ~dead /\ ~lost' /\ pushed' /\ ~pending' => ReadyFor(q', CfgReach, cfg')
      BY <2>1, <1>3, <1>5, <1>9 DEF OqInv, OqReady, ReadyFor
    <2>4. cfg' = cfg \/ cfg' = cfg + 1
      BY <1>3
    <2>. QED BY <2>1, <2>2, <2>3, <2>4, <1>1, <1>3, <1>6, <1>7, QueueStep
  <1>. QED BY <1>8, <1>9 DEF OqInv, OqBase

(* push_tree_to_bots.                                                      *)
LEMMA PushTreeStep ==
    ASSUME OqInv, NEW t \in 0 .. MaxEvents, NEW force \in BOOLEAN, push_tree_to_bots(t, force)
    PROVE  OqInv'
  <1>. DEFINE same == ~force /\ q.tree = t
              c == Standing(q, q.cfg, t)
              m == TreeMsg(t)
  <1>1. OqBase'
    <2>1. events' \in 0 .. MaxEvents
      BY OutQueueAssumption DEF OqInv, OqBase, push_tree_to_bots, Event
    <2>. QED BY <2>1 DEF OqInv, OqBase, push_tree_to_bots
  <1>2. cfg \in Nat /\ Sound(q, cfg) /\ t \in Nat
    BY FlightIs, OutQueueAssumption DEF OqInv, OqShape
  <1>3. /\ UNCHANGED <<writing, linked, dead, socket, bot>> /\ cfg' = cfg /\ push' = push /\ pushed' = pushed /\ pending' = pending
        /\ q' = IF linked /\ ~same THEN enqueue(c, m) ELSE q
        /\ lost' = (lost \/ (linked /\ ~same /\ LosesConfig(q, m)))
    BY DEF push_tree_to_bots
  <1>4. m \in Frames(cfg) /\ m.cmd = "tree" /\ m.val = t
    BY <1>2, ThreeLanes DEF TreeMsg, Frames, Msg, Keyed
  <1>5. q.cfg \in Sent /\ t \in Sent
    BY <1>2, ThreeLanes, SoundLane DEF Sent
  <1>6. Sound(c, cfg) /\ c.lanes = q.lanes /\ c.cfg = q.cfg /\ c.tree = t /\ (LosesConfig(c, m) <=> LosesConfig(q, m))
    <2>1. c = Standing(q, q.cfg, t)
      OBVIOUS
    <2>. HIDE DEF c, m
    <2>2. Sound(c, cfg) /\ c.lanes = q.lanes /\ c.cfg = q.cfg /\ c.tree = t /\ SameLoss(q, c)
      <3>1. Sound(q, cfg) /\ cfg \in Nat
        BY <1>2
      <3>. DEFINE k == t
                  h == q.cfg
      <3>2. c = Standing(q, h, k) /\ k \in Sent /\ h \in Sent
        BY <2>1, <1>5
      <3>3. k = t /\ h = q.cfg
        OBVIOUS
      <3>. HIDE DEF k, h
      <3>4. Sound(c, cfg) /\ c.lanes = q.lanes /\ c.cfg = h /\ c.tree = k /\ SameLoss(q, c)
        BY <3>1, <3>2, StandingSound
      <3>. QED BY <3>3, <3>4
    <2>. QED BY <2>2 DEF SameLoss
  <1>. HIDE DEF c, m
  <1>7. ~lost /\ ~dead => AllFollow(q, CfgReach) /\ AllFollow(c, CfgReach)
    BY <1>6 DEF OqInv, OqDos, AllFollow
  <1>8. CASE linked /\ ~same
    <2>1. q' = enqueue(c, m) /\ lost' = (lost \/ LosesConfig(c, m))
      BY <1>3, <1>6, <1>8
    <2>2. Sound(q', cfg')
      BY <2>1, <1>2, <1>3, <1>4, <1>6, EnqueueKeeps
    <2>3. ASSUME ~dead
          PROVE  /\ CfgBooks(q', CfgReach, push) /\ TreeBooks(q', TreeReach)
                 /\ ~LosesConfig(c, m) => /\ ReadyFor(c, CfgReach, cfg) => ReadyFor(q', CfgReach, cfg)
                                          /\ AllFollow(c, CfgReach) => AllFollow(q', CfgReach)
      <3>1. CfgBooks(c, CfgReach, push)
        BY <2>3, <1>6, <1>8 DEF OqInv, OqBooks, CfgBooks
      <3>. QED BY <3>1, <2>1, <1>2, <1>4, <1>6, EnqueueBooks
    <2>4. ~dead /\ ~lost' => AllFollow(q', CfgReach)
      BY <2>1, <2>3, <1>7
    <2>5. linked /\ ~dead /\ ~lost' /\ pushed' /\ ~pending' => ReadyFor(q', CfgReach, cfg')
      BY <2>1, <2>3, <1>3, <1>6 DEF OqInv, OqReady, ReadyFor
    <2>6. lost => lost'
      BY <2>1
    <2>. QED BY <2>2, <2>3, <2>4, <2>5, <2>6, <1>1, <1>3, <1>8, QueueStep
  <1>9. CASE ~(linked /\ ~same)
    <2>1. q' = q /\ lost' = lost
      BY <1>3, <1>9, <1>1 DEF OqBase, OqInv
    <2>2. linked /\ ~dead /\ ~lost' /\ pushed' /\ ~pending' => ReadyFor(q', CfgReach, cfg')
      BY <2>1, <1>3 DEF OqInv, OqReady
    <2>3. linked /\ ~dead => CfgBooks(q', CfgReach, push') /\ TreeBooks(q', TreeReach)
      BY <2>1, <1>3 DEF OqInv, OqBooks
    <2>. QED BY <2>1, <2>2, <2>3, <1>1, <1>2, <1>3, <1>7, QueueStep
  <1>. QED BY <1>8, <1>9

(* send_cmd_to_bot_after_config.                                           *)
LEMMA SendAfterStep ==
    ASSUME OqInv, send_cmd_to_bot_after_config
    PROVE  OqInv'
  <1>. DEFINE c == IF pending THEN send_config_to_bot(q, FALSE) ELSE q
              idle == writing = None /\ \A l \in Lanes : c.lanes[l] = <<>>
              m == [cmd |-> "do", lane |-> IF idle THEN Urgent ELSE Bulk, val |-> IF pushed THEN cfg ELSE 0]
              X == CfgReach
  <1>1. OqBase'
    <2>1. events' \in 0 .. MaxEvents
      BY OutQueueAssumption DEF OqInv, OqBase, send_cmd_to_bot_after_config, Event
    <2>2. pending' \in BOOLEAN /\ window' \in BOOLEAN /\ lost' \in BOOLEAN
      BY DEF send_cmd_to_bot_after_config
    <2>3. UNCHANGED <<cfg, tree, bw, linked, dead, pushed, bot, push>>
      BY DEF send_cmd_to_bot_after_config
    <2>. QED BY <2>1, <2>2, <2>3 DEF OqInv, OqBase
  <1>2. cfg \in Nat /\ Sound(q, cfg) /\ Content[cfg] # Own /\ X \in Versions \cup {Own} /\ cfg \in Versions
    BY FlightIs DEF OqInv, OqShape, OqBase
  <1>3. /\ UNCHANGED <<writing, linked, dead, socket, bot>> /\ linked /\ ~dead /\ cfg' = cfg /\ push' = push /\ pushed' = pushed
        /\ q' = enqueue(c, m)
        /\ lost' = (lost \/ (pending /\ Sends(q, FALSE) /\ LosesConfig(q, CfgMsg)) \/ LosesConfig(c, m))
    BY DEF send_cmd_to_bot_after_config
  <1>4. CfgBooks(q, X, push) /\ TreeBooks(q, TreeReach) /\ (~lost => AllFollow(q, X))
    BY <1>3 DEF OqInv, OqBooks, OqDos
  <1>5. /\ Sound(c, cfg) /\ CfgBooks(c, X, push) /\ TreeBooks(c, TreeReach)
        /\ ~lost /\ pushed => ReadyFor(c, X, cfg)
        /\ ~lost /\ ~(pending /\ Sends(q, FALSE) /\ LosesConfig(q, CfgMsg)) => AllFollow(c, X)
    <2>1. CASE pending
      <3>1. c = send_config_to_bot(q, FALSE)
        BY <2>1
      <3>. HIDE DEF c, X
      <3>2. /\ Sound(c, cfg) /\ CfgBooks(c, X, push) /\ TreeBooks(c, TreeReach) /\ ReadyFor(c, X, cfg)
            /\ ~(Sends(q, FALSE) /\ LosesConfig(q, CfgMsg)) /\ AllFollow(q, X) => AllFollow(c, X)
        BY <3>1, <1>2, <1>4, SendConfigBooks
      <3>. QED BY <3>2, <2>1, <1>4
    <2>2. CASE ~pending
      <3>1. c = q
        BY <2>2
      <3>2. ~lost /\ pushed => ReadyFor(q, X, cfg)
        BY <2>2, <1>3 DEF OqInv, OqReady
      <3>. HIDE DEF c, X
      <3>. QED BY <3>1, <3>2, <1>2, <1>4
    <2>. QED BY <2>1, <2>2
  <1>6. m.lane = Bulk \/ \A l \in Lanes : c.lanes[l] = <<>>
    OBVIOUS
  <1>7. m.cmd = "do" /\ m.lane \in Lanes /\ m.val = (IF pushed THEN cfg ELSE 0)
    BY ThreeLanes
  <1>8. m \in Frames(cfg)
    <2>. DEFINE L == IF idle THEN Urgent ELSE Bulk
                V == IF pushed THEN cfg ELSE 0
    <2>1. m = [cmd |-> "do", lane |-> L, val |-> V]
      OBVIOUS
    <2>. HIDE DEF idle, m
    <2>2. L \in Lanes /\ V \in Nat /\ V <= cfg
      <3>1. L = Urgent \/ L = Bulk
        OBVIOUS
      <3>2. V = cfg \/ V = 0
        OBVIOUS
      <3>. HIDE DEF L, V
      <3>. QED BY <3>1, <3>2, <1>2, ThreeLanes
    <2>. HIDE DEF L, V
    <2>. QED BY <2>1, <2>2 DEF Frames, Msg, Keyed
  <1>. HIDE DEF c, m, X
  <1>9. After(X, c.lanes[m.lane], "cfg") = After(X, c.lanes[Bulk], "cfg")
    BY <1>6, <1>7, ThreeLanes
  <1>10. ASSUME ~lost PROVE Covers(After(X, c.lanes[m.lane], "cfg"), m.val)
    <2>1. CASE pushed
      BY <2>1, <1>5, <1>7, <1>9, <1>10 DEF ReadyFor
    <2>2. CASE ~pushed
      <3>. DEFINE e == After(X, c.lanes[Bulk], "cfg")
      <3>1. e \in Versions \cup {Own}
        BY <1>2, <1>5, ThreeLanes, SoundLane, AfterType
      <3>. HIDE DEF e
      <3>2. Covers(e, 0)
        BY <3>1 DEF Covers, Versions
      <3>. QED BY <2>2, <3>2, <1>7, <1>9 DEF e
    <2>. QED BY <2>1, <2>2
  <1>11. /\ Sound(q', cfg) /\ CfgBooks(q', X, push) /\ TreeBooks(q', TreeReach)
         /\ ~LosesConfig(c, m) => /\ ReadyFor(c, X, cfg) => ReadyFor(q', X, cfg)
                                  /\ AllFollow(c, X) /\ (m.cmd = "do" => Covers(After(X, c.lanes[m.lane], "cfg"), m.val))
                                       => AllFollow(q', X)
    <2>1. q' = enqueue(c, m)
      BY <1>3
    <2>2. m.cmd # "cfg" /\ m.cmd # "tree"
      BY <1>7
    <2>. QED BY <2>1, <2>2, <1>2, <1>5, <1>8, EnqueueBooks
  <1>12. /\ lost => lost' 
         /\ ~lost' => ~lost /\ ~LosesConfig(c, m) /\ ~(pending /\ Sends(q, FALSE) /\ LosesConfig(q, CfgMsg))
    BY <1>3
  <1>13. ~lost' => AllFollow(q', X)
    BY <1>5, <1>10, <1>11, <1>12
  <1>14. ~lost' /\ pushed => ReadyFor(q', X, cfg)
    BY <1>5, <1>11, <1>12
  <1>. QED BY <1>1, <1>3, <1>11, <1>12, <1>13, <1>14, QueueStep DEF X

(* SendOther.                                                              *)
LEMMA SendOtherStep ==
    ASSUME OqInv, NEW l \in {Urgent, DeltaL}, SendOther(l)
    PROVE  OqInv'
  <1>. DEFINE m == [cmd |-> "other", lane |-> l, val |-> 0]
              X == CfgReach
  <1>1. /\ Event /\ linked /\ ~dead
        /\ UNCHANGED <<cfg, tree, pending, window, bw, pushed, bot>>
    BY DEF SendOther
  <1>0. events' \in 0 .. MaxEvents
    BY <1>1, OutQueueAssumption DEF OqInv, OqBase, Event
  <1>2. cfg \in Nat /\ Sound(q, cfg)
    BY FlightIs DEF OqInv, OqShape
  <1>3. CASE Refused(q, m)
    <2>1. Gone /\ lost' = lost
      BY <1>3 DEF SendOther
    <2>2. OqBase'
      BY <2>1, <1>0, <1>1 DEF OqInv, OqBase, Gone
    <2>. QED BY <2>1, <2>2, <1>1, GoneStep
  <1>4. CASE ~Refused(q, m)
    <2>1. q' = enqueue(q, m) /\ lost' = (lost \/ LosesConfig(q, m)) /\ UNCHANGED <<linked, dead, writing, socket, push>>
      BY <1>4 DEF SendOther
    <2>2. OqBase'
      BY <2>1, <1>0, <1>1 DEF OqInv, OqBase
    <2>3. m \in Frames(cfg) /\ m.cmd = "other"
      BY <1>2, ThreeLanes DEF Frames, Msg, Keyed
    <2>. HIDE DEF m
    <2>4. CfgBooks(q, X, push) /\ TreeBooks(q, TreeReach) /\ (~lost => AllFollow(q, X))
      BY <1>1 DEF OqInv, OqBooks, OqDos
    <2>. HIDE DEF X
    <2>5. /\ Sound(q', cfg) /\ CfgBooks(q', X, push) /\ TreeBooks(q', TreeReach)
          /\ ~LosesConfig(q, m) => /\ ReadyFor(q, X, cfg) => ReadyFor(q', X, cfg)
                                   /\ AllFollow(q, X) => AllFollow(q', X)
      <3>1. m.cmd # "cfg" /\ m.cmd # "tree" /\ m.cmd # "do"
        BY <2>3
      <3>2. /\ Sound(q', cfg) /\ CfgBooks(q', X, push) /\ TreeBooks(q', TreeReach)
            /\ ~LosesConfig(q, m) => /\ ReadyFor(q, X, cfg) => ReadyFor(q', X, cfg)
                                     /\ AllFollow(q, X) /\ (m.cmd = "do" => Covers(After(X, q.lanes[m.lane], "cfg"), m.val))
                                          => AllFollow(q', X)
        BY <3>1, <2>1, <2>3, <2>4, <1>2, EnqueueBooks
      <3>. QED BY <3>1, <3>2
    <2>6. ~lost' => ~lost /\ ~LosesConfig(q, m)
      BY <2>1
    <2>7. ~lost' => AllFollow(q', X)
      BY <2>4, <2>5, <2>6
    <2>8. linked /\ ~dead /\ ~lost' /\ pushed' /\ ~pending' => ReadyFor(q', X, cfg)
      BY <2>5, <2>6, <1>1 DEF OqInv, OqReady, X
    <2>. QED BY <2>1, <2>2, <2>5, <2>6, <2>7, <2>8, <1>1, QueueStep DEF X
  <1>. QED BY <1>3, <1>4

(* The first frame of a sequence and the others.                           *)
LEMMA HeadFirst ==
    ASSUME NEW S, NEW s \in Seq(S), s # <<>>
    PROVE  Head(s) \in S /\ Tail(s) \in Seq(S) /\ s = <<Head(s)>> \o Tail(s)
  <1>. DEFINE t == Tail(s)
              h == <<Head(s)>>
  <1>1. Len(s) \in Nat /\ Len(s) > 0
    OBVIOUS
  <1>2. /\ Head(s) \in S /\ Head(s) = s[1] /\ t \in Seq(S) /\ Len(t) = Len(s) - 1
        /\ \A i \in 1 .. Len(t) : t[i] = s[i + 1]
    BY <1>1, HeadTailProperties
  <1>3. h \in Seq(S) /\ Len(h) = 1 /\ h[1] = s[1]
    BY <1>2
  <1>. HIDE DEF t, h
  <1>4. Joined(h, t, s)
    BY <1>1, <1>2, <1>3 DEF Joined
  <1>5. s = h \o t
    BY <1>2, <1>3, <1>4, JoinedIs
  <1>. QED BY <1>2, <1>5 DEF t, h

(* BotReceives: what it has and what is on its way are read as before.     *)
LEMMA BotReceivesStep ==
    ASSUME OqInv, BotReceives
    PROVE  OqInv'
  <1>. DEFINE h == Head(socket)
              t == Tail(socket)
  <1>1. cfg \in Nat /\ socket \in Seq(Frames(cfg)) /\ socket # <<>>
    BY FlightIs DEF OqInv, OqShape, BotReceives
  <1>2. h \in Frames(cfg) /\ t \in Seq(Frames(cfg)) /\ socket = <<h>> \o t
    BY <1>1, HeadFirst
  <1>3. /\ socket' = t
        /\ bot' = [cfg |-> IF h.cmd = "cfg" THEN h.val ELSE bot.cfg, tree |-> IF h.cmd = "tree" THEN h.val ELSE bot.tree]
        /\ UNCHANGED <<cfg, tree, pending, window, q, writing, bw, linked, dead, pushed, push, events, lost>>
    BY DEF BotReceives
  <1>. HIDE DEF h, t
  <1>4. Less(socket, h, t)
    BY <1>1, <1>2, LessOf
  <1>5. OqBase'
    <2>1. (h.cmd = "cfg" => h.val \in Versions) /\ (h.cmd = "tree" => h.val \in 0 .. MaxEvents)
      BY <1>2 DEF Frames
    <2>2. bot' \in [cfg : Versions \cup {Own}, tree : 0 .. MaxEvents]
      BY <2>1, <1>3 DEF OqInv, OqBase
    <2>. QED BY <2>2, <1>3 DEF OqInv, OqBase
  <1>6. OqShape'
    BY <1>1, <1>2, <1>3 DEF OqInv, OqShape
  <1>7. /\ After(bot.cfg, socket, "cfg") = After(bot'.cfg, socket', "cfg")
        /\ After(bot.tree, socket, "tree") = After(bot'.tree, socket', "tree")
        /\ Follows(bot.cfg, socket) => Follows(bot'.cfg, socket')
    BY <1>3, <1>4 DEF Less
  <1>8. CfgReach' = CfgReach /\ TreeReach' = TreeReach /\ Flight' = Flight
    BY <1>3, <1>7 DEF CfgReach, TreeReach, Reach, Flight
  <1>9. OqBooks' /\ OqReady'
    BY <1>3, <1>8 DEF OqInv, OqBooks, OqReady
  <1>10. OqDos'
    BY <1>3, <1>7, <1>8 DEF OqInv, OqDos
  <1>. QED BY <1>5, <1>6, <1>9, <1>10 DEF OqInv

(* BotPushes.                                                              *)
LEMMA BotPushesStep ==
    ASSUME OqInv, BotPushes
    PROVE  OqInv'
  <1>1. /\ bot' = [cfg |-> Own, tree |-> bot.tree] /\ push' = TRUE /\ linked /\ Event
        /\ UNCHANGED <<cfg, tree, pending, window, q, writing, bw, linked, dead, pushed, socket, lost>>
    BY DEF BotPushes
  <1>2. cfg \in Nat /\ socket \in Seq(Frames(cfg)) /\ Flight \in Seq(Frames(cfg)) /\ Sound(q, cfg)
    BY FlightIs DEF OqInv, OqShape
  <1>3. OqBase'
    <2>1. events' \in 0 .. MaxEvents
      BY <1>1, OutQueueAssumption DEF OqInv, OqBase, Event
    <2>2. bot' \in [cfg : Versions \cup {Own}, tree : 0 .. MaxEvents]
      BY <1>1 DEF OqInv, OqBase
    <2>. QED BY <2>1, <2>2, <1>1 DEF OqInv, OqBase
  <1>4. OqShape'
    BY <1>1 DEF OqInv, OqShape
  <1>. DEFINE x1 == After(bot.cfg, socket, "cfg")
              y1 == After(Own, socket, "cfg")
              x2 == After(x1, Flight, "cfg")
              y2 == After(y1, Flight, "cfg")
  <1>5. y1 = Own \/ y1 = x1
    BY <1>2, OwnFollows
  <1>6. Follows(bot.cfg, socket) => Follows(Own, socket)
    BY <1>2, OwnFollows
  <1>7. CfgReach = x2 /\ CfgReach' = y2 /\ TreeReach' = TreeReach /\ Flight' = Flight /\ bot'.cfg = Own
    BY <1>1 DEF CfgReach, TreeReach, Reach, Flight
  <1>. HIDE DEF x1, y1
  <1>8. y2 = Own \/ y2 = x2
    <2>1. CASE y1 = x1
      BY <2>1
    <2>2. CASE y1 = Own
      BY <2>2, <1>2, OwnFollows
    <2>. QED BY <2>1, <2>2, <1>5
  <1>9. Follows(x1, Flight) => Follows(y1, Flight)
    BY <1>2, <1>5, OwnFollows
  <1>. HIDE DEF x2, y2
  <1>10. \A l \in Lanes : q.lanes[l] \in Seq(Frames(cfg))
    BY <1>2, SoundLane
  <1>11. AllFollow(q, x2) => AllFollow(q, y2)
    <2>1. \A l \in Lanes : Follows(x2, q.lanes[l]) => Follows(y2, q.lanes[l])
      BY <1>2, <1>8, <1>10, OwnFollows
    <2>. QED BY <2>1 DEF AllFollow
  <1>. DEFINE e == After(x2, q.lanes[Bulk], "cfg")
              f == After(y2, q.lanes[Bulk], "cfg")
  <1>12. f = Own \/ f = e
    <2>1. CASE y2 = x2
      BY <2>1
    <2>2. CASE y2 = Own
      BY <2>2, <1>2, <1>10, ThreeLanes, OwnFollows
    <2>. QED BY <2>1, <2>2, <1>8
  <1>13. OqBooks'
    <2>1. CfgBooks(q, x2, push) => CfgBooks(q, y2, TRUE)
      BY <1>12 DEF CfgBooks
    <2>. QED BY <2>1, <1>1, <1>7 DEF OqInv, OqBooks
  <1>14. OqReady'
    <2>1. ReadyFor(q, x2, cfg) => ReadyFor(q, y2, cfg)
      BY <1>12 DEF ReadyFor, Covers
    <2>. QED BY <2>1, <1>1, <1>7 DEF OqInv, OqReady
  <1>15. OqDos'
    BY <1>1, <1>6, <1>7, <1>9, <1>11 DEF OqInv, OqDos, x1, y1
  <1>. QED BY <1>3, <1>4, <1>13, <1>14, <1>15 DEF OqInv

(* disconnect_client.                                                      *)
LEMMA DisconnectStep ==
    ASSUME OqInv, disconnect_client
    PROVE  OqInv'
  <1>1. Gone /\ UNCHANGED <<cfg, tree, pending, window, bw, pushed, bot, lost>>
    BY DEF disconnect_client
  <1>2. events' \in 0 .. MaxEvents
    BY OutQueueAssumption DEF OqInv, OqBase, disconnect_client, Event
  <1>3. OqBase'
    BY <1>1, <1>2 DEF OqInv, OqBase, Gone
  <1>. QED BY <1>1, <1>3, GoneStep

(* Reconnect.                                                              *)
LEMMA ReconnectStep ==
    ASSUME OqInv, Reconnect
    PROVE  OqInv'
  <1>1. /\ ~linked /\ linked' = TRUE /\ push' = TRUE /\ pushed' = FALSE /\ bw' = 0 /\ lost' = FALSE
        /\ UNCHANGED <<cfg, tree, pending, window, q, writing, dead, socket, bot, events>>
    BY DEF Reconnect
  <1>2. q = NewQueue /\ writing = None /\ socket = <<>> /\ ~dead
    BY <1>1 DEF OqInv, OqShape
  <1>3. OqBase' /\ cfg \in Nat
    BY <1>1, FlightIs DEF OqInv, OqBase
  <1>4. OqShape'
    BY <1>1 DEF OqInv, OqShape
  <1>5. OqBooks'
    BY <1>1, <1>2, <1>3, NewIs DEF OqBooks
  <1>6. OqReady'
    BY <1>1 DEF OqReady
  <1>7. OqDos'
    <2>1. Flight' = <<>> /\ socket' = <<>> /\ q' = NewQueue
      BY <1>1, <1>2 DEF Flight
    <2>. QED BY <2>1, <1>3, NewIs, FollowsEmpty DEF OqDos
  <1>. QED BY <1>3, <1>4, <1>5, <1>6, <1>7 DEF OqInv

(* Second.                                                                 *)
LEMMA SecondStep ==
    ASSUME OqInv, Second
    PROVE  OqInv'
  <1>1. /\ bw' = 0 /\ window' = TRUE
        /\ UNCHANGED <<cfg, tree, pending, q, writing, linked, dead, pushed, socket, bot, push, events, lost>>
    BY DEF Second
  <1>2. OqBase'
    BY <1>1 DEF OqInv, OqBase
  <1>3. OqShape'
    BY <1>1 DEF OqInv, OqShape
  <1>4. CfgReach' = CfgReach /\ TreeReach' = TreeReach /\ Flight' = Flight
    BY <1>1 DEF CfgReach, TreeReach, Reach, Flight
  <1>5. OqBooks' /\ OqReady' /\ OqDos'
    BY <1>1, <1>4 DEF OqInv, OqBooks, OqReady, OqDos
  <1>. QED BY <1>2, <1>3, <1>5 DEF OqInv

(* drain_writable: what the socket took, what is in flight and what stays  *)
(* queued are read as before, but for the frames that were dropped.        *)
LEMMA DrainStep ==
    ASSUME OqInv, NEW n \in 0 .. Len(Order), NEW how \in {"all", "blocked", "error"},
           drain_writable(n, how), events' \in 0 .. MaxEvents
    PROVE  OqInv'
  <1>. DEFINE z == Sealable(First(n))
              out == Flight \o z
              p == IF how = "all" THEN out ELSE Front(out)
              f == IF how = "all" THEN <<>> ELSE <<Last(out)>>
  <1>1. /\ cfg \in Nat /\ Sound(q, cfg) /\ Flight \in Seq(Frames(cfg)) /\ socket \in Seq(Frames(cfg))
    BY FlightIs DEF OqInv, OqShape
  <1>2. /\ linked /\ q' = Drained(n) /\ socket' = socket \o p
        /\ writing' = IF how = "blocked" THEN Last(out) ELSE None
        /\ dead' = (how = "error") /\ bw' = bw + SumSize(p)
        /\ UNCHANGED <<cfg, tree, pending, window, linked, pushed, bot, push>>
        /\ dead => how = "error" /\ Len(out) = 1
    BY DEF drain_writable, Flight, First
  <1>3. lost' = (lost \/ "cfg" \in Bad(n))
    BY DEF drain_writable, Bad
  <1>4. how # "all" => out # <<>>
    <2>1. CASE how = "error"
      BY <2>1 DEF drain_writable, Flight, First
    <2>2. CASE how = "blocked"
      <3>1. n > 0 /\ Fits(Order[n])
        BY <2>2 DEF drain_writable
      <3>2. Order \in Seq(Frames(cfg))
        BY <1>1, DrainCut
      <3>3. First(n) \in Seq(Frames(cfg)) /\ Len(First(n)) = n /\ First(n)[n] = Order[n]
        <4>. DEFINE o == Order
                    g == SubSeq(o, 1, n)
        <4>1. o \in Seq(Frames(cfg)) /\ n \in 1 .. Len(o) /\ n \in 0 .. Len(o)
          BY <3>1, <3>2
        <4>2. First(n) = g
          BY DEF First
        <4>. HIDE DEF o
        <4>3. g \in Seq(Frames(cfg)) /\ Len(g) = n /\ \A i \in 1 .. n : g[i] = o[i]
          BY <4>1, SplitAt
        <4>. HIDE DEF g
        <4>4. g \in Seq(Frames(cfg)) /\ Len(g) = n /\ g[n] = o[n]
          BY <4>1, <4>3
        <4>. QED BY <4>2, <4>4 DEF o
      <3>4. First(n) # <<>> /\ Fits(First(n)[Len(First(n))])
        BY <3>1, <3>3
      <3>5. z # <<>> /\ z \in Seq(Frames(cfg))
        BY <3>3, <3>4, <1>1, SealedKeeps
      <3>. HIDE DEF z
      <3>6. Len(z) \in Nat /\ Len(z) > 0 /\ Len(Flight) \in Nat /\ Len(out) = Len(Flight) + Len(z)
        BY <3>5, <1>1, ConcatProperties
      <3>. QED BY <3>6
    <2>. QED BY <2>1, <2>2
  <1>5. z = Sealable(First(n))
    OBVIOUS
  <1>. HIDE DEF z
  <1>6. z \in Seq(Frames(cfg)) /\ \A x : Through(x, q', z, n)
    BY <1>1, <1>2, <1>5, DrainReads
  <1>7. /\ Sound(q', cfg)
        /\ q'.cfg = IF "cfg" \in Bad(n) THEN Own ELSE q.cfg
        /\ q'.tree = IF "tree" \in Bad(n) THEN Own ELSE q.tree
    BY <1>1, <1>2, DrainedIs
  <1>8. out \in Seq(Frames(cfg)) /\ Cat(out, Flight, z)
    BY <1>1, <1>6, ConcatProperties DEF Cat
  <1>. HIDE DEF out
  <1>9. p \in Seq(Frames(cfg)) /\ f \in Seq(Frames(cfg)) /\ Cat(out, p, f)
    <2>1. CASE how = "all"
      <3>1. p = out /\ f = <<>>
        BY <2>1
      <3>2. out = out \o <<>> /\ <<>> \in Seq(Frames(cfg))
        BY <1>8
      <3>. QED BY <3>1, <3>2, <1>8 DEF Cat
    <2>2. CASE how # "all"
      <3>1. p = Front(out) /\ f = <<Last(out)>>
        BY <2>2
      <3>2. Front(out) \in Seq(Frames(cfg)) /\ Last(out) \in Frames(cfg) /\ out = Front(out) \o <<Last(out)>>
        BY <2>2, <1>4, <1>8, FrontLast
      <3>. HIDE DEF p, f
      <3>3. f \in Seq(Frames(cfg))
        BY <3>1, <3>2
      <3>. QED BY <3>1, <3>2, <3>3 DEF Cat
    <2>. QED BY <2>1, <2>2
  <1>10. how = "blocked" => Last(out) \in Frames(cfg) /\ Last(out) # None
    <2>1. ASSUME how = "blocked" PROVE Last(out) \in Frames(cfg)
      BY <2>1, <1>4, <1>8, FrontLast
    <2>2. None \notin Frames(cfg)
      BY DEF None, Frames, Msg
    <2>. QED BY <2>1, <2>2
  <1>11. how # "error" => Flight' = f
    BY <1>2, <1>10 DEF Flight
  <1>12. dead => p = <<>>
    <2>. SUFFICES ASSUME dead PROVE p = <<>>
      OBVIOUS
    <2>1. how # "all" /\ out # <<>> /\ Len(out) = 1 /\ p = Front(out)
      BY <1>2, <1>4
    <2>2. Front(out) \in Seq(Frames(cfg)) /\ Len(Front(out)) = Len(out) - 1
      BY <2>1, <1>8, FrontLast
    <2>. HIDE DEF p
    <2>3. Front(out) = <<>>
      BY <2>1, <2>2
    <2>. QED BY <2>1, <2>3
  <1>. HIDE DEF p, f
  <1>13. \A x : Moved(x, socket, Flight, z, p, f)
    BY <1>1, <1>6, <1>8, <1>9, MoveOn
  <1>14. OqBase'
    <2>1. bw' \in Nat
      <3>1. SumSize(p) \in Nat /\ bw \in Nat
        BY <1>1, <1>9, LaneSize DEF OqInv, OqBase
      <3>. QED BY <3>1, <1>2
    <2>2. dead' \in BOOLEAN /\ lost' \in BOOLEAN
      BY <1>2, <1>3
    <2>. QED BY <2>1, <2>2, <1>2 DEF OqInv, OqBase
  <1>15. socket' \in Seq(Frames(cfg)) /\ writing' \in Frames(cfg) \cup {None}
    <2>1. socket \o p \in Seq(Frames(cfg))
      BY <1>1, <1>9, ConcatProperties
    <2>. QED BY <2>1, <1>2, <1>10
  <1>16. OqShape'
    BY <1>2, <1>7, <1>15 DEF OqShape
  <1>17. how # "error" => CfgReach' = After(CfgReach, z, "cfg") /\ TreeReach' = After(TreeReach, z, "tree")
    <2>1. bot' = bot /\ socket' = socket \o p
      BY <1>2
    <2>. QED BY <2>1, <1>11, <1>13 DEF CfgReach, TreeReach, Reach, Moved
  <1>. DEFINE X == CfgReach
              Y == TreeReach
  <1>18. how # "error" => CfgReach' = After(X, z, "cfg") /\ TreeReach' = After(Y, z, "tree")
    BY <1>17
  <1>19. how # "error" => CfgBooks(q, X, push) /\ TreeBooks(q, Y)
    BY <1>2 DEF OqInv, OqBooks
  <1>20. ~lost /\ ~dead => Follows(bot.cfg, socket) /\ Follows(After(bot.cfg, socket, "cfg"), Flight) /\ AllFollow(q, X)
    BY DEF OqInv, OqDos
  <1>21. ~lost => Follows(bot.cfg, socket)
    BY DEF OqInv, OqDos
  <1>22. how # "error" /\ ~lost /\ pushed /\ ~pending => ReadyFor(q, X, cfg)
    BY <1>2 DEF OqInv, OqReady
  <1>23. X = After(After(bot.cfg, socket, "cfg"), Flight, "cfg")
    BY DEF CfgReach, Reach
  <1>. HIDE DEF X, Y
  <1>24. /\ "cfg" \notin Bad(n) => After(After(X, z, "cfg"), q'.lanes[Bulk], "cfg") = After(X, q.lanes[Bulk], "cfg")
         /\ "tree" \notin Bad(n) => After(After(Y, z, "tree"), q'.lanes[Bulk], "tree") = After(Y, q.lanes[Bulk], "tree")
         /\ "cfg" \notin Bad(n) /\ AllFollow(q, X) => Follows(X, z) /\ AllFollow(q', After(X, z, "cfg"))
    BY <1>6 DEF Through, AllFollow
  <1>25. OqBooks'
    <2>. SUFFICES ASSUME how # "error" PROVE CfgBooks(q', CfgReach', push') /\ TreeBooks(q', TreeReach')
      BY <1>2 DEF OqBooks
    <2>1. CfgBooks(q', After(X, z, "cfg"), push)
      BY <1>7, <1>19, <1>24 DEF CfgBooks
    <2>2. TreeBooks(q', After(Y, z, "tree"))
      BY <1>7, <1>19, <1>24 DEF TreeBooks
    <2>. QED BY <2>1, <2>2, <1>2, <1>18
  <1>26. OqReady'
    <2>. SUFFICES ASSUME how # "error", ~lost', pushed, ~pending PROVE ReadyFor(q', CfgReach', cfg)
      BY <1>2 DEF OqReady
    <2>1. ReadyFor(q', After(X, z, "cfg"), cfg)
      BY <1>3, <1>22, <1>24 DEF ReadyFor
    <2>. QED BY <2>1, <1>18
  <1>27. OqDos'
    <2>. SUFFICES ASSUME ~lost'
                  PROVE  /\ Follows(bot.cfg, socket')
                         /\ how # "error" => Follows(After(bot.cfg, socket', "cfg"), Flight') /\ AllFollow(q', CfgReach')
      BY <1>2 DEF OqDos
    <2>1. ~lost /\ "cfg" \notin Bad(n)
      BY <1>3
    <2>2. CASE dead
      <3>1. socket' = socket
        BY <2>2, <1>1, <1>2, <1>12
      <3>. QED BY <3>1, <2>1, <2>2, <1>2, <1>21
    <2>3. CASE ~dead
      <3>1. Follows(X, z) /\ AllFollow(q', After(X, z, "cfg"))
        BY <2>1, <2>3, <1>20, <1>24
      <3>2. Follows(bot.cfg, socket \o p) /\ Follows(After(bot.cfg, socket \o p, "cfg"), f)
        BY <3>1, <2>1, <2>3, <1>13, <1>20, <1>23 DEF Moved
      <3>. QED BY <3>1, <3>2, <1>2, <1>11, <1>18
    <2>. QED BY <2>2, <2>3, <1>14 DEF OqInv, OqBase
  <1>. QED BY <1>14, <1>16, <1>25, <1>26, <1>27 DEF OqInv

(* Every step keeps it.                                                    *)
LEMMA OqStep == OqInv /\ [OqNext]_oqVars => OqInv'
  <1>. SUFFICES ASSUME OqInv, [OqNext]_oqVars PROVE OqInv'
    OBVIOUS
  <1>1. CASE UNCHANGED oqVars
    <2>1. CfgReach' = CfgReach /\ TreeReach' = TreeReach /\ Flight' = Flight
      BY <1>1 DEF oqVars, CfgReach, TreeReach, Reach, Flight
    <2>. QED BY <2>1, <1>1 DEF oqVars, OqInv, OqBase, OqShape, OqBooks, OqReady, OqDos
  <1>2. CASE Drain
    <2>1. PICK n \in 0 .. Len(Order), how \in {"all", "blocked"} : drain_writable(n, how)
      BY <1>2 DEF Drain
    <2>2. events' \in 0 .. MaxEvents
      BY <1>2 DEF Drain, OqInv, OqBase
    <2>. QED BY <2>1, <2>2, DrainStep
  <1>3. CASE DrainFails
    <2>1. PICK n \in 0 .. Len(Order) : drain_writable(n, "error")
      BY <1>3 DEF DrainFails
    <2>2. events' \in 0 .. MaxEvents
      BY <1>3, OutQueueAssumption DEF DrainFails, Event, OqInv, OqBase
    <2>. QED BY <2>1, <2>2, DrainStep
  <1>4. CASE ChangeConfig
    BY <1>4, ChangeConfigStep
  <1>5. CASE flush_bot_config
    BY <1>5, FlushStep
  <1>6. CASE Pull
    BY <1>6, PullStep
  <1>7. CASE \E accepted \in BOOLEAN : process_bot_config_push(accepted)
    BY <1>7, BotPushStep
  <1>8. CASE send_cmd_to_bot_after_config
    BY <1>8, SendAfterStep
  <1>9. CASE \E t \in 0 .. MaxEvents, force \in BOOLEAN : push_tree_to_bots(t, force)
    BY <1>9, PushTreeStep
  <1>10. CASE \E l \in {Urgent, DeltaL} : SendOther(l)
    BY <1>10, SendOtherStep
  <1>11. CASE BotReceives
    BY <1>11, BotReceivesStep
  <1>12. CASE BotPushes
    BY <1>12, BotPushesStep
  <1>13. CASE disconnect_client
    BY <1>13, DisconnectStep
  <1>14. CASE Reconnect
    BY <1>14, ReconnectStep
  <1>15. CASE Second
    BY <1>15, SecondStep
  <1>. QED BY <1>1, <1>2, <1>3, <1>4, <1>5, <1>6, <1>7, <1>8, <1>9, <1>10, <1>11, <1>12, <1>13, <1>14, <1>15 DEF OqNext

(* What it means: the byte counts and what stands as sent are true.        *)
LEMMA OqMeaning == OqInv => QueueTrue
  <1>. SUFFICES ASSUME OqInv PROVE QueueTrue
    OBVIOUS
  <1>1. /\ cfg \in Nat /\ Sound(q, cfg) /\ Flight \in Seq(Frames(cfg)) /\ socket \in Seq(Frames(cfg))
        /\ writing \in Frames(cfg) \cup {None} /\ CfgReach \in Versions \cup {Own}
    BY FlightIs DEF OqInv, OqShape
  <1>2. Order \in Seq(Frames(cfg)) /\ SumSize(Order) = q.total
        /\ \A x : Together(x, q.lanes[Urgent], q.lanes[DeltaL], q.lanes[Bulk], Order)
    <2>1. Cat(Order, q.lanes[Urgent] \o q.lanes[DeltaL], q.lanes[Bulk])
      BY DEF Cat, Order
    <2>2. LaneOK(Urgent, q.lanes[Urgent], cfg) /\ LaneOK(DeltaL, q.lanes[DeltaL], cfg) /\ LaneOK(Bulk, q.lanes[Bulk], cfg)
      BY <1>1, ThreeLanes DEF Sound
    <2>3. q.total = (SumSize(q.lanes[Urgent]) + SumSize(q.lanes[DeltaL])) + SumSize(q.lanes[Bulk])
      BY <1>1 DEF Sound
    <2>. QED BY <1>1, <2>1, <2>2, <2>3, LanesTogether
  <1>3. OqTypeOK
    <2>1. Frames(cfg) \subseteq Msg
      BY DEF Frames
    <2>2. q \in [lanes : [Lanes -> Seq(Msg)], bytes : [Lanes -> Nat], total : Nat, cfg : Nat \cup {Own}, tree : Nat \cup {Own}]
      <3>1. q \in QueueRec(cfg)
        BY <1>1 DEF Sound
      <3>2. Seq(Frames(cfg)) \subseteq Seq(Msg)
        BY <2>1
      <3>. QED BY <3>1, <3>2 DEF QueueRec
    <2>3. writing \in Msg \cup {None} /\ socket \in Seq(Msg)
      BY <1>1, <2>1
    <2>4. {linked, dead, pushed, push, lost} \subseteq BOOLEAN
      BY DEF OqInv, OqBase
    <2>. QED BY <2>2, <2>3, <2>4 DEF OqInv, OqBase, OqTypeOK
  <1>4. BytesExact
    BY <1>1, <1>2 DEF BytesExact, Sound
  <1>. DEFINE sf == socket \o Flight
  <1>5. sf \in Seq(Frames(cfg)) /\ InPipe = sf \o Order
    <2>1. sf \in Seq(Frames(cfg))
      BY <1>1, ConcatProperties
    <2>. QED BY <2>1 DEF InPipe, Flight
  <1>6. ASSUME NEW x, NEW cmd \in {"cfg", "tree"} PROVE After(x, InPipe, cmd) = After(Reach(x, cmd), q.lanes[Bulk], cmd)
    <2>1. After(x, sf, cmd) = Reach(x, cmd)
      BY <1>1, AfterConcat DEF Reach
    <2>. HIDE DEF sf
    <2>2. After(x, sf \o Order, cmd) = After(After(x, sf, cmd), Order, cmd)
      BY <1>1, <1>2, <1>5, AfterConcat
    <2>3. After(After(x, sf, cmd), Order, cmd) = After(After(x, sf, cmd), q.lanes[Bulk], cmd)
      BY <1>2 DEF Together
    <2>. QED BY <2>1, <2>2, <2>3, <1>5
  <1>7. SentIsTrue
    <2>. SUFFICES ASSUME linked, ~dead
                  PROVE  /\ q.cfg # Own => LET v == Newest("cfg")
                                           IN  \/ push
                                               \/ v # Own /\ Content[v] = q.cfg
                                               \/ v = Own /\ bot.cfg # Own /\ Content[bot.cfg] = q.cfg
                         /\ q.tree # Own => LET t == Newest("tree") IN IF t = Own THEN bot.tree = q.tree ELSE t = q.tree
      BY DEF SentIsTrue
    <2>1. CfgBooks(q, CfgReach, push) /\ TreeBooks(q, TreeReach)
      BY DEF OqInv, OqBooks
    <2>2. After(CfgReach, q.lanes[Bulk], "cfg") = IF Newest("cfg") = Own THEN bot.cfg ELSE Newest("cfg")
      BY <1>6 DEF CfgReach, After, Newest
    <2>3. After(TreeReach, q.lanes[Bulk], "tree") = IF Newest("tree") = Own THEN bot.tree ELSE Newest("tree")
      BY <1>6 DEF TreeReach, After, Newest
    <2>. DEFINE e == After(CfgReach, q.lanes[Bulk], "cfg")
                g == After(TreeReach, q.lanes[Bulk], "tree")
                V == Newest("cfg")
                W == Newest("tree")
    <2>4. /\ q.cfg # Own => IF e = Own THEN push ELSE Content[e] = q.cfg
          /\ q.tree # Own => g = q.tree
      BY <2>1 DEF CfgBooks, TreeBooks
    <2>5. e = (IF V = Own THEN bot.cfg ELSE V) /\ g = (IF W = Own THEN bot.tree ELSE W)
      BY <2>2, <2>3
    <2>. HIDE DEF e, g, V, W
    <2>6. /\ q.cfg # Own => \/ push
                            \/ V # Own /\ Content[V] = q.cfg
                            \/ V = Own /\ bot.cfg # Own /\ Content[bot.cfg] = q.cfg
          /\ q.tree # Own => IF W = Own THEN bot.tree = q.tree ELSE W = q.tree
      BY <2>4, <2>5
    <2>. QED BY <2>6 DEF V, W
  <1>. QED BY <1>3, <1>4, <1>7 DEF QueueTrue

(* QueueTrue: the byte counts of a bot's queue are those of the frames     *)
(* queued, and a config or tree stands as sent only if it is the newest on *)
(* its way or what the bot runs (enqueue, cfg_push_lost, drain_writable).  *)
THEOREM QueueTrueAlways == OqSpec => []QueueTrue
  <1>1. OqInit => OqInv
    BY OqStart
  <1>2. OqInv /\ [OqNext]_oqVars => OqInv'
    BY OqStep
  <1>3. OqInv => QueueTrue
    BY OqMeaning
  <1>. QED BY <1>1, <1>2, <1>3, PTL DEF OqSpec

(* The frame the bot takes next finds its config.                          *)
LEMMA NextFinds ==
    ASSUME OqInv, socket # <<>>, Head(socket).cmd = "do", ~lost
    PROVE  Covers(bot.cfg, Head(socket).val)
  <1>. DEFINE h == Head(socket)
              t == Tail(socket)
  <1>1. cfg \in Nat /\ socket \in Seq(Frames(cfg)) /\ Follows(bot.cfg, socket)
    BY FlightIs DEF OqInv, OqShape, OqDos
  <1>2. h \in Frames(cfg) /\ t \in Seq(Frames(cfg)) /\ socket = <<h>> \o t
    BY <1>1, HeadFirst
  <1>. HIDE DEF h, t
  <1>3. Less(socket, h, t)
    BY <1>1, <1>2, LessOf
  <1>. QED BY <1>1, <1>3 DEF Less, h

(* ConfigFirst: a command that relies on a config finds it or a later one  *)
(* at the bot, whatever was coalesced, dropped from a lane or held in      *)
(* flight in between (send_cmd_to_bot_after_config, drain_writable).       *)
THEOREM ConfigFirstAlways == OqSpec => ConfigFirst
  <1>1. OqInit => OqInv
    BY OqStart
  <1>2. OqInv /\ [OqNext]_oqVars => OqInv'
    BY OqStep
  <1>3. OqInv => (socket # <<>> /\ socket' = Tail(socket) /\ Head(socket).cmd = "do" /\ ~lost
                    => bot.cfg = Own \/ \E w \in Versions : w >= Head(socket).val /\ Content[w] = Content[bot.cfg])
    BY NextFinds DEF Covers
  <1>. QED BY <1>1, <1>2, <1>3, PTL DEF OqSpec, ConfigFirst
=============================================================================
