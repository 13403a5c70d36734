------------------------------ MODULE LinkSeq ------------------------------
(***************************************************************************)
(* The sequenced framing of a link that just authenticated.  Each end      *)
(* offers it; an end answers the other's offer with "go" and numbers every *)
(* frame it seals after that "go"; the reader expects numbers from the     *)
(* "go" on.  Frames are sealed when they leave their lane, so the number   *)
(* follows the wire order, not the order of queueing.  A frame whose       *)
(* number is not the expected one does not open, and costs the link.       *)
(*                                                                         *)
(* The network is TCP below an untrusted path: a bounded number of frames  *)
(* may be repeated, swapped or removed.                                    *)
(***************************************************************************)
EXTENDS Integers, Sequences

CONSTANTS
    Speaks,     \* ends that know CMD_LINK_SEQ (an older node ignores it)
    UrgentCap,  \* MAX_QUEUE_PER_LANE of the URGENT lane
    MaxData,    \* bound: data frames each end sends
    MaxFaults   \* bound: frames repeated, swapped or removed

Ends == {1, 2}
Far(e) == 3 - e

ASSUME LinkSeqAssumption ==
    /\ Speaks \subseteq Ends
    /\ UrgentCap \in Nat \ {0} /\ MaxData \in Nat /\ MaxFaults \in Nat

VARIABLES
    up,      \* the link
    st,      \* st[e]: link_offered .. link_rx_ctr of e's client record
    urgent,  \* urgent[e]: e's URGENT lane
    bulk,    \* bulk[e]: the lanes below it, as one
    wire,    \* wire[e]: sealed frames from e, oldest first
    sent,    \* sent[e]: data frames e queued so far
    sealed,  \* history, sealed[e]: frames e sealed under a number, in order
    opened,  \* history, opened[e]: frames that opened at e under a number
    faults

lsVars == <<up, st, urgent, bulk, wire, sent, sealed, opened, faults>>

(* A frame: "offer", "go" or data, told apart by a number.                 *)
Plain  == {"offer", "go"} \X {0} \cup {"data"} \X (1 .. MaxData)
Sealed == [msg : Plain, seq : Nat]       \* seq 0: sealed without a number

Side == [offered : BOOLEAN, go_queued : BOOLEAN, tx_seq : BOOLEAN, tx_ctr : Nat,
         rx_seq : BOOLEAN, rx_ctr : Nat]

LsTypeOK ==
    /\ up \in BOOLEAN
    /\ st \in [Ends -> Side]
    /\ urgent \in [Ends -> Seq(Plain)] /\ bulk \in [Ends -> Seq(Plain)]
    /\ wire \in [Ends -> Seq(Sealed)]
    /\ sent \in [Ends -> 0 .. MaxData]
    /\ sealed \in [Ends -> Seq(Plain)] /\ opened \in [Ends -> Seq(Plain)]
    /\ faults \in 0 .. MaxFaults

(* link_offer at both ends, at authentication.                             *)
LsInit ==
    /\ up = TRUE
    /\ st = [e \in Ends |-> [offered |-> FALSE, go_queued |-> FALSE, tx_seq |-> FALSE,
                             tx_ctr |-> 0, rx_seq |-> FALSE, rx_ctr |-> 0]]
    /\ urgent = [e \in Ends |-> IF e \in Speaks THEN << <<"offer", 0>> >> ELSE <<>>]
    /\ bulk = [e \in Ends |-> <<>>]
    /\ wire = [e \in Ends |-> <<>>]
    /\ sent = [e \in Ends |-> 0]
    /\ sealed = [e \in Ends |-> <<>>] /\ opened = [e \in Ends |-> <<>>]
    /\ faults = 0

(* A frame is queued: on the URGENT lane (a full one costs the link) or    *)
(* below it.                                                               *)
Send(e, lane) ==
    LET m == <<"data", sent[e] + 1>>
    IN  /\ up /\ sent[e] < MaxData
        /\ sent' = [sent EXCEPT ![e] = @ + 1]
        /\ IF lane = "bulk"
           THEN bulk' = [bulk EXCEPT ![e] = Append(@, m)] /\ UNCHANGED <<urgent, up>>
           ELSE IF Len(urgent[e]) >= UrgentCap
           THEN up' = FALSE /\ UNCHANGED <<urgent, bulk>>
           ELSE urgent' = [urgent EXCEPT ![e] = Append(@, m)] /\ UNCHANGED <<bulk, up>>
        /\ UNCHANGED <<st, wire, sealed, opened, faults>>

(* Mutant: the counter of the frames follows the "go" by one.              *)
SealsLate(e, m) ==
    [frame |-> [msg |-> m, seq |-> IF st[e].tx_seq THEN st[e].tx_ctr + 1 ELSE 0],
     st    |-> [st[e] EXCEPT !.tx_seq = IF m[1] = "go" THEN TRUE ELSE @,
                             !.tx_ctr = IF @ = 0 THEN 0 ELSE @ + 1]]

(* encrypt_into_writing: numbered once our "go" was sealed.                *)
Seals(e, m) ==
    [frame |-> [msg |-> m, seq |-> IF st[e].tx_seq THEN st[e].tx_ctr + 1 ELSE 0],
     st    |-> [st[e] EXCEPT !.tx_seq = IF m[1] = "go" THEN TRUE ELSE @,
                             !.tx_ctr = IF st[e].tx_seq THEN @ + 1 ELSE @]]

(* The next frame of the drain: URGENT first.  A data frame may be too     *)
(* large to seal: it is dropped, and takes no number.                      *)
drain(e, fits) ==
    LET m == IF urgent[e] # <<>> THEN Head(urgent[e]) ELSE Head(bulk[e])
    IN  /\ up
        /\ urgent[e] \o bulk[e] # <<>>
        /\ fits \/ m[1] = "data"
        /\ IF urgent[e] # <<>>
           THEN urgent' = [urgent EXCEPT ![e] = Tail(@)] /\ UNCHANGED bulk
           ELSE bulk' = [bulk EXCEPT ![e] = Tail(@)] /\ UNCHANGED urgent
        /\ IF fits
           THEN /\ wire' = [wire EXCEPT ![e] = Append(@, Seals(e, m).frame)]
                /\ st' = [st EXCEPT ![e] = Seals(e, m).st]
                /\ sealed' = IF st[e].tx_seq THEN [sealed EXCEPT ![e] = Append(@, m)] ELSE sealed
           ELSE UNCHANGED <<wire, st, sealed>>
        /\ UNCHANGED <<up, sent, opened, faults>>

(* link_seq_recv, once the frame has been counted: the record afterwards.  *)
link_seq_recv(e, what) ==
    IF what = "offer" /\ ~st[e].offered
    THEN [st[e] EXCEPT !.offered = TRUE, !.go_queued = TRUE]
    ELSE IF what = "go" /\ st[e].offered /\ ~st[e].rx_seq
    THEN [st[e] EXCEPT !.rx_seq = TRUE, !.rx_ctr = 0]
    ELSE st[e]

AnswersGo(e, what) == what = "offer" /\ ~st[e].offered /\ ~st[e].go_queued

(* Mutant: on a numbered link any number opens.                            *)
OpensAny(e, f) == st[e].rx_seq = (f.seq # 0)

(* The frame opens under the number the reader expects (none before the    *)
(* other end's "go").                                                      *)
Opens(e, f) == f.seq = IF st[e].rx_seq THEN st[e].rx_ctr + 1 ELSE 0

(* handle_client_data at e of the next frame from the far end: a frame     *)
(* that does not open costs the link; one that does is counted, and then   *)
(* acted on.  An older node ignores CMD_LINK_SEQ.                          *)
Receive(e) ==
    LET f       == Head(wire[Far(e)])
        what    == f.msg[1]
        knows   == e \in Speaks /\ what # "data"
        next    == IF knows THEN link_seq_recv(e, what) ELSE st[e]
    IN  /\ up /\ wire[Far(e)] # <<>>
        /\ wire' = [wire EXCEPT ![Far(e)] = Tail(@)]
        /\ IF ~Opens(e, f)
           THEN up' = FALSE /\ UNCHANGED <<st, urgent, opened>>
           ELSE /\ up' = up
                /\ st' = [st EXCEPT ![e] = [next EXCEPT !.rx_ctr = @ + (IF st[e].rx_seq THEN 1 ELSE 0)]]
                /\ urgent' = IF knows /\ AnswersGo(e, what) /\ Len(urgent[e]) < UrgentCap
                             THEN [urgent EXCEPT ![e] = Append(@, <<"go", 0>>)] ELSE urgent
                /\ opened' = IF st[e].rx_seq THEN [opened EXCEPT ![e] = Append(@, f.msg)] ELSE opened
        /\ UNCHANGED <<bulk, sent, sealed, faults>>

(* The path between them repeats, removes or swaps a frame.                *)
Tamper(e) ==
    LET w == wire[e]
    IN  /\ faults < MaxFaults
        /\ faults' = faults + 1
        /\ \E i \in 1 .. Len(w) :
             \/ wire' = [wire EXCEPT ![e] = Append(w, w[i])]
             \/ wire' = [wire EXCEPT ![e] = [k \in 1 .. Len(w) - 1 |-> IF k < i THEN w[k] ELSE w[k + 1]]]
             \/ i > 1 /\ wire' = [wire EXCEPT ![e] = [w EXCEPT ![i] = w[i - 1], ![i - 1] = w[i]]]
        /\ UNCHANGED <<up, st, urgent, bulk, sent, sealed, opened>>

LsNext == \E e \in Ends :
            \/ \E lane \in {"urgent", "bulk"} : Send(e, lane)
            \/ \E fits \in BOOLEAN : drain(e, fits)
            \/ Receive(e)
            \/ Tamper(e)

LsSpec == LsInit /\ [][LsNext]_lsVars

-----------------------------------------------------------------------------
(* Properties                                                              *)

(* On an honest path no frame is ever refused: both ends switch to the     *)
(* numbered frames at the same frame, whatever is queued around the "go".  *)
NeverRefused == faults = 0 =>
    \A e \in Ends : wire[Far(e)] # <<>> => Opens(e, Head(wire[Far(e)]))

(* Under the numbers, whatever the path does, a reader acts on what the    *)
(* other end sealed, in its order, without a gap or a repetition.          *)
Faithful == \A e \in Ends :
    /\ Len(opened[e]) <= Len(sealed[Far(e)])
    /\ \A k \in 1 .. Len(opened[e]) : opened[e][k] = sealed[Far(e)][k]

(* What makes it inductive: the counters count the frames, and a numbered  *)
(* frame on the wire is the one sealed under its number.                   *)
CountersExact == \A e \in Ends :
    /\ st[e].tx_ctr = Len(sealed[e])
    /\ st[e].rx_ctr = Len(opened[e])
    /\ ~st[e].rx_seq => st[e].rx_ctr = 0
WireExact == \A e \in Ends : \A i \in 1 .. Len(wire[e]) :
    LET f == wire[e][i]
    IN  f.seq > 0 => f.seq <= Len(sealed[e]) /\ f.msg = sealed[e][f.seq]
SeqInv == CountersExact /\ WireExact /\ Faithful

(* What makes NeverRefused inductive, end by end.  Of the frames of e on   *)
(* the wire, and of those already opened, the last tx_ctr carry a number:  *)
(* the first Bare(e) of the wire do not.  The "go" is the last of those,   *)
(* or has been read.                                                       *)
Bare(e) == Len(wire[e]) - st[e].tx_ctr
Numbered(e) == \A i \in 1 .. Len(wire[e]) :
    wire[e][i].seq = IF i <= Bare(e) THEN 0 ELSE i - Bare(e)
GoPlaced(e) ==
    /\ st[e].tx_seq /\ ~st[Far(e)].rx_seq => Bare(e) >= 1 /\ wire[e][Bare(e)].msg[1] = "go"
    /\ \A i \in 1 .. Len(wire[e]) : wire[e][i].msg[1] = "go" =>
         st[e].tx_seq /\ ~st[Far(e)].rx_seq /\ i = Bare(e)
    /\ st[Far(e)].rx_seq => st[e].tx_seq /\ Bare(e) = 0 - st[Far(e)].rx_ctr
    /\ ~st[e].tx_seq => st[e].tx_ctr = 0
(* The one "go" waits before the numbers, and answers an offer read.       *)
GoWaits(e) ==
    /\ \A i \in 1 .. Len(urgent[e]) : urgent[e][i][1] = "go" => ~st[e].tx_seq /\ st[e].go_queued
    /\ \A i, k \in 1 .. Len(urgent[e]) : urgent[e][i][1] = "go" /\ urgent[e][k][1] = "go" => i = k
    /\ \A i \in 1 .. Len(bulk[e]) : bulk[e][i][1] = "data"
    /\ st[e].tx_seq => st[e].go_queued
    /\ st[e].go_queued => st[e].offered /\ e \in Speaks /\ Far(e) \in Speaks
    /\ \A i \in 1 .. Len(urgent[e]) : urgent[e][i][1] = "offer" => e \in Speaks
    /\ \A i \in 1 .. Len(wire[e]) : wire[e][i].msg[1] = "offer" => e \in Speaks
(* An offer not read yet is the first frame of its end.                    *)
OfferFirst(e) == e \in Speaks /\ Far(e) \in Speaks /\ ~st[Far(e)].offered =>
    \/ wire[e] = <<>> /\ urgent[e] # <<>> /\ Head(urgent[e])[1] = "offer"
    \/ wire[e] # <<>> /\ Head(wire[e]).msg[1] = "offer"
SwitchInv == faults = 0 =>
    \A e \in Ends : Numbered(e) /\ GoPlaced(e) /\ GoWaits(e) /\ OfferFirst(e)
=============================================================================
