---------------------------- MODULE UpgradeProofs ----------------------------
(***************************************************************************)
(* The run of module Upgrade implements UpgradeAbs, for any mesh, any      *)
(* placement of bots, any selection, wave size and faults, and whichever   *)
(* hubs still hold the retained build of an earlier upgrade.               *)
(*                                                                         *)
(* The invariant has four parts: the driver's table, the history, the      *)
(* processes, and what the frames under way say.  A frame says something   *)
(* that was so when it was sent; it is acted on later, so what it says has *)
(* to be something that never stops being so (Truths).                       *)
(***************************************************************************)
EXTENDS Upgrade, FiniteSetTheorems, WellFoundedInduction, NaturalsInduction, TLAPS

Phases == {"Idle", "Prepare", "Rolling", "Done", "Failed", "Aborted"}
Tables == [phase : Phases, row : [Nodes -> Row], order : Seq(Nodes), sel : SUBSET Nodes]
Words == {"", "ok", "back", "skip", "fail", "aborted", "version-mismatch"}
Ready == [t : {"ready"}, n : Nodes, v : [ok : BOOLEAN, rel : Nat]]
Told1 == [t : {"prepare", "commit", "abort", "presence", "result"}, n : Nodes, v : Words]
Frames == Ready \cup Told1

(* The nodes that may be counted as moved: this never stops being so.      *)
MovedNow == {n \in Nodes : build[n] = "new" \/ n \in Flaky \/ stage = "aborted"}

(* The driver's table R, when G were granted and M may be counted: who is  *)
(* in it is listed; nobody is committed before the plan is closed, or      *)
(* granted twice; hubs wait for the bots; a node seen back has moved.      *)
Table(R, G, M) ==
    /\ R \in Tables
    /\ \A n \in Nodes : R.row[n].st # "none" => \E i \in 1 .. Len(R.order) : R.order[i] = n
    /\ \A n \in Nodes : R.row[n].st \in {"Committed", "Done"} => n \in G
    /\ R.phase = "Idle" => \A n \in Nodes : R.row[n].st = "none"
    /\ R.phase = "Prepare" => \A n \in Nodes : R.row[n].st # "Committed"
    /\ R.phase = "Rolling" => \A n \in Nodes : R.row[n].st = "Ready" => n \notin G
    /\ R.phase = "Rolling" =>
         \A b \in Bots : R.row[b].st = "Ready" => \A h \in Hubs : R.row[h].st # "Committed"
    /\ \A n \in Nodes : R.row[n].back => n \in M

(* The history of the run agrees with its phase.                           *)
Staged ==
    /\ stage = "asking" <=> run.phase = "Prepare"
    /\ stage = "moving" <=> run.phase = "Rolling"
    /\ stage = "idle" => run.phase = "Idle"
    /\ stage \in {"idle", "asking"} => granted = {}

(* A hub h that runs build b and retains p, its process being q, when the  *)
(* stage is s: what is retained is never above what runs, the build of an  *)
(* earlier upgrade is under way only where it was retained, and only once  *)
(* the run is aborted.                                                     *)
Kept(h, b, p, q, s) ==
    /\ p = "new" => b = "new"
    /\ p = "old" => b # "older"
    /\ p = "older" => h \in Retained
    /\ b = "older" => h \in Retained /\ s = "aborted"
    /\ p = "older" /\ (b = "new" \/ q # "up") => s = "aborted"
    /\ q = "restore" => p # "none"

(* A process is replaced only as the run, or its own watchdog, has it.     *)
Hosted ==
    /\ up \subseteq Edges
    /\ build \in [Nodes -> {"older", "old", "new"}] /\ prev \in [Hubs -> {"none", "older", "old", "new"}]
    /\ proc \in [Nodes -> {"up", "install", "restore"}]
    /\ \A b \in Bots : build[b] # "older"
    /\ \A h \in Hubs : Kept(h, build[h], prev[h], proc[h], stage)
    /\ \A n \in Nodes : proc[n] # "up" \/ build[n] = "new" => n \in granted
    /\ \A n \in Nodes : proc[n] = "restore" => stage = "aborted" \/ n \in Flaky

(* The frames of channel c that say what is so, when G were granted, the   *)
(* stage is s and M may be counted.                                        *)
Truths(c, G, s, M) ==
    {m \in Frames :
       /\ m.t \in {"commit", "abort"} => m.n \in G /\ (c[2] \in Bots => m.n = c[2])
       /\ m.t = "abort" => s = "aborted"
       /\ m.t = "result" => (m.v \in {"ok", "back"} => m.n \in M)}
Carries(w, G, s, M) ==
    /\ w = [c \in Chans |-> w[c]]
    /\ \A c \in Chans : w[c] \in Seq(Truths(c, G, s, M))

UpInv ==
    /\ Table(run, granted, MovedNow)
    /\ Staged
    /\ Hosted
    /\ Carries(wire, granted, stage, MovedNow)

-----------------------------------------------------------------------------
(* Finite sets and places of a sequence.                                   *)

(* A finite set has an element of greatest value.                          *)
LEMMA Greatest ==
    ASSUME NEW S, IsFiniteSet(S), S # {}, NEW T \in [S -> Nat]
    PROVE  \E m \in S : \A y \in S : T[y] <= T[m]
<1> DEFINE Over(n) == {y \in S : T[y] >= T[n]}
           D == {Over(n) : n \in S}
<1>1. D \subseteq FiniteSubsetsOf(S) /\ D # {}
  <2>1. \A n \in S : Over(n) \in SUBSET S  OBVIOUS
  <2>2. \A n \in S : IsFiniteSet(Over(n))  BY <2>1, FS_Subset
  <2> HIDE DEF Over
  <2>3. \A e \in D : e \in SUBSET S /\ IsFiniteSet(e)  BY <2>1, <2>2
  <2>4. D # {}  OBVIOUS
  <2> HIDE DEF D
  <2> QED BY <2>3, <2>4 DEF FiniteSubsetsOf
<1> HIDE DEF D
<1>2. PICK d \in D : \A e \in D : ~(<<e, d>> \in StrictSubsetOrdering(S))
  BY <1>1, FS_StrictSubsetOrderingWellFounded, WFMin
<1>3. PICK m \in S : d = Over(m)  BY <1>2 DEF D
<1>4. ASSUME NEW y \in S, ~(T[y] <= T[m]) PROVE FALSE
  <2>1. Over(y) \in D  BY DEF D
  <2>2. T[y] \in Nat /\ T[m] \in Nat  OBVIOUS
  <2>3. Over(y) \subseteq d /\ Over(y) # d
    <3>1. m \in d /\ m \notin Over(y)  BY <1>3, <1>4, <2>2
    <3>2. \A u \in Over(y) : u \in Over(m)  BY <1>4, <2>2
    <3> QED BY <3>1, <3>2, <1>3
  <2> QED BY <1>1, <1>2, <2>1, <2>3 DEF StrictSubsetOrdering, FiniteSubsetsOf
<1> QED BY <1>4

(* At takes each place of J once.                                          *)
LEMMA AtPlaces ==
    ASSUME NEW T, NEW t \in Seq(T), NEW J \in SUBSET (1 .. Len(t))
    PROVE  /\ At(t, J) \in Seq(T)
           /\ \A k \in 1 .. Len(At(t, J)) : \E i \in J : At(t, J)[k] = t[i]
           /\ \A i \in J : \E k \in 1 .. Len(At(t, J)) : At(t, J)[k] = t[i]
<1> DEFINE upto(i) == {j \in J : j <= i}
           rank == [i \in J |-> Cardinality(upto(i))]
           N == Cardinality(J)
<1>1. IsFiniteSet(J) /\ N \in Nat
  <2>1. IsFiniteSet(1 .. Len(t))
    BY FS_Interval
  <2>2. IsFiniteSet(J)
    BY <2>1, FS_Subset
  <2> QED BY <2>2, FS_CardinalityType
<1>2. \A i \in J : IsFiniteSet(upto(i)) /\ Cardinality(upto(i)) \in 1 .. N
  <2> SUFFICES ASSUME NEW i \in J PROVE IsFiniteSet(upto(i)) /\ Cardinality(upto(i)) \in 1 .. N
    OBVIOUS
  <2>1. upto(i) \in SUBSET J /\ i \in upto(i)
    OBVIOUS
  <2> HIDE DEF upto
  <2>2. IsFiniteSet(upto(i)) /\ Cardinality(upto(i)) <= N
    BY <2>1, <1>1, FS_Subset
  <2>3. Cardinality(upto(i)) \in Nat /\ Cardinality(upto(i)) # 0
    BY <2>1, <2>2, FS_EmptySet, FS_CardinalityType
  <2> QED BY <2>2, <2>3, <1>1
<1>3. \A i, j \in J : i < j => Cardinality(upto(i)) # Cardinality(upto(j))
  <2> SUFFICES ASSUME NEW i \in J, NEW j \in J, i < j PROVE Cardinality(upto(i)) # Cardinality(upto(j))
    OBVIOUS
  <2>1. upto(i) \in SUBSET upto(j) /\ j \in upto(j) /\ j \notin upto(i)
    <3>1. \A x \in J : x \in Nat
      OBVIOUS
    <3>2. \A x \in upto(i) : x \in upto(j)
      BY <3>1
    <3>3. j \in upto(j) /\ j \notin upto(i)
      BY <3>1
    <3> QED BY <3>2, <3>3
  <2> HIDE DEF upto
  <2> QED BY <2>1, <1>2, FS_Subset
<1>4. rank \in Injection(J, 1 .. N)
  <2>1. rank \in [J -> 1 .. N]
    BY <1>2
  <2>2. ASSUME NEW i \in J, NEW j \in J, rank[i] = rank[j] PROVE i = j
    <3> HIDE DEF upto
    <3>1. Cardinality(upto(i)) = Cardinality(upto(j))
      BY <2>2
    <3>2. ~(i < j) /\ ~(j < i)
      BY <3>1, <1>3
    <3> QED BY <3>2
  <2> HIDE DEF rank
  <2> QED BY <2>1, <2>2 DEF Injection, IsInjective
<1>5. \A k \in 1 .. N : \E i \in J : rank[i] = k
  <2>1. IsFiniteSet(1 .. N) /\ Cardinality(1 .. N) = N
    BY <1>1, FS_Interval
  <2> HIDE DEF rank
  <2>2. rank \in Surjection(J, 1 .. N)
    BY <1>4, <2>1, FS_Injection
  <2> QED BY <2>2 DEF Surjection
<1> DEFINE q == [k \in 1 .. N |-> t[CHOOSE i \in J : Cardinality(upto(i)) = k]]
<1>6. At(t, J) = q
  <2>1. J \in SUBSET DOMAIN t
    OBVIOUS
  <2> QED BY <2>1 DEF At
<1>7. \A k \in 1 .. N : \E i \in J : q[k] = t[i] /\ rank[i] = k
  <2> SUFFICES ASSUME NEW k \in 1 .. N PROVE \E i \in J : q[k] = t[i] /\ rank[i] = k
    OBVIOUS
  <2>1. \E i \in J : Cardinality(upto(i)) = k
    BY <1>5
  <2> HIDE DEF upto
  <2> QED BY <2>1
<1> HIDE DEF rank
<1>8. q \in Seq(T) /\ Len(q) = N
  <2>1. \A i \in J : t[i] \in T
    OBVIOUS
  <2>2. DOMAIN q = 1 .. N /\ q = [k \in 1 .. N |-> q[k]]
    OBVIOUS
  <2> HIDE DEF q
  <2>3. \A k \in 1 .. N : q[k] \in T
    BY <1>7, <2>1
  <2>4. q \in [1 .. N -> T]
    BY <2>2, <2>3
  <2> HIDE DEF N
  <2> QED BY <2>2, <2>4, <1>1
<1>9. \A i \in J : \E k \in 1 .. N : q[k] = t[i]
  <2> SUFFICES ASSUME NEW i \in J PROVE \E k \in 1 .. N : q[k] = t[i]
    OBVIOUS
  <2>1. rank[i] \in 1 .. N
    BY <1>4 DEF Injection
  <2>2. PICK j \in J : q[rank[i]] = t[j] /\ rank[j] = rank[i]
    BY <2>1, <1>7
  <2>3. i = j
    BY <2>2, <1>4 DEF Injection, IsInjective
  <2> QED BY <2>1, <2>2, <2>3
<1> HIDE DEF q
<1> QED BY <1>6, <1>7, <1>8, <1>9

-----------------------------------------------------------------------------
(* Frames.                                                                 *)

(* A channel has two ends; a connection that stands has its two channels.  *)
LEMMA ChanEnds ==
    /\ \A c \in Chans : c = <<c[1], c[2]>> /\ c[1] \in Nodes /\ c[2] \in Nodes /\ {c[1], c[2]} \in Edges
    /\ \A a, b \in Nodes : {a, b} \in Edges => <<a, b>> \in Chans
<1> DEFINE from(a) == {<<a, b>> : b \in {x \in Nodes : {a, x} \in Edges}}
<1>1. \A c : c \in Chans <=> \E a \in Nodes : c \in from(a)
  BY DEF Chans
<1>2. \A a \in Nodes : \A c \in from(a) : \E b \in Nodes : c = <<a, b>> /\ {a, b} \in Edges
  OBVIOUS
<1>3. \A a, b \in Nodes : {a, b} \in Edges => <<a, b>> \in from(a)
  OBVIOUS
<1> HIDE DEF from
<1>4. ASSUME NEW c \in Chans
      PROVE  c = <<c[1], c[2]>> /\ c[1] \in Nodes /\ c[2] \in Nodes /\ {c[1], c[2]} \in Edges
  <2>1. PICK a \in Nodes : \E b \in Nodes : c = <<a, b>> /\ {a, b} \in Edges
    BY <1>1, <1>2
  <2>2. PICK b \in Nodes : c = <<a, b>> /\ {a, b} \in Edges
    BY <2>1
  <2>3. c[1] = a /\ c[2] = b
    BY <2>2
  <2> QED BY <2>2, <2>3
<1> QED BY <1>1, <1>3, <1>4

(* What a frame is made of.                                                *)
LEMMA WordFrame ==
    ASSUME NEW t \in {"prepare", "commit", "abort", "presence", "result"}, NEW n \in Nodes, NEW v \in Words
    PROVE  Frame(t, n, v) \in Frames
  BY DEF Frame, Frames, Told1

(* A READY is a frame.                                                     *)
LEMMA ReadyFrame ==
    ASSUME NEW n \in Nodes, NEW v \in [ok : BOOLEAN, rel : Nat]
    PROVE  Frame("ready", n, v) \in Frames
  BY DEF Frame, Frames, Ready

(* What is so stays so when more is granted, the run is aborted or more    *)
(* nodes have moved.                                                       *)
LEMMA CarriesMore ==
    ASSUME NEW w, NEW G, NEW G2, NEW s, NEW s2, NEW M, NEW M2, Carries(w, G, s, M),
           G \subseteq G2, M \subseteq M2, s = "aborted" => s2 = "aborted"
    PROVE  Carries(w, G2, s2, M2)
<1> SUFFICES ASSUME NEW c \in Chans PROVE w[c] \in Seq(Truths(c, G2, s2, M2))
  BY DEF Carries
<1>1. Truths(c, G, s, M) \subseteq Truths(c, G2, s2, M2)
  BY DEF Truths
<1>2. w[c] \in Seq(Truths(c, G, s, M))
  BY DEF Carries
<1> QED BY <1>1, <1>2

(* A frame is put on a wire: what it says is so.                           *)
LEMMA CarriesSend ==
    ASSUME NEW w, NEW G, NEW s, NEW M, Carries(w, G, s, M), NEW a, NEW b, NEW m,
           {a, b} \in up => m \in Truths(<<a, b>>, G, s, M)
    PROVE  Carries(Send(w, a, b, m), G, s, M)
<1>1. CASE {a, b} \notin up
  BY <1>1 DEF Send
<1>2. CASE {a, b} \in up
  <2> DEFINE w2 == [w EXCEPT ![<<a, b>>] = Append(@, m)]
  <2>1. Send(w, a, b, m) = w2
    BY <1>2 DEF Send
  <2>2. DOMAIN w = Chans
    BY DEF Carries
  <2>3. w2 = [c \in Chans |-> w2[c]]
    BY <2>2
  <2>4. ASSUME NEW c \in Chans PROVE w2[c] \in Seq(Truths(c, G, s, M))
    <3>1. w[c] \in Seq(Truths(c, G, s, M))
      BY DEF Carries
    <3>2. CASE c = <<a, b>>
      <4>1. w2[c] = Append(w[c], m)
        BY <3>2, <2>2
      <4> QED BY <3>1, <3>2, <4>1, <1>2
    <3>3. CASE c # <<a, b>>
      <4>1. w2[c] = w[c]
        BY <3>3, <2>2
      <4> QED BY <3>1, <4>1
    <3> QED BY <3>2, <3>3
  <2> QED BY <2>1, <2>3, <2>4 DEF Carries
<1> QED BY <1>1, <1>2

(* A frame is taken off a wire: it said what is so.                        *)
LEMMA CarriesTook ==
    ASSUME NEW G, NEW s, NEW M, Carries(wire, G, s, M), NEW a, NEW b, <<a, b>> \in Chans, wire[<<a, b>>] # <<>>
    PROVE  /\ Carries(Took(a, b), G, s, M)
           /\ Head(wire[<<a, b>>]) \in Truths(<<a, b>>, G, s, M)
<1> DEFINE w2 == [wire EXCEPT ![<<a, b>>] = Tail(@)]
<1>1. Took(a, b) = w2
  BY DEF Took
<1>2. DOMAIN wire = Chans /\ wire[<<a, b>>] \in Seq(Truths(<<a, b>>, G, s, M))
  BY DEF Carries
<1>3. w2 = [c \in Chans |-> w2[c]]
  BY <1>2
<1>4. ASSUME NEW c \in Chans PROVE w2[c] \in Seq(Truths(c, G, s, M))
  <2>1. wire[c] \in Seq(Truths(c, G, s, M))
    BY DEF Carries
  <2>2. CASE c = <<a, b>>
    <3>1. w2[c] = Tail(wire[c])
      BY <2>2, <1>2
    <3> QED BY <3>1, <2>1, <2>2, <1>2
  <2>3. CASE c # <<a, b>>
    <3>1. w2[c] = wire[c]
      BY <2>3, <1>2
    <3> QED BY <2>1, <3>1
  <2> QED BY <2>2, <2>3
<1>5. Head(wire[<<a, b>>]) \in Truths(<<a, b>>, G, s, M)
  BY <1>2
<1> QED BY <1>1, <1>3, <1>4, <1>5 DEF Carries

(* Wires each of which is as it was, or empty.                             *)
LEMMA CarriesLess ==
    ASSUME NEW w, NEW G, NEW s, NEW M, Carries(w, G, s, M), NEW w2, w2 = [c \in Chans |-> w2[c]],
           \A c \in Chans : w2[c] \in {w[c], <<>>}
    PROVE  Carries(w2, G, s, M)
<1> SUFFICES ASSUME NEW c \in Chans PROVE w2[c] \in Seq(Truths(c, G, s, M))
  BY DEF Carries
<1>1. w[c] \in Seq(Truths(c, G, s, M)) /\ <<>> \in Seq(Truths(c, G, s, M))
  BY DEF Carries
<1> QED BY <1>1

(* The wires of a process that is gone are empty.                          *)
LEMMA CarriesGone ==
    ASSUME NEW w, NEW G, NEW s, NEW M, Carries(w, G, s, M), NEW n
    PROVE  Carries(Gone(n, w), G, s, M)
  BY CarriesLess DEF Gone

(* One frame of kind t to each node of ns: each says what is so.           *)
LEMMA CarriesTold ==
    ASSUME NEW w, NEW G, NEW s, NEW M, Carries(w, G, s, M), NEW R \in Tables,
           NEW t \in {"prepare", "commit", "abort"}, NEW ns \in SUBSET Nodes,
           t \in {"commit", "abort"} => ns \subseteq G, t = "abort" => s = "aborted"
    PROVE  Carries(Told(w, R, t, ns), G, s, M)
<1> DEFINE w2 == Told(w, R, t, ns)
           q == [i \in DOMAIN R.order |-> Frame(t, R.order[i], "")]
           J(c) == {i \in DOMAIN R.order : R.order[i] \in ns /\ Hop(R, R.order[i]) = c[2]}
<1>1. R.order \in Seq(Nodes) /\ R.row \in [Nodes -> Row]
  BY DEF Tables
<1>2. q \in Seq(Frames) /\ Len(q) = Len(R.order)
  <2>1. \A i \in 1 .. Len(R.order) : Frame(t, R.order[i], "") \in Frames
    <3>1. \A i \in 1 .. Len(R.order) : R.order[i] \in Nodes
      BY <1>1
    <3>2. "" \in Words
      BY DEF Words
    <3> QED BY <3>1, <3>2, WordFrame
  <2>2. DOMAIN R.order = 1 .. Len(R.order) /\ Len(R.order) \in Nat
    BY <1>1
  <2> DEFINE N == Len(R.order)
  <2>3. q \in [1 .. N -> Frames]
    BY <2>1, <2>2
  <2> HIDE DEF q, N
  <2>4. q \in Seq(Frames) /\ Len(q) = N
    <3>1. N \in Nat
      BY <2>2 DEF N
    <3> QED BY <2>3, <3>1
  <2> QED BY <2>4 DEF N
<1>3. ASSUME NEW c \in Chans PROVE At(q, J(c)) \in Seq(Truths(c, G, s, M))
  <2>1. J(c) \in SUBSET (1 .. Len(q)) /\ DOMAIN R.order = 1 .. Len(R.order)
    <3>1. DOMAIN R.order = 1 .. Len(R.order)
      BY <1>1
    <3>2. J(c) \in SUBSET (DOMAIN R.order)
      OBVIOUS
    <3> HIDE DEF J, q
    <3> QED BY <3>1, <3>2, <1>2
  <2>2. \A i \in J(c) : q[i] \in Truths(c, G, s, M)
    <3> SUFFICES ASSUME NEW i \in J(c) PROVE q[i] \in Truths(c, G, s, M)
      OBVIOUS
    <3>1. i \in 1 .. Len(R.order) /\ R.order[i] \in ns /\ Hop(R, R.order[i]) = c[2]
      BY <2>1
    <3>2. q[i] = Frame(t, R.order[i], "") /\ q[i] \in Frames
      <4>1. q[i] = Frame(t, R.order[i], "")
        BY <2>1, <3>1
      <4> HIDE DEF q
      <4>2. q[i] \in Frames
        BY <1>2, <3>1
      <4> QED BY <4>1, <4>2
    <3>3. c[2] \in Bots => R.order[i] = c[2]
      <4>1. R.order[i] \in Nodes /\ R.row[R.order[i]].via \in Hubs \cup {None}
        BY <1>1, <3>1 DEF Row
      <4> QED BY <3>1, <4>1, UpgradeAssumption DEF Hop
    <3>4. q[i].t = t /\ q[i].n = R.order[i]
      BY <3>2 DEF Frame
    <3> HIDE DEF q
    <3> QED BY <3>1, <3>2, <3>3, <3>4 DEF Truths
  <2> HIDE DEF q, J
  <2>3. /\ At(q, J(c)) \in Seq(Frames)
        /\ \A k \in 1 .. Len(At(q, J(c))) : \E i \in J(c) : At(q, J(c))[k] = q[i]
    BY <1>2, <2>1, AtPlaces
  <2> DEFINE p == At(q, J(c))
  <2>4. p \in Seq(Frames) /\ \A k \in 1 .. Len(p) : p[k] \in Truths(c, G, s, M)
    BY <2>2, <2>3
  <2> HIDE DEF p
  <2>5. p \in Seq(Truths(c, G, s, M))
    BY <2>4
  <2> QED BY <2>5 DEF p
<1>4. w2 = [c \in Chans |-> w2[c]]
  BY DEF Told
<1>5. ASSUME NEW c \in Chans PROVE w2[c] \in Seq(Truths(c, G, s, M))
  <2>1. w[c] \in Seq(Truths(c, G, s, M))
    BY DEF Carries
  <2>2. w2[c] = IF c[1] = Driver /\ {Driver, c[2]} \in up THEN w[c] \o At(q, J(c)) ELSE w[c]
    BY DEF Told
  <2> HIDE DEF w2, q, J
  <2> QED BY <1>3, <2>1, <2>2
<1> HIDE DEF w2
<1>6. Carries(w2, G, s, M)
  BY <1>4, <1>5 DEF Carries
<1> QED BY <1>6 DEF w2

(* The question is passed on.                                              *)
LEMMA CarriesRelayed ==
    ASSUME NEW w, NEW G, NEW s, NEW M, Carries(w, G, s, M), NEW h, NEW a, NEW bots
    PROVE  Carries(Relayed(h, a, bots, w), G, s, M)
<1> DEFINE w2 == Relayed(h, a, bots, w)
<1>1. w2 = [c \in Chans |-> w2[c]]
  BY DEF Relayed
<1>2. ASSUME NEW c \in Chans PROVE w2[c] \in Seq(Truths(c, G, s, M))
  <2>1. w[c] \in Seq(Truths(c, G, s, M))
    BY DEF Carries
  <2>2. w2[c] \in {w[c], Append(w[c], Frame("prepare", c[2], ""))}
    BY DEF Relayed
  <2> DEFINE m == Frame("prepare", c[2], "")
  <2>3. m \in Truths(c, G, s, M)
    <3>1. c[2] \in Nodes /\ "" \in Words
      BY ChanEnds DEF Words
    <3>2. m \in Frames
      BY <3>1, WordFrame
    <3>3. m.t = "prepare"
      BY DEF Frame
    <3> HIDE DEF m
    <3> QED BY <3>2, <3>3 DEF Truths
  <2> HIDE DEF w2, m
  <2>4. Append(w[c], m) \in Seq(Truths(c, G, s, M))
    BY <2>1, <2>3
  <2>5. w2[c] \in {w[c], Append(w[c], m)}
    BY <2>2 DEF m
  <2> QED BY <2>1, <2>4, <2>5
<1> HIDE DEF w2
<1>3. Carries(w2, G, s, M)
  BY <1>1, <1>2 DEF Carries
<1> QED BY <1>3 DEF w2

(* When a frame says what is so.                                           *)
LEMMA TrueFrame ==
    ASSUME NEW t \in {"prepare", "commit", "abort", "presence", "result"}, NEW n \in Nodes, NEW v \in Words,
           NEW c, NEW G, NEW s, NEW M,
           t \in {"commit", "abort"} => n \in G /\ (c[2] \in Bots => n = c[2]),
           t = "abort" => s = "aborted",
           t = "result" => (v \in {"ok", "back"} => n \in M)
    PROVE  Frame(t, n, v) \in Truths(c, G, s, M)
<1> DEFINE m == Frame(t, n, v)
<1>1. m \in Frames
  BY WordFrame
<1>2. m.t = t /\ m.n = n /\ m.v = v
  BY DEF Frame
<1> HIDE DEF m
<1>3. m \in Truths(c, G, s, M)
  BY <1>1, <1>2 DEF Truths
<1> QED BY <1>3 DEF m

(* A READY says nothing that has to be so.                                 *)
LEMMA TrueReady ==
    ASSUME NEW n \in Nodes, NEW v \in [ok : BOOLEAN, rel : Nat], NEW c, NEW G, NEW s, NEW M
    PROVE  Frame("ready", n, v) \in Truths(c, G, s, M)
<1> DEFINE m == Frame("ready", n, v)
<1>1. m \in Frames
  BY ReadyFrame
<1>2. m.t = "ready"
  BY DEF Frame
<1> HIDE DEF m
<1>3. m \in Truths(c, G, s, M)
  BY <1>1, <1>2 DEF Truths
<1> QED BY <1>3 DEF m

(* An answer is as true on the next link.                                  *)
LEMMA TrueAnswer ==
    ASSUME NEW c, NEW d, NEW G, NEW s, NEW M, NEW m \in Truths(c, G, s, M), m.t \in {"ready", "result"}
    PROVE  m \in Truths(d, G, s, M)
  BY DEF Truths

(* What the kinds of frames carry.                                         *)
LEMMA FrameKinds ==
    ASSUME NEW m \in Frames
    PROVE  m.n \in Nodes /\ (m.t = "ready" => m \in Ready) /\ (m.t # "ready" => m.v \in Words)
  BY DEF Frames, Told1, Ready

-----------------------------------------------------------------------------
(* The driver's table.                                                     *)

(* Table R becomes R2 without a COMMIT: a node is committed only if it     *)
(* was, counted only if it was or is committed and has moved.              *)
Moves(R, R2, M) ==
    /\ R2 \in Tables
    /\ R2.phase \in {R.phase, "Done", "Failed", "Aborted"}
    /\ \A n \in Nodes :
         /\ R2.row[n].st # "none" => \E i \in 1 .. Len(R2.order) : R2.order[i] = n
         /\ R.phase = "Idle" /\ R2.phase = "Idle" => R2.row[n].st = "none"
         /\ R2.row[n].st = "Committed" => R.row[n].st = "Committed"
         /\ R2.row[n].st = "Done" => R.row[n].st = "Done" \/ (R.row[n].st = "Committed" /\ n \in M)
         /\ R2.row[n].st = "Ready" => R.row[n].st = "Ready" \/ R.phase = "Prepare"
         /\ R2.row[n].back => n \in M

(* Such a move keeps what is known of the table.                           *)
LEMMA MovesKeep ==
    ASSUME NEW G, NEW M, NEW R, NEW R2, Table(R, G, M), Moves(R, R2, M)
    PROVE  Table(R2, G, M)
<1>1. R2 \in Tables /\ R2.phase \in {R.phase, "Done", "Failed", "Aborted"}
  BY DEF Moves
<1>2. \A n \in Nodes : R2.row[n].st # "none" => \E i \in 1 .. Len(R2.order) : R2.order[i] = n
  BY DEF Moves
<1>3. R2.phase = "Idle" => \A n \in Nodes : R2.row[n].st = "none"
  BY <1>1 DEF Moves
<1>4. R2.phase = "Prepare" => \A n \in Nodes : R2.row[n].st # "Committed"
  BY <1>1 DEF Moves, Table
<1>5. R2.phase = "Rolling" => R.phase = "Rolling"
  BY <1>1
<1>6. R2.phase = "Rolling" => \A n \in Nodes : R2.row[n].st = "Ready" => n \notin G
  BY <1>5 DEF Moves, Table
<1>7. R2.phase = "Rolling" =>
         \A b \in Bots : R2.row[b].st = "Ready" => \A h \in Hubs : R2.row[h].st # "Committed"
  BY <1>5 DEF Moves, Table, Nodes
<1>8. \A n \in Nodes : R2.row[n].back => n \in M
  BY DEF Moves
<1>9. \A n \in Nodes : R2.row[n].st \in {"Committed", "Done"} => n \in G
  BY DEF Moves, Table
<1> QED BY <1>1, <1>2, <1>3, <1>4, <1>6, <1>7, <1>8, <1>9, Zenon DEF Table

(* Two moves are a move.                                                   *)
LEMMA MovesTwice ==
    ASSUME NEW M, NEW R, NEW R2, NEW R3, Moves(R, R2, M), Moves(R2, R3, M)
    PROVE  Moves(R, R3, M)
<1>1. R3 \in Tables /\ R3.phase \in {R.phase, "Done", "Failed", "Aborted"}
  BY DEF Moves
<1>2. R2.phase = "Prepare" => R.phase = "Prepare"
  BY DEF Moves
<1>3. R3.phase = "Idle" => R2.phase = "Idle"
  BY DEF Moves
<1> QED BY <1>1, <1>2, <1>3 DEF Moves

(* A table with one row or its phase changed.                              *)
LEMMA RowSet ==
    ASSUME NEW R \in Tables, NEW n \in Nodes, NEW r \in Row
    PROVE  LET R2 == [R EXCEPT !.row[n] = r] IN
           /\ R2 \in Tables /\ R2.phase = R.phase /\ R2.order = R.order /\ R2.sel = R.sel
           /\ R2.row[n] = r /\ \A k \in Nodes : k # n => R2.row[k] = R.row[k]
  BY DEF Tables

(* No change at all is a move.                                             *)
LEMMA MovesNone ==
    ASSUME NEW G, NEW M, NEW R, Table(R, G, M)
    PROVE  Moves(R, R, M)
  BY DEF Moves, Table

(* One row changed: what has to be seen of it.                             *)
LEMMA MovesRow ==
    ASSUME NEW G, NEW M, NEW R, Table(R, G, M), NEW n \in Nodes, NEW r \in Row,
           R.row[n].st # "none",
           r.st \in {R.row[n].st, "Failed", "Unable"} \/ (R.row[n].st = "Committed" /\ r.st = "Done" /\ n \in M)
             \/ (r.st = "Ready" /\ R.phase = "Prepare"),
           r.back => n \in M
    PROVE  Moves(R, [R EXCEPT !.row[n] = r], M)
<1> DEFINE R2 == [R EXCEPT !.row[n] = r]
<1>1. R \in Tables
  BY DEF Table
<1>2. /\ R2 \in Tables /\ R2.phase = R.phase /\ R2.order = R.order
      /\ R2.row[n] = r /\ \A k \in Nodes : k # n => R2.row[k] = R.row[k]
  BY <1>1, RowSet
<1> HIDE DEF R2
<1>3. R.phase # "Idle"
  BY DEF Table
<1>4. Moves(R, R2, M)
  BY <1>2, <1>3 DEF Moves, Table
<1> QED BY <1>4 DEF R2

(* The run ends, its table as it is.                                       *)
LEMMA MovesEnd ==
    ASSUME NEW G, NEW M, NEW R, Table(R, G, M), NEW p \in {"Done", "Failed", "Aborted"}
    PROVE  Moves(R, [R EXCEPT !.phase = p], M)
<1> DEFINE R2 == [R EXCEPT !.phase = p]
<1>1. R \in Tables
  BY DEF Table
<1>2. R2 \in Tables /\ R2.phase = p /\ R2.order = R.order /\ R2.row = R.row
  BY <1>1 DEF Tables, Phases
<1> HIDE DEF R2
<1>3. Moves(R, R2, M)
  BY <1>2 DEF Moves, Table
<1> QED BY <1>3 DEF R2

(* What note_result, note_presence, tick and note_ready make of the table. *)
LEMMA MovesState ==
    ASSUME NEW G, NEW M, NEW R, Table(R, G, M), NEW n \in Nodes, R.row[n].st # "none",
           NEW x \in {"Failed", "Unable", "Done"}, x = "Done" => R.row[n].st = "Committed" /\ n \in M
    PROVE  Moves(R, [R EXCEPT !.row[n].st = x], M)
<1> DEFINE r == [R.row[n] EXCEPT !.st = x]
<1>1. R.row[n] \in Row
  BY DEF Table, Tables
<1>2. r \in Row /\ r.st = x /\ r.back = R.row[n].back
  BY <1>1 DEF Row
<1>3. [R EXCEPT !.row[n].st = x] = [R EXCEPT !.row[n] = r]
  BY DEF Table, Tables
<1>4. r.back => n \in M
  BY <1>2 DEF Table
<1> HIDE DEF r
<1>5. Moves(R, [R EXCEPT !.row[n] = r], M)
  BY <1>2, <1>4, MovesRow
<1> QED BY <1>3, <1>5

(* A node that moved is seen back.                                         *)
LEMMA MovesBack ==
    ASSUME NEW G, NEW M, NEW R, Table(R, G, M), NEW n \in M, M \subseteq Nodes, R.row[n].st # "none"
    PROVE  Moves(R, [R EXCEPT !.row[n].back = TRUE], M)
<1> DEFINE r == [R.row[n] EXCEPT !.back = TRUE]
<1>1. R.row[n] \in Row
  BY DEF Table, Tables
<1>2. r \in Row /\ r.st = R.row[n].st
  BY <1>1 DEF Row
<1>3. [R EXCEPT !.row[n].back = TRUE] = [R EXCEPT !.row[n] = r]
  BY DEF Table, Tables
<1> HIDE DEF r
<1>5. Moves(R, [R EXCEPT !.row[n] = r], M)
  BY <1>2, MovesRow
<1> QED BY <1>3, <1>5

(* note_result moves the table: a RESULT of success is believed only from a node that moved. *)
LEMMA ResultMoves ==
    ASSUME NEW G, NEW M, NEW R, Table(R, G, M), M \subseteq Nodes, NEW m \in Frames,
           m.v \in {"ok", "back"} => m.n \in M
    PROVE  Moves(R, note_result(R, m), M)
<1>1. m.n \in Nodes
  BY FrameKinds
<1>2. CASE R.row[m.n].st # "Committed"
  BY <1>2, MovesNone DEF note_result
<1>3. CASE R.row[m.n].st = "Committed" /\ m.v = "back"
  <2>1. note_result(R, m) = [R EXCEPT !.row[m.n].back = TRUE]
    BY <1>3 DEF note_result
  <2>2. m.n \in M /\ R.row[m.n].st # "none"
    BY <1>3
  <2> QED BY <2>1, <2>2, MovesBack
<1>4. CASE R.row[m.n].st = "Committed" /\ m.v # "back"
  <2> DEFINE x == IF m.v = "ok" THEN "Done" ELSE IF m.v = "skip" THEN "Unable" ELSE "Failed"
  <2>1. note_result(R, m) = [R EXCEPT !.row[m.n].st = x]
    BY <1>4 DEF note_result
  <2>2. x \in {"Failed", "Unable", "Done"} /\ (x = "Done" => R.row[m.n].st = "Committed" /\ m.n \in M)
    BY <1>4
  <2>3. R.row[m.n].st # "none"
    BY <1>4
  <2> HIDE DEF x
  <2>4. Moves(R, [R EXCEPT !.row[m.n].st = x], M)
    BY <1>1, <2>2, <2>3, MovesState
  <2> QED BY <2>1, <2>4
<1> QED BY <1>2, <1>3, <1>4

(* note_presence moves the table.                                          *)
LEMMA PresenceMoves ==
    ASSUME NEW G, NEW R, Table(R, G, MovedNow), NEW n \in Nodes
    PROVE  Moves(R, note_presence(R, n), MovedNow)
<1> DEFINE M == MovedNow
<1>1. build[n] = "new" => n \in M
  BY DEF MovedNow
<1>2. M \subseteq Nodes
  BY DEF MovedNow
<1> HIDE DEF M
<1>t. Table(R, G, M)
  BY DEF M
<1>3. \/ note_presence(R, n) = R
      \/ note_presence(R, n) = [R EXCEPT !.row[n].st = "Failed"] /\ R.row[n].st # "none"
      \/ note_presence(R, n) = [R EXCEPT !.row[n].back = TRUE] /\ R.row[n].st # "none" /\ n \in M
      \/ note_presence(R, n) = [R EXCEPT !.row[n].st = "Done"] /\ R.row[n].st = "Committed" /\ n \in M
  BY <1>1 DEF note_presence
<1>4. Moves(R, R, M)
  BY <1>t, MovesNone
<1>5. R.row[n].st # "none" => Moves(R, [R EXCEPT !.row[n].st = "Failed"], M)
  BY <1>t, MovesState
<1>6. R.row[n].st # "none" /\ n \in M => Moves(R, [R EXCEPT !.row[n].back = TRUE], M)
  BY <1>t, <1>2, MovesBack
<1>7. R.row[n].st = "Committed" /\ n \in M => Moves(R, [R EXCEPT !.row[n].st = "Done"], M)
  BY <1>t, MovesState
<1>8. Moves(R, note_presence(R, n), M)
  BY <1>3, <1>4, <1>5, <1>6, <1>7
<1> QED BY <1>8 DEF M

(* ops_grace moves the table: a bot seen back is counted.                  *)
LEMMA GraceMoves ==
    ASSUME NEW G, NEW M, NEW R, Table(R, G, M), NEW exp
    PROVE  Moves(R, ops_grace(R, exp), M) /\ ops_grace(R, exp).phase = R.phase /\ ops_grace(R, exp).sel = R.sel
<1> DEFINE R2 == ops_grace(R, exp)
           up1(n) == n \in exp /\ R.row[n].st = "Committed" /\ R.row[n].back
           r(n) == IF up1(n) THEN [R.row[n] EXCEPT !.st = "Done"] ELSE R.row[n]
<1>1. R \in Tables
  BY DEF Table
<1>2. \A n \in Nodes : r(n) \in Row
  <2> TAKE n \in Nodes
  <2>1. R.row[n] \in Row
    BY <1>1 DEF Tables
  <2> QED BY <2>1 DEF Row
<1>3. R2 = [R EXCEPT !.row = [n \in Nodes |-> r(n)]]
  BY DEF ops_grace
<1>4. ASSUME NEW n \in Nodes
      PROVE  /\ r(n).back = R.row[n].back
             /\ r(n).st = IF up1(n) THEN "Done" ELSE R.row[n].st
  <2>1. R.row[n] \in Row
    BY <1>1 DEF Tables
  <2> QED BY <2>1 DEF Row
<1> HIDE DEF r, R2
<1>5. R2 \in Tables /\ R2.phase = R.phase /\ R2.order = R.order /\ R2.sel = R.sel /\ \A n \in Nodes : R2.row[n] = r(n)
  BY <1>1, <1>2, <1>3 DEF Tables
<1>6. Moves(R, R2, M)
  BY <1>4, <1>5 DEF Moves, Table
<1> QED BY <1>5, <1>6 DEF R2

(* note_ready moves the table: a node joins it, or answers once.           *)
LEMMA ReadyMoves ==
    ASSUME NEW G, NEW M, Table(run, G, M), NEW m \in Ready, NEW from \in Hubs \cup {None}
    PROVE  Moves(run, note_ready(run, m, from), M)
<1> DEFINE n == m.n
           known == run.row[n].st # "none"
           r == [(IF known THEN run.row[n] ELSE NewRow("Pending")) EXCEPT
                    !.via = IF @ = None /\ n # Driver THEN from ELSE @]
           R1 == IF known THEN [run EXCEPT !.row[n] = r] ELSE Added(run, n, r)
           r2 == answered(R1, r, m)
           R2 == [R1 EXCEPT !.row[n] = r2]
<1>1. run \in Tables /\ run.row \in [Nodes -> Row] /\ run.order \in Seq(Nodes)
  BY DEF Table, Tables
<1>2. n \in Nodes /\ m.v.rel \in Nat /\ m.v.ok \in BOOLEAN
  BY DEF Ready
<1>3. \/ note_ready(run, m, from) = run
      \/ Active /\ note_ready(run, m, from) = R1
      \/ Active /\ r.st = "Pending" /\ note_ready(run, m, from) = R2
  BY DEF note_ready
<1> SUFFICES ASSUME Active PROVE Moves(run, R1, M) /\ (r.st = "Pending" => Moves(run, R2, M))
  BY <1>3, MovesNone
<1>4. /\ r \in Row
      /\ r.st = IF known THEN run.row[n].st ELSE "Pending"
      /\ r.back => n \in M
  <2> DEFINE q == IF known THEN run.row[n] ELSE NewRow("Pending")
  <2>1. NewRow("Pending") \in Row /\ NewRow("Pending").back = FALSE /\ NewRow("Pending").st = "Pending"
    BY DEF NewRow, NoRow, Row
  <2>2. q \in Row /\ q.st = (IF known THEN run.row[n].st ELSE "Pending") /\ (q.back => n \in M)
    BY <1>1, <1>2, <2>1 DEF Table
  <2> HIDE DEF q
  <2>3. \A v \in Hubs \cup {None} :
          [q EXCEPT !.via = v] \in Row /\ [q EXCEPT !.via = v].st = q.st /\ [q EXCEPT !.via = v].back = q.back
    BY <2>2 DEF Row
  <2>4. r = [q EXCEPT !.via = IF q.via = None /\ n # Driver THEN from ELSE q.via] /\ q.via \in Hubs \cup {None}
    BY <2>2 DEF q, Row
  <2> HIDE DEF known, r
  <2> QED BY <2>2, <2>3, <2>4
<1>5. run.phase \in {"Prepare", "Rolling"}
  BY DEF Active
<1> HIDE DEF r
<1>6. /\ R1 \in Tables /\ R1.phase = run.phase /\ R1.row[n] = r
      /\ \A k \in Nodes : k # n => R1.row[k] = run.row[k]
      /\ \A k \in Nodes : R1.row[k].st # "none" => \E i \in 1 .. Len(R1.order) : R1.order[i] = k
  <2>1. CASE known
    <3>1. R1 = [run EXCEPT !.row[n] = r]
      BY <2>1
    <3> HIDE DEF R1, n, known
    <3>2. /\ R1 \in Tables /\ R1.phase = run.phase /\ R1.order = run.order
          /\ R1.row[n] = r /\ \A k \in Nodes : k # n => R1.row[k] = run.row[k]
      BY <3>1, <1>1, <1>2, <1>4, RowSet
    <3> USE DEF known
    <3> QED BY <3>2, <1>4, <2>1 DEF Table
  <2>2. CASE ~known
    <3>1. R1 = [run EXCEPT !.row[n] = r, !.order = Append(@, n)]
      BY <2>2 DEF Added
    <3>2. /\ R1 \in Tables /\ R1.phase = run.phase /\ R1.order = Append(run.order, n)
          /\ R1.row[n] = r /\ \A k \in Nodes : k # n => R1.row[k] = run.row[k]
      <4> HIDE DEF R1, n, known
      <4> DEFINE Q == [run EXCEPT !.row[n] = r]
      <4>1. /\ Q \in Tables /\ Q.phase = run.phase /\ Q.order = run.order
            /\ Q.row[n] = r /\ \A k \in Nodes : k # n => Q.row[k] = run.row[k]
        BY <1>1, <1>2, <1>4, RowSet
      <4>2. R1 = [Q EXCEPT !.order = Append(run.order, n)]
        BY <3>1, <1>1 DEF Tables
      <4>3. Append(run.order, n) \in Seq(Nodes)
        BY <1>1, <1>2
      <4> HIDE DEF Q
      <4>4. R1 \in Tables /\ R1.phase = Q.phase /\ R1.order = Append(run.order, n) /\ R1.row = Q.row
        BY <4>1, <4>2, <4>3 DEF Tables
      <4> QED BY <4>1, <4>4
    <3> HIDE DEF R1
    <3>3. ASSUME NEW k \in Nodes, R1.row[k].st # "none"
          PROVE  \E i \in 1 .. Len(R1.order) : R1.order[i] = k
      <4>1. CASE k = n
        <5>1. Len(run.order) + 1 \in 1 .. Len(R1.order) /\ R1.order[Len(run.order) + 1] = n
          BY <3>2, <1>1, <1>2
        <5> QED BY <4>1, <5>1
      <4>2. CASE k # n
        <5>1. PICK i \in 1 .. Len(run.order) : run.order[i] = k
          BY <3>2, <3>3, <4>2 DEF Table
        <5>2. i \in 1 .. Len(R1.order) /\ R1.order[i] = k
          BY <3>2, <5>1, <1>1
        <5> QED BY <5>2
      <4> QED BY <4>1, <4>2
    <3> QED BY <3>2, <3>3
  <2> QED BY <2>1, <2>2
<1> HIDE DEF R1
<1>7. Moves(run, R1, M)
  <2>1. r.st = "Ready" => run.row[n].st = "Ready"
    BY <1>4
  <2> HIDE DEF known
  <2> QED BY <1>4, <1>5, <1>6, <2>1 DEF Moves, Table, known
<1>8. ASSUME r.st = "Pending" PROVE Moves(run, R2, M)
  <2>1. r2 \in Row /\ r2.back = r.back /\ r2.st \in {"Ready", "Unable"} /\ (r2.st = "Ready" => run.phase = "Prepare")
    <3>1. IsFiniteSet(Nodes)
      BY UpgradeAssumption
    <3> DEFINE S == {k \in Nodes : R1.row[k].seq > 0}
    <3>2. S \subseteq Nodes
      OBVIOUS
    <3> HIDE DEF S
    <3>3. Cardinality(S) \in Nat
      BY <3>1, <3>2, FS_Subset, FS_CardinalityType
    <3> DEFINE st2 == IF (m.v.ok /\ R1.phase = "Prepare") /\ selected(R1, n) THEN "Ready" ELSE "Unable"
               seq2 == IF r.seq = 0 THEN 1 + Cardinality(S) ELSE r.seq
               skip2 == ~selected(R1, n)
               rel2 == IF n \in Hubs THEN m.v.rel ELSE 0
    <3>4. r2 = [r EXCEPT !.st = st2, !.seq = seq2, !.skip = skip2, !.rel = rel2]
      BY DEF answered, S
    <3>5. r.seq \in Nat
      BY <1>4 DEF Row
    <3>6. st2 \in {"Ready", "Unable"} /\ seq2 \in Nat /\ skip2 \in BOOLEAN /\ rel2 \in Nat
          /\ (st2 = "Ready" => R1.phase = "Prepare")
      <4>1. skip2 \in BOOLEAN
        BY DEF selected
      <4> HIDE DEF skip2
      <4> QED BY <3>3, <3>5, <1>2, <4>1
    <3> HIDE DEF st2, seq2, skip2, rel2, r2
    <3> QED BY <3>4, <3>6, <1>4, <1>6 DEF Row
  <2> HIDE DEF r2
  <2>2. /\ R2 \in Tables /\ R2.phase = R1.phase /\ R2.order = R1.order
        /\ R2.row[n] = r2 /\ \A k \in Nodes : k # n => R2.row[k] = R1.row[k]
    BY <1>2, <1>6, <2>1, RowSet
  <2>3. R1.row[n].st # "none"
    BY <1>6, <1>8
  <2> HIDE DEF R2
  <2> QED BY <1>4, <1>5, <1>6, <1>7, <2>1, <2>2, <2>3 DEF Moves
<1> QED BY <1>7, <1>8

-----------------------------------------------------------------------------
(* Steps that neither grant a move nor change a build or the stage.        *)

(* A note does not end the run.                                            *)
LEMMA NotesKeepPhase ==
    ASSUME NEW R \in Tables
    PROVE  /\ \A m : note_result(R, m).phase = R.phase
           /\ \A n : note_presence(R, n).phase = R.phase
  BY DEF note_result, note_presence, Tables

(* Nor does a READY.                                                       *)
LEMMA ReadyKeepsPhase ==
    ASSUME NEW R \in Tables, NEW m, NEW from
    PROVE  note_ready(R, m, from).phase = R.phase
<1> DEFINE n == m.n
           known == R.row[n].st # "none"
           r == [(IF known THEN R.row[n] ELSE NewRow("Pending")) EXCEPT
                    !.via = IF @ = None /\ n # Driver THEN from ELSE @]
           R1 == IF known THEN [R EXCEPT !.row[n] = r] ELSE Added(R, n, r)
           r2 == answered(R1, r, m)
           R2 == [R1 EXCEPT !.row[n] = r2]
<1>1. note_ready(R, m, from) \in {R, R1, R2}
  BY DEF note_ready
<1> HIDE DEF n, known, r
<1>2. R1.phase = R.phase /\ "phase" \in DOMAIN R1 /\ R1 = [k \in DOMAIN R1 |-> R1[k]]
  BY DEF Tables, Added
<1> HIDE DEF R1, r2
<1>3. R2.phase = R1.phase
  BY <1>2
<1> QED BY <1>1, <1>2, <1>3

(* Who may be counted never shrinks.                                       *)
LEMMA MovedGrows ==
    ASSUME stage = "aborted" => stage' = "aborted",
           \A n \in Nodes : build[n] = "new" => build'[n] = "new" \/ n \in Flaky \/ stage' = "aborted"
    PROVE  MovedNow \subseteq MovedNow'
  BY DEF MovedNow

(* A move of the table is what the abstract run hears.                     *)
LEMMA HeardMoves ==
    ASSUME Moves(run, run', MovedNow)
    PROVE  /\ In(run', {"Committed"}) \subseteq In(run, {"Committed"})
           /\ In(run', {"Done"}) \subseteq In(run, {"Done"}) \cup
                {n \in In(run, {"Committed"}) \ In(run', {"Committed"}) :
                     build[n] = "new" \/ n \in Flaky \/ stage = "aborted"}
  BY DEF Moves, In, MovedNow

(* A move of the table alone is a Settle of the abstract run.              *)
LEMMA Settles ==
    ASSUME Moves(run, run', MovedNow), UNCHANGED <<stage, granted, build>>
    PROVE  Abs!ANext
<1>1. Abs!Settle
  BY HeardMoves DEF Abs!Settle, Abs!Heard
<1> QED BY <1>1 DEF Abs!ANext

(* So is a step that moves the table and keeps the rest of the invariant.  *)
LEMMA KeepStep ==
    ASSUME UpInv, Moves(run, run', MovedNow), run'.phase = run.phase, UNCHANGED <<stage, granted, build>>,
           Hosted', Carries(wire', granted, stage, MovedNow)
    PROVE  UpInv' /\ Abs!ANext
<1>1. Abs!ANext
  BY Settles
<1>2. MovedNow' = MovedNow
  BY DEF MovedNow
<1>3. Table(run', granted, MovedNow)
  BY MovesKeep DEF UpInv
<1>4. Staged'
  BY DEF UpInv, Staged
<1>5. Table(run, granted, MovedNow)' /\ Carries(wire, granted, stage, MovedNow)'
  <2>1. granted' = granted /\ stage' = stage
    OBVIOUS
  <2> QED BY <1>2, <1>3, <2>1
<1> QED BY <1>1, <1>4, <1>5 DEF UpInv

(* Steps that replace no process.                                          *)
LEMMA HostedSame ==
    ASSUME Hosted, UNCHANGED <<proc, build, prev, stage, granted>>, up' \subseteq Edges
    PROVE  Hosted'
  BY DEF Hosted

(* Steps of the run that replace none either.                              *)
LEMMA HostedStays ==
    ASSUME Hosted, UNCHANGED <<proc, build, prev>>, up' \subseteq Edges, granted \subseteq granted',
           stage = "aborted" => stage' = "aborted"
    PROVE  Hosted'
<1>1. \A h \in Hubs : Kept(h, build[h], prev[h], proc[h], stage) => Kept(h, build[h], prev[h], proc[h], stage')
  BY DEF Kept
<1> QED BY <1>1 DEF Hosted

(* A process is replaced: the run asked for it, or its watchdog did.       *)
LEMMA HostedDies ==
    ASSUME Hosted, NEW n \in Nodes, NEW why \in {"install", "restore"}, NEW w, Dies(n, why, w),
           UNCHANGED <<build, stage, granted>>,
           why = "install" => n \in granted
                              /\ prev' = (IF n \in Hubs THEN [prev EXCEPT ![n] = build[n]] ELSE prev),
           why = "restore" => prev' = prev /\ n \in granted /\ (n \in Hubs => prev[n] # "none")
                              /\ (stage = "aborted" \/ (n \in Flaky /\ build[n] = "new"))
    PROVE  Hosted'
<1>1. up' \subseteq Edges
  BY DEF Hosted, Dies
<1>2. proc' \in [Nodes -> {"up", "install", "restore"}] /\ proc'[n] = why
      /\ \A k \in Nodes : k # n => proc'[k] = proc[k]
  BY DEF Hosted, Dies
<1>3. /\ prev' \in [Hubs -> {"none", "older", "old", "new"}]
      /\ \A k \in Hubs : k # n => prev'[k] = prev[k]
      /\ n \in Hubs => prev'[n] = IF why = "install" THEN build[n] ELSE prev[n]
  <2>1. Hubs \subseteq Nodes
    BY DEF Nodes
  <2> QED BY <2>1 DEF Hosted
<1>4. Hubs \subseteq Nodes
  BY DEF Nodes
<1>5. \A h \in Hubs : Kept(h, build[h], prev'[h], proc'[h], stage)
  <2> SUFFICES ASSUME NEW h \in Hubs PROVE Kept(h, build[h], prev'[h], proc'[h], stage)
    OBVIOUS
  <2>1. Kept(h, build[h], prev[h], proc[h], stage) /\ build[h] \in {"older", "old", "new"}
    BY <1>4 DEF Hosted
  <2>2. CASE h # n
    BY <1>2, <1>3, <1>4, <2>1, <2>2
  <2>3. CASE h = n
    BY <1>2, <1>3, <1>4, <2>1, <2>3 DEF Kept
  <2> QED BY <2>2, <2>3
<1>6. \A k \in Nodes : proc'[k] # "up" \/ build[k] = "new" => k \in granted
  BY <1>2 DEF Hosted
<1>7. \A k \in Nodes : proc'[k] = "restore" => stage = "aborted" \/ k \in Flaky
  BY <1>2 DEF Hosted
<1>8. \A b \in Bots : build[b] # "older"
  BY DEF Hosted
<1> QED BY <1>1, <1>2, <1>3, <1>5, <1>6, <1>7, <1>8 DEF Hosted

(* The facts a step starts from.                                           *)
LEMMA Facts ==
    ASSUME UpInv
    PROVE  /\ Table(run, granted, MovedNow) /\ run \in Tables /\ Moves(run, run, MovedNow)
           /\ Hosted /\ up \subseteq Edges /\ Carries(wire, granted, stage, MovedNow)
           /\ MovedNow \subseteq Nodes /\ Hubs \subseteq Nodes /\ Bots \subseteq Nodes
<1>1. Table(run, granted, MovedNow) /\ Hosted /\ Carries(wire, granted, stage, MovedNow)
  BY DEF UpInv
<1>2. run \in Tables
  BY <1>1 DEF Table
<1>3. Moves(run, run, MovedNow)
  BY <1>1, MovesNone
<1>4. up \subseteq Edges
  BY <1>1 DEF Hosted
<1>5. MovedNow \subseteq Nodes /\ Hubs \subseteq Nodes /\ Bots \subseteq Nodes
  BY DEF MovedNow, Nodes
<1> QED BY <1>1, <1>2, <1>3, <1>4, <1>5

(* A step that leaves the driver's table alone.                            *)
LEMMA ElsewhereStep ==
    ASSUME UpInv, UNCHANGED <<run, stage, granted, build>>, Hosted', Carries(wire', granted, stage, MovedNow)
    PROVE  UpInv' /\ Abs!ANext
<1>1. Moves(run, run', MovedNow)
  BY Facts
<1>2. run'.phase = run.phase
  OBVIOUS
<1> QED BY <1>1, <1>2, KeepStep

-----------------------------------------------------------------------------
(* Frames at a hub.                                                        *)

(* peer_prepare.                                                           *)
LEMMA PrepareStep ==
    ASSUME UpInv, NEW h \in Hubs, NEW a \in Nodes, NEW w, Carries(w, granted, stage, MovedNow),
           peer_prepare(h, a, w), UNCHANGED <<frozen, host, up, faults, hist>>
    PROVE  UpInv' /\ Abs!ANext
<1> DEFINE M == MovedNow
           bots == {b \in MyBots(h) : selected(run, b)}
           ready == selected(run, h) /\ h \notin Unfit
           v == [ok |-> ready, rel |-> Cardinality(bots)]
<1>1. UNCHANGED <<run, stage, granted, build>>
  BY DEF peer_prepare, host, hist
<1>2. Hosted'
  BY Facts, HostedSame DEF host, hist
<1>3. CASE h \in seen
  <2>1. wire' = w
    BY <1>3 DEF peer_prepare
  <2> QED BY <1>1, <1>2, <2>1, ElsewhereStep
<1>4. CASE h \notin seen
  <2>1. wire' = Send(Relayed(h, a, bots, w), h, a, Frame("ready", h, v))
    BY <1>4 DEF peer_prepare
  <2>2. v \in [ok : BOOLEAN, rel : Nat]
    <3>1. bots \subseteq Nodes
      BY DEF MyBots, Nodes
    <3> HIDE DEF bots
    <3>2. Cardinality(bots) \in Nat
      BY <3>1, FS_Subset, FS_CardinalityType, UpgradeAssumption
    <3>3. ready \in BOOLEAN
      BY DEF selected
    <3> HIDE DEF ready
    <3> QED BY <3>2, <3>3
  <2> HIDE DEF v, bots
  <2>3. h \in Nodes
    BY Facts
  <2>4. Frame("ready", h, v) \in Truths(<<h, a>>, granted, stage, MovedNow)
    BY <2>2, <2>3, TrueReady
  <2>5. Carries(Relayed(h, a, bots, w), granted, stage, MovedNow)
    BY CarriesRelayed
  <2>6. Carries(wire', granted, stage, MovedNow)
    BY <2>1, <2>4, <2>5, CarriesSend
  <2> QED BY <1>1, <1>2, <2>6, ElsewhereStep
<1> QED BY <1>3, <1>4

(* relay_upstream, note_ready and note_result.                             *)
LEMMA AnswerStep ==
    ASSUME UpInv, NEW h \in Hubs, NEW a \in Nodes, NEW w, Carries(w, granted, stage, MovedNow),
           NEW m \in Truths(<<a, h>>, granted, stage, MovedNow), m.t \in {"ready", "result"},
           answer(h, a, m, w), Quiet
    PROVE  UpInv' /\ Abs!ANext
<1>1. UNCHANGED <<stage, granted, build>>
  BY DEF Quiet, host, hist
<1>2. Hosted'
  BY Facts, HostedSame DEF Quiet, host, hist
<1>3. m \in Frames /\ (m.t = "result" => (m.v \in {"ok", "back"} => m.n \in MovedNow))
  BY DEF Truths
<1>4. CASE follow[h].on /\ a # follow[h].origin
  <2>1. wire' = Send(w, h, follow[h].origin, m) /\ run' = run
    BY <1>4 DEF answer
  <2>2. m \in Truths(<<h, follow[h].origin>>, granted, stage, MovedNow)
    BY TrueAnswer
  <2>3. Carries(wire', granted, stage, MovedNow)
    BY <2>1, <2>2, CarriesSend
  <2> QED BY <1>1, <1>2, <2>1, <2>3, ElsewhereStep
<1>5. CASE ~(follow[h].on /\ a # follow[h].origin)
  <2>1. wire' = w
    BY <1>5 DEF answer
  <2>2. CASE h # Driver
    <3>1. run' = run
      BY <1>5, <2>2 DEF answer
    <3> QED BY <1>1, <1>2, <2>1, <3>1, ElsewhereStep
  <2>3. CASE h = Driver /\ m.t = "ready"
    <3> DEFINE from == IF a \in Hubs THEN a ELSE None
    <3>1. run' = note_ready(run, m, from)
      BY <1>5, <2>3 DEF answer
    <3>2. from \in Hubs \cup {None} /\ m \in Ready
      BY <1>3, <2>3, FrameKinds
    <3> HIDE DEF from
    <3>3. Moves(run, run', MovedNow)
      BY <3>1, <3>2, Facts, ReadyMoves
    <3>4. run'.phase = run.phase
      BY <3>1, Facts, ReadyKeepsPhase
    <3> QED BY <1>1, <1>2, <2>1, <3>3, <3>4, KeepStep
  <2>4. CASE h = Driver /\ m.t = "result"
    <3>1. run' = note_result(run, m)
      BY <1>5, <2>4 DEF answer
    <3>2. Moves(run, run', MovedNow)
      BY <3>1, <1>3, <2>4, Facts, ResultMoves
    <3>3. run'.phase = run.phase
      BY <3>1, Facts, NotesKeepPhase
    <3> QED BY <1>1, <1>2, <2>1, <3>2, <3>3, KeepStep
  <2> QED BY <2>2, <2>3, <2>4
<1> QED BY <1>4, <1>5

(* The presence of a bot.                                                  *)
LEMMA PresenceStep ==
    ASSUME UpInv, NEW h \in Hubs, NEW b \in Nodes, NEW w, Carries(w, granted, stage, MovedNow),
           presence(h, b, w), Quiet
    PROVE  UpInv' /\ Abs!ANext
<1>1. UNCHANGED <<stage, granted, build>>
  BY DEF Quiet, host, hist
<1>2. Hosted'
  BY Facts, HostedSame DEF Quiet, host, hist
<1>3. Carries(wire', granted, stage, MovedNow)
  <2> DEFINE m == Frame("result", b, "back")  o == follow[h].origin
  <2>1. CASE follow[h].on /\ build[b] = "new"
    <3>1. wire' = Send(w, h, o, m)
      BY <2>1 DEF presence, Answer
    <3>2. b \in MovedNow /\ "back" \in Words
      BY <2>1 DEF MovedNow, Words
    <3>3. m \in Truths(<<h, o>>, granted, stage, MovedNow)
      BY <3>2, TrueFrame
    <3> HIDE DEF m, o
    <3> QED BY <3>1, <3>3, CarriesSend
  <2>2. CASE ~(follow[h].on /\ build[b] = "new")
    BY <2>2 DEF presence
  <2> QED BY <2>1, <2>2
<1>4. Moves(run, run', MovedNow) /\ run'.phase = run.phase
  <2>1. CASE h = Driver
    <3>1. run' = note_presence(run, b)
      BY <2>1 DEF presence
    <3> QED BY <3>1, Facts, PresenceMoves, NotesKeepPhase
  <2>2. CASE h # Driver
    <3>1. run' = run
      BY <2>2 DEF presence
    <3> QED BY <3>1, Facts
  <2> QED BY <2>1, <2>2
<1> QED BY <1>1, <1>2, <1>3, <1>4, KeepStep

(* peer_commit: the COMMIT was granted, so the restart is.                 *)
LEMMA CommitStep ==
    ASSUME UpInv, NEW h \in Hubs, NEW a \in Nodes, NEW n \in granted, n \in Nodes, NEW w,
           Carries(w, granted, stage, MovedNow),
           peer_commit(h, a, n, w), UNCHANGED <<frozen, plan, faults, hist>>
    PROVE  UpInv' /\ Abs!ANext
<1> DEFINE f == follow[h]
           refuse(st) == wire' = Answer(w, h, a, n, st) /\ UNCHANGED <<run, seen, host, up>>
           pass(to) == wire' = Send(w, h, to, Frame("commit", n, "")) /\ UNCHANGED <<run, follow, seen, host, up>>
<1>1. UNCHANGED <<stage, granted>>
  BY DEF hist
<1>2. ASSUME NEW st \in {"ok", "skip", "fail"}, refuse(st), st = "ok" => n \in MovedNow
      PROVE  UpInv' /\ Abs!ANext
  <2> DEFINE m == Frame("result", n, st)
  <2>1. UNCHANGED <<run, stage, granted, build, proc, prev, up>>
    BY <1>1, <1>2 DEF host
  <2>2. Hosted'
    BY <2>1, Facts, HostedSame
  <2>3. st \in Words /\ st # "back"
    BY DEF Words
  <2>4. m \in Truths(<<h, a>>, granted, stage, MovedNow)
    BY <2>3, <1>2, TrueFrame
  <2>5. wire' = Send(w, h, a, m)
    BY <1>2 DEF Answer
  <2> HIDE DEF m
  <2>6. Carries(wire', granted, stage, MovedNow)
    BY <2>4, <2>5, CarriesSend
  <2> QED BY <2>1, <2>2, <2>6, ElsewhereStep
<1>3. ASSUME NEW to, to \in Bots => n = to, pass(to)
      PROVE  UpInv' /\ Abs!ANext
  <2> DEFINE m == Frame("commit", n, "")
  <2>1. UNCHANGED <<run, stage, granted, build, proc, prev, up>>
    BY <1>1, <1>3 DEF host
  <2>2. Hosted'
    BY <2>1, Facts, HostedSame
  <2>3. "" \in Words
    BY DEF Words
  <2>4. <<h, to>>[2] = to
    OBVIOUS
  <2>5. m \in Truths(<<h, to>>, granted, stage, MovedNow)
    BY <2>3, <2>4, <1>3, TrueFrame
  <2>6. wire' = Send(w, h, to, m)
    BY <1>3
  <2> HIDE DEF m
  <2>7. Carries(wire', granted, stage, MovedNow)
    BY <2>5, <2>6, CarriesSend
  <2> QED BY <2>1, <2>2, <2>7, ElsewhereStep
<1>4. CASE n = h /\ commit(h, w)
  <2>1. UNCHANGED <<run, stage, granted, build>>
    BY <1>1, <1>4 DEF commit
  <2>2. prev' = [prev EXCEPT ![h] = build[h]] /\ Dies(h, "install", w)
    BY <1>4 DEF commit
  <2>3. Hosted'
    <3>1. prev' = IF h \in Hubs THEN [prev EXCEPT ![h] = build[h]] ELSE prev
      BY <2>2
    <3>2. h \in Nodes /\ h \in granted
      BY <1>4
    <3>3. UNCHANGED <<build, stage, granted>>
      BY <2>1
    <3> HIDE DEF f, refuse, pass
    <3> QED BY <2>2, <3>1, <3>2, <3>3, Facts, HostedDies
  <2>4. Carries(wire', granted, stage, MovedNow)
    <3>1. wire' = Gone(h, w)
      BY <2>2 DEF Dies
    <3> QED BY <3>1, CarriesGone
  <2> QED BY <2>1, <2>3, <2>4, ElsewhereStep
<1>5. \/ refuse("skip") \/ refuse("fail") \/ (refuse("ok") /\ n = h /\ build[h] = "new")
      \/ n \in MyBots(h) /\ pass(n)
      \/ f.route[n] \in Peers(h) /\ pass(f.route[n])
      \/ n = h /\ commit(h, w)
  BY DEF peer_commit
<1>6. n \in MyBots(h) /\ pass(n) => UpInv' /\ Abs!ANext
  BY <1>3
<1>7. f.route[n] \in Peers(h) => f.route[n] \notin Bots
  BY UpgradeAssumption DEF Peers
<1>8. n = h /\ build[h] = "new" => n \in MovedNow
  BY DEF MovedNow
<1> HIDE DEF refuse, pass, f
<1>9. refuse("skip") \/ refuse("fail") => UpInv' /\ Abs!ANext
  BY <1>2
<1>10. refuse("ok") /\ n = h /\ build[h] = "new" => UpInv' /\ Abs!ANext
  BY <1>2, <1>8
<1>11. f.route[n] \in Peers(h) /\ pass(f.route[n]) => UpInv' /\ Abs!ANext
  BY <1>3, <1>7
<1> QED BY <1>4, <1>5, <1>6, <1>9, <1>10, <1>11

(* peer_abort: the run is aborted, so going back is allowed.               *)
LEMMA AbortStep ==
    ASSUME UpInv, NEW h \in Hubs, NEW a \in Nodes, NEW n \in granted, n \in Nodes, stage = "aborted", NEW w,
           Carries(w, granted, stage, MovedNow),
           peer_abort(h, a, n, w), UNCHANGED <<run, frozen, plan, faults, hist>>
    PROVE  UpInv' /\ Abs!ANext
<1> DEFINE f == follow[h]
<1>0. UNCHANGED <<run, stage, granted>> /\ h \in Nodes
  BY Facts DEF hist
<1>1. ASSUME UNCHANGED <<host, up>>, NEW to, NEW v \in {"", "aborted"}, NEW t \in {"abort", "result"},
             t = "abort" /\ to \in Bots => n = to,
             wire' \in {w, Send(w, h, to, Frame(t, n, v))}
      PROVE  UpInv' /\ Abs!ANext
  <2>1. Hosted' /\ build' = build
    BY <1>0, <1>1, Facts, HostedSame DEF host
  <2>3. Carries(wire', granted, stage, MovedNow)
    <3> DEFINE m == Frame(t, n, v)
    <3>1. v \in Words /\ t # "commit" /\ v \notin {"ok", "back"}
      BY DEF Words
    <3>0. <<h, to>>[2] = to
      OBVIOUS
    <3>2. m \in Truths(<<h, to>>, granted, stage, MovedNow)
      BY <3>0, <3>1, <1>1, TrueFrame
    <3>3. wire' \in {w, Send(w, h, to, m)}
      BY <1>1
    <3> HIDE DEF m
    <3> QED BY <3>2, <3>3, CarriesSend
  <2> QED BY <1>0, <2>1, <2>3, ElsewhereStep
<1>2. CASE n = h /\ prev[h] # "none" /\ Dies(h, "restore", w) /\ UNCHANGED <<build, prev>>
  <2>1. Hosted'
    BY <1>0, <1>2, Facts, HostedDies
  <2>2. Carries(wire', granted, stage, MovedNow)
    <3>1. wire' = Gone(h, w)
      BY <1>2 DEF Dies
    <3> QED BY <3>1, CarriesGone
  <2> QED BY <1>0, <1>2, <2>1, <2>2, ElsewhereStep
<1>3. CASE n # h /\ UNCHANGED <<host, up>>
  <2>1. \E to : (to \in Bots => n = to) /\ wire' \in {w, Send(w, h, to, Frame("abort", n, ""))}
    <3>1. f.route[n] \in Peers(h) => f.route[n] \notin Bots
      BY UpgradeAssumption DEF Peers
    <3>2. \/ wire' = Send(w, h, n, Frame("abort", n, "")) \/ wire' = w
          \/ f.route[n] \in Peers(h) /\ wire' = Send(w, h, f.route[n], Frame("abort", n, ""))
      BY <1>3 DEF peer_abort
    <3> HIDE DEF f
    <3> QED BY <3>1, <3>2
  <2> QED BY <1>1, <1>3, <2>1
<1>4. CASE n = h /\ UNCHANGED <<host, up>> /\ wire' = Answer(w, h, a, h, "aborted")
  <2>1. wire' = Send(w, h, a, Frame("result", n, "aborted"))
    BY <1>4 DEF Answer
  <2> QED BY <1>1, <1>4, <2>1
<1>5. \/ n # h /\ UNCHANGED <<host, up>>
      \/ n = h /\ UNCHANGED <<host, up>> /\ wire' = Answer(w, h, a, h, "aborted")
      \/ n = h /\ prev[h] # "none" /\ Dies(h, "restore", w) /\ UNCHANGED <<build, prev>>
  BY DEF peer_abort
<1> QED BY <1>2, <1>3, <1>4, <1>5

(* Any frame at a hub.                                                     *)
LEMMA HubStep ==
    ASSUME UpInv, NEW h \in Hubs, NEW a \in Nodes, HubFrame(a, h)
    PROVE  UpInv' /\ Abs!ANext
<1> DEFINE m == Head(wire[<<a, h>>])  w == Took(a, h)
<1>1. <<a, h>> \in Chans /\ wire[<<a, h>>] # <<>>
  BY DEF HubFrame
<1>2. Carries(w, granted, stage, MovedNow) /\ m \in Truths(<<a, h>>, granted, stage, MovedNow)
  BY <1>1, Facts, CarriesTook
<1>3. \/ m.t = "prepare" /\ peer_prepare(h, a, w) /\ UNCHANGED <<frozen, host, up, faults, hist>>
      \/ m.t \in {"ready", "result"} /\ answer(h, a, m, w) /\ UNCHANGED seen /\ Quiet
      \/ m.t = "presence" /\ presence(h, m.n, w) /\ UNCHANGED seen /\ Quiet
      \/ m.t = "commit" /\ peer_commit(h, a, m.n, w) /\ UNCHANGED <<frozen, plan, faults, hist>>
      \/ m.t = "abort" /\ peer_abort(h, a, m.n, w) /\ UNCHANGED <<run, frozen, plan, faults, hist>>
  BY DEF HubFrame
<1> HIDE DEF m, w
<1>4. m.n \in Nodes /\ (m.t \in {"commit", "abort"} => m.n \in granted) /\ (m.t = "abort" => stage = "aborted")
  <2>1. m \in Frames /\ (m.t \in {"commit", "abort"} => m.n \in granted) /\ (m.t = "abort" => stage = "aborted")
    BY <1>2 DEF Truths
  <2> QED BY <2>1, FrameKinds
<1> DEFINE n == m.n
<1> HIDE DEF n
<1>5. CASE m.t = "prepare" /\ peer_prepare(h, a, w) /\ UNCHANGED <<frozen, host, up, faults, hist>>
  BY <1>5, <1>2, PrepareStep
<1>6. CASE m.t \in {"ready", "result"} /\ answer(h, a, m, w) /\ UNCHANGED seen /\ Quiet
  BY <1>6, <1>2, AnswerStep
<1>7. CASE m.t = "presence" /\ presence(h, m.n, w) /\ UNCHANGED seen /\ Quiet
  BY <1>7, <1>2, <1>4, PresenceStep
<1>8. CASE m.t = "commit" /\ peer_commit(h, a, m.n, w) /\ UNCHANGED <<frozen, plan, faults, hist>>
  BY <1>8, <1>2, <1>4, CommitStep
<1>9. CASE m.t = "abort" /\ peer_abort(h, a, m.n, w) /\ UNCHANGED <<run, frozen, plan, faults, hist>>
  BY <1>9, <1>2, <1>4, AbortStep
<1> QED BY <1>3, <1>5, <1>6, <1>7, <1>8, <1>9

-----------------------------------------------------------------------------
(* Bots, restarts, links and faults.                                       *)

(* A frame at a bot.                                                       *)
LEMMA BotStep ==
    ASSUME UpInv, NEW b \in Bots, BotFrame(b)
    PROVE  UpInv' /\ Abs!ANext
<1> DEFINE h == Home[b]  m == Head(wire[<<h, b>>])  w == Took(h, b)
<1>1. b \in Nodes /\ b \notin Hubs /\ h \in Hubs /\ h \in Nodes
  BY UpgradeAssumption DEF Nodes
<1>2. <<h, b>> \in Chans /\ wire[<<h, b>>] # <<>>
  <2>1. {b, h} \in Edges /\ {h, b} = {b, h}
    BY DEF Edges
  <2>2. wire[<<h, b>>] # <<>>
    BY DEF BotFrame
  <2> HIDE DEF h
  <2> QED BY <1>1, <2>1, <2>2, ChanEnds
<1>3. Carries(w, granted, stage, MovedNow) /\ m \in Truths(<<h, b>>, granted, stage, MovedNow)
  <2> HIDE DEF h
  <2> QED BY <1>2, Facts, CarriesTook
<1>4. (m.t \in {"commit", "abort"} => b \in granted) /\ (m.t = "abort" => stage = "aborted")
  <2> HIDE DEF h, m
  <2>1. <<h, b>>[2] = b
    OBVIOUS
  <2> QED BY <1>3, <2>1 DEF Truths
<1>5. ASSUME NEW f, f \in Truths(<<b, h>>, granted, stage, MovedNow), wire' = Send(w, b, h, f),
             UNCHANGED <<run, host, up, hist>>
      PROVE  UpInv' /\ Abs!ANext
  <2>1. Carries(wire', granted, stage, MovedNow)
    <3> HIDE DEF h, m, w
    <3> QED BY <1>3, <1>5, CarriesSend
  <2>2. UNCHANGED <<run, stage, granted, build, proc, prev, up>>
    BY <1>5 DEF host, hist
  <2>3. Hosted'
    BY <2>2, Facts, HostedSame
  <2> QED BY <2>1, <2>2, <2>3, ElsewhereStep
<1>6. ASSUME NEW why \in {"install", "restore"}, Dies(b, why, w), UNCHANGED <<run, build, prev, hist>>,
             b \in granted, why = "restore" => stage = "aborted"
      PROVE  UpInv' /\ Abs!ANext
  <2> HIDE DEF h, m, w
  <2>1. UNCHANGED <<run, stage, granted, build, prev>>
    BY <1>6 DEF hist
  <2>2. Hosted'
    BY <1>1, <1>6, <2>1, Facts, HostedDies
  <2>3. Carries(wire', granted, stage, MovedNow)
    <3>1. wire' = Gone(b, w)
      BY <1>6 DEF Dies
    <3> QED BY <3>1, <1>3, CarriesGone
  <2> QED BY <2>1, <2>2, <2>3, ElsewhereStep
<1>7. Frame("ready", b, [ok |-> b \notin Unfit, rel |-> 0]) \in Truths(<<b, h>>, granted, stage, MovedNow)
  <2> DEFINE v == [ok |-> b \notin Unfit, rel |-> 0]
  <2>1. v \in [ok : BOOLEAN, rel : Nat]
    OBVIOUS
  <2> HIDE DEF h, v
  <2>2. Frame("ready", b, v) \in Truths(<<b, h>>, granted, stage, MovedNow)
    BY <1>1, <2>1, TrueReady
  <2> QED BY <2>2 DEF v
<1>8. ASSUME NEW st \in {"skip", "fail", "aborted"}
      PROVE  Frame("result", b, st) \in Truths(<<b, h>>, granted, stage, MovedNow)
  <2> HIDE DEF h
  <2>1. st \in Words /\ st \notin {"ok", "back"}
    BY DEF Words
  <2> QED BY <1>1, <2>1, TrueFrame
<1>9. \/ wire' = Send(w, b, h, Frame("ready", b, [ok |-> b \notin Unfit, rel |-> 0])) /\ UNCHANGED <<run, host, up, hist>>
      \/ \E st \in {"skip", "fail", "aborted"} :
            wire' = Send(w, b, h, Frame("result", b, st)) /\ UNCHANGED <<run, host, up, hist>>
      \/ m.t = "commit" /\ Dies(b, "install", w) /\ UNCHANGED <<run, build, prev, hist>>
      \/ m.t = "abort" /\ Dies(b, "restore", w) /\ UNCHANGED <<run, build, prev, hist>>
  BY DEF BotFrame
<1> HIDE DEF h, m, w
<1>10. CASE wire' = Send(w, b, h, Frame("ready", b, [ok |-> b \notin Unfit, rel |-> 0])) /\ UNCHANGED <<run, host, up, hist>>
  BY <1>10, <1>5, <1>7
<1>11. CASE \E st \in {"skip", "fail", "aborted"} :
            wire' = Send(w, b, h, Frame("result", b, st)) /\ UNCHANGED <<run, host, up, hist>>
  BY <1>11, <1>5, <1>8
<1>12. CASE m.t = "commit" /\ Dies(b, "install", w) /\ UNCHANGED <<run, build, prev, hist>>
  BY <1>12, <1>4, <1>6
<1>13. CASE m.t = "abort" /\ Dies(b, "restore", w) /\ UNCHANGED <<run, build, prev, hist>>
  BY <1>13, <1>4, <1>6
<1> QED BY <1>9, <1>10, <1>11, <1>12, <1>13

(* What is known of the table stays so when more nodes have moved.         *)
LEMMA TableMore ==
    ASSUME NEW R, NEW G, NEW M, NEW M2, Table(R, G, M), M \subseteq M2
    PROVE  Table(R, G, M2)
<1>1. \A n \in Nodes : R.row[n].back => n \in M2
  BY DEF Table
<1> QED BY <1>1 DEF Table

(* A process comes up: a Move, a Back, or on the build it had.             *)
LEMMA ReturnStep ==
    ASSUME UpInv, NEW n \in Nodes, Return(n)
    PROVE  UpInv' /\ Abs!ANext
<1>1. UNCHANGED <<run, stage, granted, up, wire>> /\ proc[n] # "up" /\ proc' = [proc EXCEPT ![n] = "up"]
  BY DEF Return, hist
<1>2. Hosted /\ build \in [Nodes -> {"older", "old", "new"}] /\ prev \in [Hubs -> {"none", "older", "old", "new"}]
      /\ proc \in [Nodes -> {"up", "install", "restore"}] /\ up \subseteq Edges /\ Hubs \subseteq Nodes
  BY Facts DEF Hosted
<1> DEFINE back == stage = "aborted" \/ n \in Flaky
<1>3. \/ proc[n] = "install" /\ build' = [build EXCEPT ![n] = "new"] /\ prev' = prev
      \/ build' = build /\ prev' = (IF n \in Hubs THEN [prev EXCEPT ![n] = "none"] ELSE prev)
      \/ /\ proc[n] = "restore"
         /\ build' = [build EXCEPT ![n] = IF n \in Hubs THEN prev[n] ELSE "old"]
         /\ prev' = IF n \in Hubs THEN [prev EXCEPT ![n] = "none"] ELSE prev
  BY DEF Return
<1>0. n \in granted /\ (n \in Bots => build[n] # "older")
      /\ (n \in Hubs => Kept(n, build[n], prev[n], proc[n], stage))
  BY <1>1, <1>2 DEF Hosted
<1>4. /\ build' \in [Nodes -> {"older", "old", "new"}] /\ \A k \in Nodes : k # n => build'[k] = build[k]
      /\ \/ build' = build
         \/ build[n] # "new" /\ build' = [build EXCEPT ![n] = "new"]
         \/ build[n] = "new" /\ build' = [build EXCEPT ![n] = "old"] /\ back
         \/ n \in Hubs \cap Retained /\ stage = "aborted" /\ build' = [build EXCEPT ![n] = "older"]
  <2>1. CASE proc[n] = "install" /\ build' = [build EXCEPT ![n] = "new"] /\ prev' = prev
    <3>1. build[n] = "new" => build' = build
      BY <1>2, <2>1
    <3> QED BY <1>2, <2>1, <3>1
  <2>2. CASE build' = build
    BY <1>2, <2>2
  <2>3. CASE proc[n] = "restore" /\ build' = [build EXCEPT ![n] = IF n \in Hubs THEN prev[n] ELSE "old"]
    <3> DEFINE x == IF n \in Hubs THEN prev[n] ELSE "old"
    <3>1. /\ x \in {"older", "old", "new"} /\ back
          /\ x = "new" => build[n] = "new"
          /\ x = "old" => build[n] # "older"
          /\ x = "older" => n \in Hubs \cap Retained /\ stage = "aborted"
      <4>1. back
        BY <1>2, <2>3 DEF Hosted
      <4>2. CASE n \in Hubs
        <5>1. prev[n] \in {"none", "older", "old", "new"}
          BY <1>2, <4>2
        <5> QED BY <1>0, <2>3, <4>1, <4>2, <5>1 DEF Kept
      <4>3. CASE n \notin Hubs
        BY <1>0, <1>2, <4>1, <4>3 DEF Nodes
      <4> QED BY <4>2, <4>3
    <3>2. build' = [build EXCEPT ![n] = x]
      BY <2>3
    <3> HIDE DEF x, back
    <3>3. x = build[n] => build' = build
      BY <1>2, <3>2
    <3> QED BY <1>2, <3>1, <3>2, <3>3
  <2> QED BY <1>3, <2>1, <2>2, <2>3
<1>5. Hosted'
  <2>1. /\ prev' \in [Hubs -> {"none", "older", "old", "new"}]
        /\ \A h \in Hubs : h # n => prev'[h] = prev[h]
        /\ n \in Hubs => prev'[n] \in {"none", prev[n]}
    BY <1>2, <1>3
  <2>2. proc' \in [Nodes -> {"up", "install", "restore"}] /\ proc'[n] = "up"
        /\ \A k \in Nodes : k # n => proc'[k] = proc[k]
    BY <1>1, <1>2
  <2>3. \A h \in Hubs : Kept(h, build'[h], prev'[h], proc'[h], stage)
    <3> SUFFICES ASSUME NEW h \in Hubs PROVE Kept(h, build'[h], prev'[h], proc'[h], stage)
      OBVIOUS
    <3>1. CASE h # n
      BY <3>1, <1>2, <1>4, <2>1, <2>2 DEF Hosted
    <3>2. CASE h = n
      <4>1. n \in Hubs /\ build'[n] \in {"older", "old", "new"} /\ prev[n] \in {"none", "older", "old", "new"}
        BY <3>2, <1>2, <1>4
      <4>2. CASE proc[n] = "install" /\ build'[n] = "new" /\ prev'[n] = prev[n]
        BY <3>2, <4>1, <4>2, <1>0, <2>2 DEF Kept
      <4>3. CASE prev'[n] = "none" /\ build'[n] \in {build[n], prev[n]} /\ (build'[n] # build[n] => proc[n] = "restore")
        BY <3>2, <4>1, <4>3, <1>0, <2>2 DEF Kept
      <4>4. \/ proc[n] = "install" /\ build'[n] = "new" /\ prev'[n] = prev[n]
            \/ prev'[n] = "none" /\ build'[n] \in {build[n], prev[n]} /\ (build'[n] # build[n] => proc[n] = "restore")
        BY <4>1, <1>2, <1>3
      <4> QED BY <4>2, <4>3, <4>4
    <3> QED BY <3>1, <3>2
  <2>4. up' \subseteq Edges /\ stage' = stage /\ granted' = granted
    BY <1>1, <1>2
  <2>5. /\ \A k \in Nodes : proc'[k] # "up" \/ build'[k] = "new" => k \in granted
        /\ \A k \in Nodes : proc'[k] = "restore" => stage = "aborted" \/ k \in Flaky
    BY <1>0, <1>2, <1>4, <2>1, <2>2 DEF Hosted
  <2>6. \A b \in Bots : build'[b] # "older"
    <3> SUFFICES ASSUME NEW b \in Bots PROVE build'[b] # "older"
      OBVIOUS
    <3>1. b \in Nodes /\ b \notin Hubs /\ build[b] # "older"
      BY <1>2, UpgradeAssumption DEF Hosted, Nodes
    <3> QED BY <1>2, <1>4, <3>1
  <2> QED BY <2>6, <1>4, <2>1, <2>2, <2>3, <2>4, <2>5 DEF Hosted
<1>6. MovedNow \subseteq MovedNow'
  <2>1. \A k \in Nodes : build[k] = "new" => build'[k] = "new" \/ k \in Flaky \/ stage' = "aborted"
    BY <1>1, <1>2, <1>4
  <2> QED BY <1>1, <2>1, MovedGrows
<1>7. UpInv'
  <2> DEFINE M2 == MovedNow'
  <2> HIDE DEF M2
  <2>1. MovedNow \subseteq M2
    BY <1>6 DEF M2
  <2>2. Table(run, granted, M2) /\ Carries(wire, granted, stage, M2)
    BY <2>1, Facts, TableMore, CarriesMore
  <2>3. Staged'
    BY <1>1 DEF UpInv, Staged
  <2>4. (Table(run, granted, MovedNow) /\ Carries(wire, granted, stage, MovedNow))'
    BY <1>1, <2>2 DEF M2
  <2> QED BY <1>5, <2>3, <2>4 DEF UpInv
<1>8. Abs!ANext
  <2>1. CASE build' = build
    <3>1. Moves(run, run', MovedNow)
      BY <1>1, Facts
    <3> QED BY <1>1, <2>1, <3>1, Settles
  <2>2. CASE build[n] # "new" /\ build' = [build EXCEPT ![n] = "new"]
    <3>1. Abs!Move(n)
      BY <1>0, <1>1, <2>2 DEF Abs!Move
    <3> QED BY <3>1 DEF Abs!ANext, Abs!Nodes, Nodes
  <2>3. CASE build[n] = "new" /\ build' = [build EXCEPT ![n] = "old"] /\ back
    <3>1. Abs!Back(n)
      BY <1>0, <1>1, <2>3 DEF Abs!Back
    <3> QED BY <3>1 DEF Abs!ANext, Abs!Nodes, Nodes
  <2>4. CASE n \in Hubs \cap Retained /\ stage = "aborted" /\ build' = [build EXCEPT ![n] = "older"]
    <3>1. Abs!FarBack(n)
      BY <1>0, <1>1, <2>4 DEF Abs!FarBack
    <3> QED BY <3>1 DEF Abs!ANext, Abs!Nodes, Nodes
  <2> QED BY <1>4, <2>1, <2>2, <2>3, <2>4
<1> QED BY <1>7, <1>8

(* The watchdog gives a build up.                                          *)
LEMMA FallBackStep ==
    ASSUME UpInv, NEW n \in Nodes, FallBack(n)
    PROVE  UpInv' /\ Abs!ANext
<1>1. UNCHANGED <<run, stage, granted, build, prev>> /\ n \in Flaky /\ (n \in Hubs => prev[n] # "none")
      /\ build[n] = "new" /\ Dies(n, "restore", wire)
  BY DEF FallBack, disk, hist
<1>2. Hosted'
  <2>1. n \in granted
    BY <1>1, Facts DEF Hosted
  <2> QED BY <1>1, <2>1, Facts, HostedDies
<1>3. Carries(wire', granted, stage, MovedNow)
  <2>1. wire' = Gone(n, wire)
    BY <1>1 DEF Dies
  <2> QED BY <2>1, Facts, CarriesGone
<1> QED BY <1>1, <1>2, <1>3, ElsewhereStep

(* A connection comes up: a report says what the node runs.                *)
LEMMA LinkUpStep ==
    ASSUME UpInv, NEW e \in Edges, LinkUp(e)
    PROVE  UpInv' /\ Abs!ANext
<1>1. UNCHANGED <<run, stage, granted, build, proc, prev>> /\ up' = up \cup {e}
  BY DEF LinkUp, hist
<1>2. Hosted'
  BY <1>1, Facts, HostedSame
<1>3. wire' = [c \in Chans |-> wire'[c]]
  BY DEF LinkUp
<1>4. ASSUME NEW c \in Chans PROVE wire'[c] \in Seq(Truths(c, granted, stage, MovedNow))
  <2> DEFINE T == Truths(c, granted, stage, MovedNow)
             p == Frame("presence", c[1], "")
             q == Frame("result", c[1], IF build[c[1]] = "new" THEN "ok" ELSE "version-mismatch")
  <2>1. c[1] \in Nodes
    BY ChanEnds
  <2>2. p \in T
    <3>1. "" \in Words
      BY DEF Words
    <3> QED BY <2>1, <3>1, TrueFrame
  <2>3. q \in T
    <3> DEFINE v == IF build[c[1]] = "new" THEN "ok" ELSE "version-mismatch"
    <3>1. v \in Words /\ (v \in {"ok", "back"} => c[1] \in MovedNow)
      BY <2>1 DEF Words, MovedNow
    <3> HIDE DEF v
    <3>2. Frame("result", c[1], v) \in T
      BY <2>1, <3>1, TrueFrame
    <3> QED BY <3>2 DEF v
  <2>4. wire[c] \in Seq(T)
    BY Facts DEF Carries
  <2> HIDE DEF T, p, q
  <2>5. <<>> \in Seq(T) /\ <<p>> \in Seq(T) /\ <<q>> \in Seq(T)
    BY <2>2, <2>3
  <2>6. \A x, y \in Seq(T) : x \o y \in Seq(T)
    OBVIOUS
  <2>7. wire'[c] = wire[c] \/ \E x \in {<<>>, <<p>>}, y \in {<<>>, <<q>>} : wire'[c] = x \o y
    BY DEF LinkUp, report_pending, p, q
  <2>8. wire'[c] \in Seq(T)
    BY <2>4, <2>5, <2>6, <2>7
  <2> QED BY <2>8 DEF T
<1>5. Carries(wire', granted, stage, MovedNow)
  BY <1>3, <1>4 DEF Carries
<1> QED BY <1>1, <1>2, <1>5, ElsewhereStep

(* A connection is lost.                                                   *)
LEMMA LinkLostStep ==
    ASSUME UpInv, NEW e \in Edges, LinkLost(e)
    PROVE  UpInv' /\ Abs!ANext
<1>1. UNCHANGED <<run, stage, granted, build, proc, prev>> /\ up' = up \ {e}
  BY DEF LinkLost, host, hist
<1>2. Hosted'
  BY <1>1, Facts, HostedSame
<1>3. Carries(wire', granted, stage, MovedNow)
  <2>1. wire' = [c \in Chans |-> wire'[c]] /\ \A c \in Chans : wire'[c] \in {wire[c], <<>>}
    BY DEF LinkLost
  <2> QED BY <2>1, Facts, CarriesLess
<1> QED BY <1>1, <1>2, <1>3, ElsewhereStep

(* The roster tells the driver of a hub.                                   *)
LEMMA GossipStep ==
    ASSUME UpInv, NEW h \in Hubs, Gossip(h)
    PROVE  UpInv' /\ Abs!ANext
<1>1. UNCHANGED <<stage, granted, build, proc, prev, up, wire>> /\ run' = note_presence(run, h)
  BY DEF Gossip, host, hist
<1>2. Hosted'
  BY <1>1, Facts, HostedSame
<1>3. Moves(run, run', MovedNow) /\ run'.phase = run.phase
  BY <1>1, Facts, PresenceMoves, NotesKeepPhase
<1> QED BY <1>1, <1>2, <1>3, Facts, KeepStep

(* A PREPARE grows too old.                                                *)
LEMMA ExpiresStep ==
    ASSUME UpInv, NEW h \in Hubs, PrepareExpires(h)
    PROVE  UpInv' /\ Abs!ANext
<1>1. UNCHANGED <<run, stage, granted, build, proc, prev, up, wire>>
  BY DEF PrepareExpires, host, hist
<1>2. Hosted'
  BY <1>1, Facts, HostedSame
<1> QED BY <1>1, <1>2, Facts, ElsewhereStep

(* The empty table.                                                        *)
LEMMA NoRunIs ==
    ASSUME NEW G, NEW M
    PROVE  Table(NoRun, G, M) /\ NoRun.phase = "Idle" /\ \A x : In(NoRun, {x}) = {n \in Nodes : x = "none"}
<1>1. NoRow \in Row /\ NoRow.st = "none" /\ NoRow.back = FALSE
  BY DEF NoRow, Row
<1>2. NoRun.phase = "Idle" /\ NoRun \in Tables /\ \A n \in Nodes : NoRun.row[n] = NoRow
  <2>1. <<>> \in Seq(Nodes)
    OBVIOUS
  <2> QED BY <1>1, <2>1 DEF NoRun, Tables, Phases
<1> QED BY <1>1, <1>2 DEF Table, In

(* A hub crashes; with the driver the run is lost.                         *)
LEMMA CrashStep ==
    ASSUME UpInv, NEW h \in Hubs, Crash(h)
    PROVE  UpInv' /\ Abs!ANext
<1>1. UNCHANGED <<granted, build, proc, prev>> /\ up' \subseteq up /\ wire' = Gone(h, wire)
  BY DEF Crash, host
<1>2. Carries(wire', granted, stage, MovedNow)
  BY <1>1, Facts, CarriesGone
<1>3. CASE h # Driver
  <2>1. UNCHANGED <<run, stage>>
    BY <1>3 DEF Crash
  <2>2. Hosted'
    BY <1>1, <2>1, Facts, HostedSame
  <2> QED BY <1>1, <1>2, <2>1, <2>2, ElsewhereStep
<1>4. CASE h = Driver
  <2>1. run' = NoRun /\ stage' = (IF Active THEN "lost" ELSE stage)
    BY <1>4 DEF Crash
  <2>2. Active => stage \in {"asking", "moving"}
    BY DEF UpInv, Staged, Active
  <2>3. stage' # stage => stage \in {"asking", "moving"} /\ stage' = "lost"
    BY <2>1, <2>2
  <2>4. stage' \notin {"asking", "moving"}
    BY <2>1 DEF UpInv, Staged, Active
  <2>5. MovedNow' = MovedNow
    BY <1>1, <2>3 DEF MovedNow
  <2>6. Hosted'
    BY <1>1, <2>3, Facts, HostedStays
  <2>7. Staged'
    <3>1. run'.phase = "Idle"
      BY <2>1, NoRunIs
    <3>2. stage' \in {"idle", "asking"} => granted' = {}
      BY <1>1, <2>3 DEF UpInv, Staged
    <3> QED BY <2>4, <3>1, <3>2 DEF Staged
  <2>8. Carries(wire', granted, stage', MovedNow)
    BY <1>2, <2>3, CarriesMore
  <2>9. Table(run', granted, MovedNow)
    BY <2>1, NoRunIs
  <2>10. UpInv'
    <3>1. (Table(run, granted, MovedNow) /\ Carries(wire, granted, stage, MovedNow))'
      BY <1>1, <2>5, <2>8, <2>9
    <3> QED BY <2>6, <2>7, <3>1 DEF UpInv
  <2>11. In(run', {"Committed"}) = {} /\ In(run', {"Done"}) = {}
    BY <2>1, NoRunIs
  <2>12. CASE Active
    <3>1. Abs!Lose
      BY <1>1, <2>1, <2>2, <2>11, <2>12 DEF Abs!Lose
    <3> QED BY <2>10, <3>1 DEF Abs!ANext
  <2>13. CASE ~Active
    <3>1. Abs!Settle
      BY <1>1, <2>1, <2>11, <2>13 DEF Abs!Settle, Abs!Heard
    <3> QED BY <2>10, <3>1 DEF Abs!ANext
  <2> QED BY <2>10, <2>12, <2>13
<1> QED BY <1>3, <1>4

-----------------------------------------------------------------------------
(* The driver.                                                             *)

(* The run is aborted, from whatever its table has become.                 *)
LEMMA AbortRun ==
    ASSUME UpInv, Active, NEW R, Moves(run, R, MovedNow), abort(R, wire), UNCHANGED <<host, up, granted>>
    PROVE  UpInv' /\ Abs!ANext
<1> DEFINE ns == In(R, {"Committed", "Done"}) \ {Driver}
<1>1. /\ run' = [R EXCEPT !.phase = "Aborted"] /\ stage' = "aborted"
      /\ wire' = Told(wire, R, "abort", ns) /\ UNCHANGED <<proc, build, prev, up, granted>>
  BY DEF abort, finish, host
<1>2. Table(R, granted, MovedNow) /\ R \in Tables
  <2>1. Table(R, granted, MovedNow)
    BY Facts, MovesKeep
  <2> QED BY <2>1 DEF Table
<1>3. Moves(run, run', MovedNow)
  <2>1. Moves(R, run', MovedNow)
    BY <1>1, <1>2, MovesEnd
  <2> QED BY <2>1, MovesTwice
<1>4. MovedNow \subseteq MovedNow'
  BY <1>1, MovedGrows
<1> DEFINE M2 == MovedNow'
<1>5. ns \in SUBSET Nodes /\ ns \subseteq granted
  BY <1>2 DEF In, Table
<1> HIDE DEF ns, M2
<1>6. Table(run', granted, M2)
  <2>1. Table(run', granted, MovedNow)
    BY <1>3, Facts, MovesKeep
  <2> QED BY <2>1, <1>4, TableMore DEF M2
<1>7. Carries(wire', granted, "aborted", M2)
  <2>1. Carries(wire, granted, "aborted", M2)
    BY <1>4, Facts, CarriesMore DEF M2
  <2> QED BY <1>1, <1>2, <1>5, <2>1, CarriesTold
<1>8. (Table(run, granted, MovedNow) /\ Carries(wire, granted, stage, MovedNow))'
  BY <1>1, <1>6, <1>7 DEF M2
<1>9. Staged'
  <2>1. run'.phase = "Aborted"
    BY <1>1, <1>2 DEF Tables
  <2> QED BY <1>1, <2>1 DEF Staged
<1>10. Hosted'
  BY <1>1, Facts, HostedStays
<1>11. Abs!Abort
  <2>1. stage \in {"asking", "moving"}
    BY DEF Active, UpInv, Staged
  <2> QED BY <1>1, <1>3, <2>1, HeardMoves DEF Abs!Abort, Abs!Heard
<1> QED BY <1>8, <1>9, <1>10, <1>11 DEF UpInv, Abs!ANext

(* The run is over with nothing in flight.                                 *)
LEMMA FinishRun ==
    ASSUME UpInv, Active, NEW R, Moves(run, R, MovedNow), In(R, {"Committed"}) = {}, finish(R, "Done"),
           UNCHANGED <<host, up, wire, granted>>
    PROVE  UpInv' /\ Abs!ANext
<1>1. /\ run' = [R EXCEPT !.phase = "Done"] /\ stage' = "done"
      /\ UNCHANGED <<proc, build, prev, up, wire, granted>>
  BY DEF finish, host
<1>2. Table(R, granted, MovedNow) /\ R \in Tables
  <2>1. Table(R, granted, MovedNow)
    BY Facts, MovesKeep
  <2> QED BY <2>1 DEF Table
<1>3. Moves(run, run', MovedNow)
  <2>1. Moves(R, run', MovedNow)
    BY <1>1, <1>2, MovesEnd
  <2> QED BY <2>1, MovesTwice
<1>4. stage \in {"asking", "moving"}
  BY DEF Active, UpInv, Staged
<1>5. MovedNow' = MovedNow
  BY <1>1, <1>4 DEF MovedNow
<1>6. Table(run', granted, MovedNow)
  BY <1>3, Facts, MovesKeep
<1>7. Carries(wire, granted, "done", MovedNow)
  BY <1>4, Facts, CarriesMore
<1>8. (Table(run, granted, MovedNow) /\ Carries(wire, granted, stage, MovedNow))'
  BY <1>1, <1>5, <1>6, <1>7
<1>9. run'.phase = "Done" /\ In(run', {"Committed"}) = {}
  BY <1>1, <1>2 DEF Tables, In
<1>10. Staged'
  BY <1>1, <1>9 DEF Staged
<1>11. Hosted'
  BY <1>1, <1>4, Facts, HostedStays
<1>12. Abs!Finish
  <2>1. In(run', {"Done"}) \subseteq In(run, {"Done"}) \cup
          {n \in In(run, {"Committed"}) \ {} : build[n] = "new" \/ n \in Flaky \/ stage = "aborted"}
    BY <1>3, HeardMoves
  <2> QED BY <1>1, <1>4, <1>9, <2>1 DEF Abs!Finish, Abs!Heard
<1> QED BY <1>8, <1>10, <1>11, <1>12 DEF UpInv, Abs!ANext

(* An abort by hand.                                                       *)
LEMMA AdminAbortStep ==
    ASSUME UpInv, AdminAbort
    PROVE  UpInv' /\ Abs!ANext
<1>1. Active /\ abort(run, wire) /\ UNCHANGED <<host, up, granted>>
  BY DEF AdminAbort
<1> QED BY <1>1, Facts, AbortRun

(* Everybody the run starts with is listed.                                *)
LEMMA SeededIs ==
    ASSUME NEW s \in SUBSET Nodes
    PROVE  Seeded(s) \in Seq(Nodes)
           /\ \A n \in s \ (Asked(s) \cup {Driver}) : \E i \in 1 .. Len(Seeded(s)) : Seeded(s)[i] = n
<1> DEFINE S == s \ (Asked(s) \cup {Driver})
           N == Cardinality(S)
           Covers(q) == \A n \in S : \E i \in DOMAIN q : q[i] = n
<1>1. IsFiniteSet(S) /\ S \subseteq Nodes
  BY FS_Subset, UpgradeAssumption
<1> HIDE DEF S
<1>2. N \in Nat /\ ExistsBijection(1 .. N, S)
  BY <1>1, FS_CardinalityType
<1>3. \E q \in [1 .. N -> S] : Covers(q)
  <2>1. PICK q \in [1 .. N -> S] : \A n \in S : \E i \in 1 .. N : q[i] = n
    BY <1>2 DEF ExistsBijection, Bijection, Surjection
  <2> QED BY <2>1
<1>4. Seeded(s) = CHOOSE q \in [1 .. N -> S] : Covers(q)
  BY DEF Seeded, S
<1> HIDE DEF N, Covers
<1>5. Seeded(s) \in [1 .. N -> S] /\ Covers(Seeded(s))
  BY <1>3, <1>4
<1>6. Seeded(s) \in Seq(Nodes) /\ Len(Seeded(s)) = N /\ DOMAIN Seeded(s) = 1 .. N
  BY <1>1, <1>2, <1>5
<1> QED BY <1>5, <1>6 DEF Covers, S

(* start is Ask.                                                           *)
LEMMA StartStep ==
    ASSUME UpInv, NEW s \in Selections, start(s)
    PROVE  UpInv' /\ Abs!ANext
<1> DEFINE J == {i \in DOMAIN ClientOrder : ClientOrder[i] \in Asked(s)}
           A == At(ClientOrder, J)
           S == Seeded(s)
           O == A \o <<Driver>> \o S
           r(n) == IF n = Driver THEN SelfRow(s)
                   ELSE NewRow(IF n \in Asked(s) \cup s THEN "Pending" ELSE "none")
<1>1. /\ stage = "idle" /\ stage' = "asking" /\ UNCHANGED <<proc, build, prev, up, granted>>
      /\ run' = [phase |-> "Prepare", sel |-> s, order |-> O, row |-> [n \in Nodes |-> r(n)]]
      /\ wire' = Told(wire, run', "prepare", Asked(s))
  BY DEF start, host
<1>2. s \in SUBSET Nodes /\ ClientOrder \in Seq(Nodes) /\ Driver \in Nodes
  BY UpgradeAssumption DEF Nodes
<1>3. Asked(s) \in SUBSET Nodes /\ \A n \in Asked(s) : n \in {ClientOrder[i] : i \in J}
  <2>1. Asked(s) \in SUBSET Nodes
    BY DEF Asked
  <2>2. ASSUME NEW n \in Asked(s) PROVE n \in {ClientOrder[i] : i \in J}
    <3>1. n \in Nodes /\ {n, Driver} \in Edges
      BY Facts DEF Asked
    <3>2. {n, Driver} \in Links \/ (n \in Bots /\ Home[n] = Driver)
      <4>1. CASE {n, Driver} \in Links
        BY <4>1
      <4>2. CASE {n, Driver} \notin Links
        <5>1. PICK b \in Bots : {n, Driver} = {b, Home[b]}
          BY <3>1, <4>2 DEF Edges
        <5>2. b # Driver
          BY UpgradeAssumption
        <5>3. b = n /\ Home[b] = Driver
          BY <5>1, <5>2
        <5> QED BY <5>3
      <4> QED BY <4>1, <4>2
    <3>3. PICK i \in 1 .. Len(ClientOrder) : ClientOrder[i] = n
      BY <3>1, <3>2, UpgradeAssumption
    <3>4. i \in J
      BY <1>2, <3>3
    <3> QED BY <3>3, <3>4
  <2> QED BY <2>1, <2>2
<1>4. A \in Seq(Nodes) /\ \A n \in Asked(s) : \E k \in 1 .. Len(A) : A[k] = n
  <2>1. J \in SUBSET (1 .. Len(ClientOrder))
    BY <1>2
  <2> HIDE DEF J
  <2>2. A \in Seq(Nodes) /\ \A i \in J : \E k \in 1 .. Len(A) : A[k] = ClientOrder[i]
    BY <1>2, <2>1, AtPlaces
  <2> QED BY <1>3, <2>2
<1>5. S \in Seq(Nodes) /\ \A n \in s \ (Asked(s) \cup {Driver}) : \E i \in 1 .. Len(S) : S[i] = n
  BY <1>2, SeededIs
<1> HIDE DEF A, S, J
<1>6. /\ O \in Seq(Nodes) /\ Len(O) = Len(A) + 1 + Len(S)
      /\ \A k \in 1 .. Len(A) : O[k] = A[k]
      /\ O[Len(A) + 1] = Driver
      /\ \A k \in 1 .. Len(S) : O[Len(A) + 1 + k] = S[k]
  BY <1>2, <1>4, <1>5
<1> HIDE DEF O
<1>7. \A n \in Asked(s) \cup s \cup {Driver} : \E i \in 1 .. Len(O) : O[i] = n
  <2> SUFFICES ASSUME NEW n \in Asked(s) \cup s \cup {Driver} PROVE \E i \in 1 .. Len(O) : O[i] = n
    OBVIOUS
  <2>1. CASE n \in Asked(s)
    <3>1. PICK k \in 1 .. Len(A) : A[k] = n
      BY <1>4, <2>1
    <3>2. k \in 1 .. Len(O) /\ O[k] = n
      BY <3>1, <1>4, <1>5, <1>6
    <3> QED BY <3>2
  <2>2. CASE n = Driver
    <3>1. Len(A) + 1 \in 1 .. Len(O)
      BY <1>4, <1>5, <1>6
    <3> QED BY <3>1, <2>2, <1>6
  <2>3. CASE n \in s \ (Asked(s) \cup {Driver})
    <3>1. PICK k \in 1 .. Len(S) : S[k] = n
      BY <1>5, <2>3
    <3>2. Len(A) \in Nat /\ Len(S) \in Nat
      BY <1>4, <1>5
    <3>3. O[Len(A) + 1 + k] = n
      BY <3>1, <1>6
    <3>4. Len(A) + 1 + k \in 1 .. Len(O)
      <4>1. Len(O) = Len(A) + 1 + Len(S)
        BY <1>6
      <4> QED BY <3>1, <3>2, <4>1
    <3> QED BY <3>3, <3>4
  <2> QED BY <2>1, <2>2, <2>3
<1>8. \A n \in Nodes : /\ r(n) \in Row /\ r(n).back = FALSE /\ r(n).st \in {"none", "Pending", "Ready", "Unable"}
                       /\ r(n).st # "none" => n \in Asked(s) \cup s \cup {Driver}
  <2>1. ASSUME NEW x \in {"none", "Pending", "Ready", "Unable"}
        PROVE  NewRow(x) \in Row /\ NewRow(x).back = FALSE /\ NewRow(x).st = x
    BY DEF NewRow, NoRow, Row
  <2>2. SelfRow(s) \in Row /\ SelfRow(s).back = FALSE /\ SelfRow(s).st \in {"Ready", "Unable"}
    <3> DEFINE q == [NewRow("Unable") EXCEPT !.skip = TRUE]
    <3>1. q \in Row /\ q.back = FALSE /\ q.st = "Unable"
      BY <2>1 DEF Row
    <3>2. SelfRow(s) = q \/ \E x \in {"Ready", "Unable"} : SelfRow(s) = NewRow(x)
      BY DEF SelfRow
    <3> HIDE DEF q
    <3> QED BY <2>1, <3>1, <3>2
  <2> QED BY <2>1, <2>2
<1> HIDE DEF r
<1>9. /\ run' \in Tables /\ run'.phase = "Prepare" /\ run'.order = O /\ \A n \in Nodes : run'.row[n] = r(n)
  BY <1>1, <1>2, <1>6, <1>8 DEF Tables, Phases
<1>10. Table(run', granted, MovedNow)
  BY <1>7, <1>8, <1>9 DEF Table
<1>11. MovedNow' = MovedNow
  BY <1>1 DEF MovedNow
<1>12. Carries(wire', granted, "asking", MovedNow)
  <2>1. Carries(wire, granted, "asking", MovedNow)
    BY <1>1, Facts, CarriesMore
  <2> QED BY <1>1, <1>3, <1>9, <2>1, CarriesTold
<1>13. (Table(run, granted, MovedNow) /\ Carries(wire, granted, stage, MovedNow))'
  BY <1>1, <1>10, <1>11, <1>12
<1>14. Staged'
  BY <1>1, <1>9 DEF UpInv, Staged
<1>15. Hosted'
  BY <1>1, Facts, HostedStays
<1>16. Abs!Ask
  <2>1. \A n \in Nodes : run.row[n].st = "none"
    BY <1>1, Facts DEF UpInv, Staged, Table
  <2>2. In(run, {"Committed"}) = {} /\ In(run, {"Done"}) = {}
    BY <2>1 DEF In
  <2>3. In(run', {"Committed"}) = {} /\ In(run', {"Done"}) = {}
    BY <1>8, <1>9 DEF In
  <2> QED BY <1>1, <2>2, <2>3 DEF Abs!Ask
<1> QED BY <1>13, <1>14, <1>15, <1>16 DEF UpInv, Abs!ANext

(* The plan is closed: Open, or Finish when nobody is ready.               *)
LEMMA PreparedStep ==
    ASSUME UpInv, NEW exp \in BOOLEAN, tick_prepare(exp)
    PROVE  UpInv' /\ Abs!ANext
<1> DEFINE r(n) == IF run.row[n].st = "Pending" THEN [run.row[n] EXCEPT !.st = "Unable"] ELSE run.row[n]
           R == [run EXCEPT !.row = [n \in Nodes |-> r(n)]]
<1>1. /\ run.phase = "Prepare" /\ UNCHANGED <<host, up, wire, granted>>
      /\ \/ finish(R, "Done")
         \/ run' = [R EXCEPT !.phase = "Rolling"] /\ stage' = "moving"
  BY DEF tick_prepare
<1>2. run \in Tables /\ run.row \in [Nodes -> Row]
  BY Facts DEF Tables
<1>3. \A n \in Nodes : /\ r(n) \in Row /\ r(n).back = run.row[n].back
                       /\ r(n).st = IF run.row[n].st = "Pending" THEN "Unable" ELSE run.row[n].st
  <2> TAKE n \in Nodes
  <2>1. run.row[n] \in Row
    BY <1>2
  <2> QED BY <2>1 DEF Row
<1> HIDE DEF r
<1>4. R \in Tables /\ R.phase = run.phase /\ R.order = run.order /\ \A n \in Nodes : R.row[n] = r(n)
  BY <1>2, <1>3 DEF Tables
<1> HIDE DEF R
<1>5. \A n \in Nodes : run.row[n].st # "Committed"
  BY <1>1, Facts DEF Table
<1>6. Moves(run, R, MovedNow)
  BY <1>1, <1>3, <1>4, Facts DEF Moves, Table
<1>7. CASE finish(R, "Done")
  <2>1. In(R, {"Committed"}) = {}
    BY <1>3, <1>4, <1>5 DEF In
  <2>2. Active
    BY <1>1 DEF Active
  <2> QED BY <1>1, <1>6, <1>7, <2>1, <2>2, FinishRun
<1>8. CASE run' = [R EXCEPT !.phase = "Rolling"] /\ stage' = "moving"
  <2>1. run' \in Tables /\ run'.phase = "Rolling" /\ run'.order = run.order /\ \A n \in Nodes : run'.row[n] = r(n)
    BY <1>4, <1>8 DEF Tables, Phases
  <2>2. stage = "asking" /\ granted = {} /\ UNCHANGED <<proc, build, prev, up, wire, granted>>
    BY <1>1 DEF UpInv, Staged, host
  <2>3. MovedNow' = MovedNow
    BY <1>8, <2>2 DEF MovedNow
  <2>4. Table(run', granted, MovedNow)
    <3>1. \A n \in Nodes : run'.row[n].st # "none" => \E i \in 1 .. Len(run'.order) : run'.order[i] = n
      BY <2>1, <1>3, Facts DEF Table
    <3>2. \A n \in Nodes : run'.row[n].st # "Committed" /\ (run'.row[n].back => n \in MovedNow)
      BY <2>1, <1>3, <1>5, Facts DEF Table
    <3>3. \A n \in Nodes : run'.row[n].st = "Done" => n \in granted
      BY <2>1, <1>3, Facts DEF Table
    <3>4. \A n \in Nodes : n \notin granted
      BY <2>2
    <3>5. \A n \in Nodes : run'.row[n].st \in {"Committed", "Done"} => n \in granted
      BY <3>2, <3>3
    <3>6. \A b \in Bots : run'.row[b].st = "Ready" => \A h \in Hubs : run'.row[h].st # "Committed"
      BY <3>2, Facts
    <3>7. run'.phase \notin {"Idle", "Prepare"} /\ run' \in Tables
      BY <2>1
    <3> QED BY <3>1, <3>2, <3>4, <3>5, <3>6, <3>7 DEF Table
  <2>5. Carries(wire, granted, "moving", MovedNow)
    BY <2>2, Facts, CarriesMore
  <2>6. (Table(run, granted, MovedNow) /\ Carries(wire, granted, stage, MovedNow))'
    BY <1>8, <2>2, <2>3, <2>4, <2>5
  <2>7. Staged'
    BY <1>8, <2>1 DEF Staged
  <2>8. Hosted'
    BY <1>8, <2>2, Facts, HostedStays
  <2>9. Abs!Open
    <3>1. In(run', {"Committed"}) = In(run, {"Committed"}) /\ In(run', {"Done"}) = In(run, {"Done"})
      BY <2>1, <1>3 DEF In
    <3> QED BY <1>8, <2>2, <3>1 DEF Abs!Open
  <2> QED BY <2>6, <2>7, <2>8, <2>9 DEF UpInv, Abs!ANext
<1> QED BY <1>1, <1>7, <1>8

(* A tick never has more bots in flight than the wave: the bot sent to     *)
(* last saw all the others before it.                                      *)
LEMMA WaveBound ==
    ASSUME NEW R \in Tables, NEW sent \in SUBSET {n \in InWave(R) : Reachable(R, n)}, sent # {},
           \A n \in Nodes : R.row[n].st # "none" => \E i \in 1 .. Len(R.order) : R.order[i] = n
    PROVE  Cardinality(In(R, {"Committed"}) \cup sent) <= WaveMax
<1> DEFINE F == In(R, {"Committed"})
           bots == In(R, {"Ready"}) \cap Bots
           pos(n) == CHOOSE i \in DOMAIN R.order : R.order[i] = n
           before(n) == {b \in bots : pos(b) < pos(n) /\ Reachable(R, b)}
           T == [n \in sent |-> pos(n)]
<1>1. R.order \in Seq(Nodes) /\ DOMAIN R.order = 1 .. Len(R.order)
  BY DEF Tables
<1>2. \A n \in sent : n \in bots /\ Reachable(R, n) /\ Cardinality(F) + Cardinality(before(n)) < wave(R)
  BY DEF InWave
<1>3. IsFiniteSet(Nodes)
  BY UpgradeAssumption
<1>4. bots \subseteq Nodes /\ F \subseteq Nodes
  BY DEF In
<1>5. sent \subseteq bots
  BY <1>2
<1>6. \A n \in bots : pos(n) \in Nat /\ R.order[pos(n)] = n
  <2> SUFFICES ASSUME NEW n \in bots PROVE pos(n) \in Nat /\ R.order[pos(n)] = n
    OBVIOUS
  <2>1. R.row[n].st = "Ready" /\ n \in Nodes
    BY DEF In
  <2>2. \E i \in DOMAIN R.order : R.order[i] = n
    BY <1>1, <2>1
  <2>3. pos(n) \in DOMAIN R.order /\ R.order[pos(n)] = n
    BY <2>2
  <2> HIDE DEF pos
  <2> QED BY <1>1, <2>3
<1> HIDE DEF pos, F, bots
<1>7. IsFiniteSet(sent) /\ IsFiniteSet(F) /\ IsFiniteSet(bots)
  <2>1. sent \subseteq Nodes
    BY <1>4, <1>5
  <2> QED BY <1>3, <1>4, <2>1, FS_Subset
<1>8. T \in [sent -> Nat] /\ \A n \in sent : T[n] = pos(n)
  BY <1>5, <1>6
<1> HIDE DEF T
<1>9. PICK m \in sent : \A y \in sent : T[y] <= T[m]
  BY <1>7, <1>8, Greatest
<1>10. before(m) \subseteq bots /\ sent \ {m} \subseteq before(m)
  <2>1. before(m) \subseteq bots
    OBVIOUS
  <2>2. ASSUME NEW y \in sent, y # m PROVE y \in before(m)
    <3>1. pos(y) <= pos(m) /\ pos(y) \in Nat /\ pos(m) \in Nat
      BY <1>5, <1>6, <1>8, <1>9
    <3>2. pos(y) # pos(m)
      BY <1>5, <1>6, <2>2
    <3>3. pos(y) < pos(m)
      BY <3>1, <3>2
    <3>4. y \in bots /\ Reachable(R, y)
      BY <1>2
    <3> QED BY <3>3, <3>4
  <2> QED BY <2>1, <2>2
<1>11. Cardinality(F) + Cardinality(before(m)) < wave(R)
  BY <1>2
<1> HIDE DEF before
<1>12. /\ Cardinality(sent) \in Nat /\ Cardinality(F) \in Nat /\ Cardinality(before(m)) \in Nat
       /\ Cardinality(sent \ {m}) = Cardinality(sent) - 1
       /\ Cardinality(sent \ {m}) <= Cardinality(before(m))
  <2>1. IsFiniteSet(before(m))
    BY <1>7, <1>10, FS_Subset
  <2> QED BY <2>1, <1>7, <1>10, FS_Subset, FS_RemoveElement, FS_CardinalityType
<1>13. /\ Cardinality(F \cup sent) = Cardinality(F) + Cardinality(sent) - Cardinality(F \cap sent)
       /\ Cardinality(F \cap sent) \in Nat /\ Cardinality(F \cup sent) \in Nat
  <2>1. IsFiniteSet(F \cap sent) /\ IsFiniteSet(F \cup sent)
    BY <1>7, FS_Subset, FS_Union
  <2> QED BY <2>1, <1>7, FS_Union, FS_CardinalityType
<1>14. wave(R) \in Nat /\ wave(R) <= WaveMax
  <2> DEFINE C == Cardinality(In(R, {"Ready", "Committed", "Done"}) \cap Bots)
             q == C \div Divisor
  <2>1. C \in Nat
    <3> DEFINE X == In(R, {"Ready", "Committed", "Done"}) \cap Bots
    <3>1. X \subseteq Nodes
      BY DEF In
    <3> HIDE DEF X
    <3>2. Cardinality(X) \in Nat
      BY <3>1, <1>3, FS_Subset, FS_CardinalityType
    <3> QED BY <3>2 DEF X
  <2>2. wave(R) = IF q < 1 THEN 1 ELSE IF q > WaveMax THEN WaveMax ELSE q
    BY DEF wave
  <2> HIDE DEF C
  <2>3. q \in Nat /\ WaveMax \in Nat \ {0}
    BY <2>1, UpgradeAssumption
  <2> HIDE DEF q
  <2> QED BY <2>2, <2>3
<1>15. Cardinality(F \cup sent) <= WaveMax
  <2> DEFINE f == Cardinality(F)  e == Cardinality(sent)  u == Cardinality(F \cup sent)
             i == Cardinality(F \cap sent)  k == Cardinality(before(m))  v == wave(R)
  <2>1. f \in Nat /\ e \in Nat /\ u \in Nat /\ i \in Nat /\ k \in Nat /\ v \in Nat /\ WaveMax \in Nat
    BY <1>12, <1>13, <1>14, UpgradeAssumption
  <2>2. u = f + e - i /\ e - 1 <= k /\ f + k < v /\ v <= WaveMax
    BY <1>11, <1>12, <1>13, <1>14
  <2> HIDE DEF f, e, u, i, k, v
  <2>3. u <= WaveMax
    BY <2>1, <2>2
  <2> QED BY <2>3 DEF u
<1> QED BY <1>15 DEF F

(* The hub that goes next is one that is ready.                            *)
LEMMA NextHubIs ==
    ASSUME NEW R \in Tables, In(R, {"Ready"}) \cap PeerHubs # {}
    PROVE  next_hub(R) \in In(R, {"Ready"}) \cap PeerHubs
<1> DEFINE hs == In(R, {"Ready"}) \cap PeerHubs
           T == [h \in hs |-> R.row[h].seq]
<1>1. hs \subseteq Nodes
  BY DEF In
<1>2. IsFiniteSet(hs)
  BY <1>1, FS_Subset, UpgradeAssumption
<1>3. T \in [hs -> Nat]
  BY <1>1 DEF Tables, Row
<1>4. \A h \in hs : T[h] = R.row[h].seq /\ R.row[h].seq \in Nat
  BY <1>1 DEF Tables, Row
<1>5. next_hub(R) = CHOOSE h \in hs : \A g \in hs : R.row[h].seq >= R.row[g].seq
  BY DEF next_hub
<1>6. hs # {}
  OBVIOUS
<1> HIDE DEF hs, T
<1>7. PICK h \in hs : \A y \in hs : T[y] <= T[h]
  BY <1>2, <1>3, <1>6, Greatest
<1>8. \A g \in hs : R.row[h].seq >= R.row[g].seq
  BY <1>4, <1>7
<1>9. next_hub(R) \in hs
  BY <1>5, <1>7, <1>8
<1> QED BY <1>9 DEF hs

(* A wave, or one hub, is committed: Grant, or Settle when nobody could be reached. *)
LEMMA NextStep ==
    ASSUME UpInv, run.phase = "Rolling", NEW R, Moves(run, R, MovedNow), R.phase = "Rolling",
           In(R, {"Ready"}) \cap Bots # {} \/ (settled(R) /\ In(R, {"Ready"}) \cap PeerHubs # {}),
           commit_next(R)
    PROVE  UpInv' /\ Abs!ANext
<1>1. PICK next \in {IF In(R, {"Ready"}) \cap Bots # {} THEN InWave(R) ELSE {next_hub(R)}} :
      \E sent \in {{n \in next : Reachable(R, n)}} :
        /\ run' = commit_node(R, next) /\ granted' = granted \cup sent
        /\ wire' = Told(wire, R, "commit", sent)
        /\ UNCHANGED <<frozen, plan, follow, seen, host, up, stage>>
  BY DEF commit_next
<1>2. PICK sent \in {{n \in next : Reachable(R, n)}} :
        /\ run' = commit_node(R, next) /\ granted' = granted \cup sent
        /\ wire' = Told(wire, R, "commit", sent)
        /\ UNCHANGED <<frozen, plan, follow, seen, host, up, stage>>
  BY <1>1
<1>3. UNCHANGED <<proc, build, prev, up, stage>>
  BY <1>2 DEF host
<1>4. Table(R, granted, MovedNow) /\ R \in Tables /\ R.row \in [Nodes -> Row]
  <2>1. Table(R, granted, MovedNow)
    BY Facts, MovesKeep
  <2> QED BY <2>1 DEF Table, Tables
<1>5. sent = {n \in next : Reachable(R, n)}
  BY <1>2
<1>6. /\ next \subseteq In(R, {"Ready"})
      /\ \/ next = InWave(R) /\ next \subseteq Bots
         \/ \E h \in PeerHubs : next = {h} /\ settled(R) /\ In(R, {"Ready"}) \cap Bots = {}
  <2>1. CASE In(R, {"Ready"}) \cap Bots # {}
    <3>1. next = InWave(R)
      BY <1>1, <2>1
    <3>2. InWave(R) \subseteq In(R, {"Ready"}) \cap Bots
      BY DEF InWave
    <3> QED BY <3>1, <3>2
  <2>2. CASE In(R, {"Ready"}) \cap Bots = {}
    <3>1. next = {next_hub(R)} /\ settled(R) /\ In(R, {"Ready"}) \cap PeerHubs # {}
      BY <1>1, <2>2
    <3>2. next_hub(R) \in In(R, {"Ready"}) \cap PeerHubs
      BY <3>1, <1>4, NextHubIs
    <3> QED BY <3>1, <3>2, <2>2
  <2> QED BY <2>1, <2>2
<1>7. /\ next \subseteq Nodes /\ sent \subseteq next
      /\ \A n \in next : R.row[n].st = "Ready"
      /\ \A n \in Nodes : R.row[n].st = "Ready" => n \notin granted
  BY <1>4, <1>5, <1>6 DEF In, Table
<1> DEFINE r(n) == IF n \notin next THEN R.row[n]
                   ELSE [R.row[n] EXCEPT !.st = IF Reachable(R, n) THEN "Committed" ELSE "Unable"]
<1>8. \A n \in Nodes : /\ r(n) \in Row /\ r(n).back = R.row[n].back
                       /\ r(n).st = IF n \notin next THEN R.row[n].st
                                    ELSE IF n \in sent THEN "Committed" ELSE "Unable"
  <2> TAKE n \in Nodes
  <2>1. R.row[n] \in Row
    BY <1>4
  <2>2. n \in next => (n \in sent <=> Reachable(R, n))
    BY <1>5
  <2> QED BY <2>1, <2>2 DEF Row
<1>9. run' = [R EXCEPT !.row = [n \in Nodes |-> r(n)]]
  BY <1>2 DEF commit_node
<1> HIDE DEF r
<1>10. run' \in Tables /\ run'.phase = "Rolling" /\ run'.order = R.order /\ \A n \in Nodes : run'.row[n] = r(n)
  BY <1>4, <1>8, <1>9 DEF Tables
<1> DEFINE G2 == granted \cup sent
<1>11. Table(run', G2, MovedNow)
  <2>1. \A n \in Nodes : run'.row[n].st # "none" => \E i \in 1 .. Len(run'.order) : run'.order[i] = n
    BY <1>4, <1>7, <1>8, <1>10 DEF Table
  <2>2. \A n \in Nodes : run'.row[n].st = "Ready" => n \notin G2
    BY <1>7, <1>8, <1>10
  <2>3. \A n \in Nodes : run'.row[n].back => n \in MovedNow
    BY <1>4, <1>8, <1>10 DEF Table
  <2>4. ASSUME NEW b \in Bots, run'.row[b].st = "Ready", NEW h \in Hubs PROVE run'.row[h].st # "Committed"
    <3>1. b \in Nodes /\ h \in Nodes
      BY Facts
    <3>2. R.row[b].st = "Ready"
      BY <1>8, <1>10, <2>4, <3>1
    <3>3. b \in In(R, {"Ready"}) \cap Bots
      BY <3>1, <3>2 DEF In
    <3>4. next \subseteq Bots
      BY <1>6, <3>3
    <3>5. h \notin next
      BY <3>4, UpgradeAssumption
    <3>6. R.row[h].st # "Committed"
      BY <1>4, <3>2 DEF Table
    <3> QED BY <1>8, <1>10, <3>1, <3>5, <3>6
  <2>5. \A n \in Nodes : run'.row[n].st \in {"Committed", "Done"} => n \in G2
    BY <1>4, <1>7, <1>8, <1>10 DEF Table
  <2> HIDE DEF G2
  <2> QED BY <1>10, <2>1, <2>2, <2>3, <2>4, <2>5 DEF Table
<1>12. MovedNow' = MovedNow /\ granted' = G2 /\ stage' = stage
  BY <1>2, <1>3 DEF MovedNow
<1>13. Carries(wire', G2, stage, MovedNow)
  <2>1. Carries(wire, G2, stage, MovedNow)
    BY Facts, CarriesMore
  <2>2. sent \in SUBSET Nodes /\ sent \subseteq G2
    BY <1>7
  <2> HIDE DEF G2
  <2> QED BY <1>2, <1>4, <2>1, <2>2, CarriesTold
<1> HIDE DEF G2
<1>14. (Table(run, granted, MovedNow) /\ Carries(wire, granted, stage, MovedNow))'
  BY <1>11, <1>12, <1>13
<1>15. stage = "moving"
  BY DEF UpInv, Staged
<1>16. Staged'
  BY <1>10, <1>12, <1>15 DEF Staged
<1>17. Hosted'
  BY <1>3, <1>12, Facts, HostedStays DEF G2
<1>18. Abs!ANext
  <2>1. CASE sent = {}
    <3>1. Moves(R, run', MovedNow)
      BY <1>4, <1>7, <1>8, <1>10, <2>1 DEF Moves, Table
    <3>2. Moves(run, run', MovedNow)
      BY <3>1, MovesTwice
    <3>3. UNCHANGED <<stage, granted, build>>
      BY <1>3, <1>12, <2>1 DEF G2
    <3> QED BY <3>2, <3>3, Settles
  <2>2. CASE sent # {}
    <3> DEFINE C == In(run, {"Committed"})  C1 == In(R, {"Committed"})  C2 == In(run', {"Committed"})
               D == In(run, {"Done"})  D2 == In(run', {"Done"})
    <3>1. granted' \ granted = sent
      BY <1>7, <1>12 DEF G2
    <3>2. C2 = C1 \cup sent /\ C1 \cap sent = {} /\ sent \subseteq C2 /\ C2 \ sent = C1
      <4>1. \A n \in Nodes : run'.row[n].st = "Committed" <=> R.row[n].st = "Committed" \/ n \in sent
        BY <1>7, <1>8, <1>10
      <4>2. \A n \in sent : n \in Nodes /\ R.row[n].st # "Committed"
        BY <1>7
      <4> QED BY <4>1, <4>2 DEF In
    <3>3. C1 \subseteq C /\ D2 \subseteq D \cup {n \in C \ C1 : build[n] = "new" \/ n \in Flaky \/ stage = "aborted"}
      <4>1. \A n \in Nodes : run'.row[n].st = "Done" => R.row[n].st = "Done"
        BY <1>8, <1>10
      <4>2. \A n \in Nodes : /\ R.row[n].st = "Committed" => run.row[n].st = "Committed"
                             /\ R.row[n].st = "Done" => run.row[n].st = "Done" \/
                                  (run.row[n].st = "Committed" /\ n \in MovedNow)
        BY DEF Moves
      <4> QED BY <4>1, <4>2 DEF In, MovedNow
    <3>4. (C2 \subseteq Bots /\ Cardinality(C2) <= WaveMax) \/ \E h \in Hubs \ {Driver} : C2 = {h}
      <4>1. CASE next = InWave(R) /\ next \subseteq Bots
        <5>1. PICK b \in sent : b \in Bots /\ R.row[b].st = "Ready"
          BY <1>7, <2>2, <4>1
        <5>2. \A h \in Hubs : R.row[h].st # "Committed"
          BY <1>4, <5>1 DEF Table
        <5>3. C1 \subseteq Bots
          BY <5>2 DEF In, Nodes
        <5>4. sent \in SUBSET {n \in InWave(R) : Reachable(R, n)}
          BY <1>5, <4>1
        <5>5. \A n \in Nodes : R.row[n].st # "none" => \E i \in 1 .. Len(R.order) : R.order[i] = n
          BY <1>4 DEF Table
        <5> HIDE DEF C1, C2
        <5>6. Cardinality(C1 \cup sent) <= WaveMax
          BY <1>4, <2>2, <5>4, <5>5, WaveBound DEF C1
        <5> QED BY <1>7, <3>2, <4>1, <5>3, <5>6
      <4>2. CASE \E h \in PeerHubs : next = {h} /\ settled(R)
        <5>1. PICK h \in PeerHubs : next = {h} /\ settled(R)
          BY <4>2
        <5>2. sent = {h} /\ C1 = {}
          BY <1>7, <2>2, <5>1 DEF settled
        <5>3. C2 = {h} /\ h \in Hubs \ {Driver}
          BY <3>2, <5>1, <5>2 DEF PeerHubs
        <5> QED BY <5>3
      <4> QED BY <1>6, <4>1, <4>2
    <3>5. Abs!Grant
      <4>1. stage = "moving" /\ sent # {} /\ granted \subseteq granted' /\ UNCHANGED <<stage, build>>
        BY <1>3, <1>12, <1>15, <2>2 DEF G2
      <4>2. Abs!Heard(C1)
        BY <3>3 DEF Abs!Heard
      <4>3. C1 = C2 \ (granted' \ granted)
        BY <3>1, <3>2
      <4>4. Abs!Heard(C2 \ (granted' \ granted))
        BY <4>2, <4>3
      <4>5. granted' \ granted # {} /\ granted' \ granted \subseteq C2
        BY <3>1, <3>2, <4>1
      <4> HIDE DEF C1
      <4>6. Abs!Cardinality(C2) = Cardinality(C2)
        BY DEF Abs!Cardinality, Cardinality
      <4> QED BY <3>4, <4>1, <4>4, <4>5, <4>6 DEF Abs!Grant
    <3> QED BY <3>5 DEF Abs!ANext
  <2> QED BY <2>1, <2>2
<1> QED BY <1>14, <1>16, <1>17, <1>18 DEF UpInv

(* commit_self is Last.                                                    *)
LEMMA LastStep ==
    ASSUME UpInv, run.phase = "Rolling", NEW R, Moves(run, R, MovedNow), R.phase = "Rolling",
           settled(R), In(R, {"Ready"}) = {Driver}, commit_self(R)
    PROVE  UpInv' /\ Abs!ANext
<1>1. stage' = "done" /\ granted' = granted \cup {Driver} /\ build' = build
  BY DEF commit_self, host
<1>2. Table(R, granted, MovedNow) /\ R \in Tables
  <2>1. Table(R, granted, MovedNow)
    BY Facts, MovesKeep
  <2> QED BY <2>1 DEF Table
<1>3. R.row[Driver].st = "Ready" /\ Driver \in Nodes /\ Driver \in Hubs /\ Driver \notin granted
  <2>1. Driver \in In(R, {"Ready"}) /\ Driver \in Hubs
    BY UpgradeAssumption
  <2> QED BY <1>2, <2>1 DEF In, Table
<1>4. stage = "moving"
  BY DEF UpInv, Staged
<1>5. MovedNow' = MovedNow
  BY <1>1, <1>4 DEF MovedNow
<1> DEFINE G2 == granted \cup {Driver}
<1>6. Carries(wire, G2, "done", MovedNow)
  BY <1>4, Facts, CarriesMore
<1>7. \A n \in Nodes : R.row[n].st # "Committed"
  BY DEF settled, In
<1>8. CASE /\ run' = NoRun /\ Dies(Driver, "install", wire) /\ prev' = [prev EXCEPT ![Driver] = build[Driver]]
  <2>1. wire' = Gone(Driver, wire) /\ proc' = [proc EXCEPT ![Driver] = "install"] /\ up' \subseteq up
    BY <1>8 DEF Dies
  <2> HIDE DEF G2
  <2>2. Carries(wire', G2, "done", MovedNow)
    BY <1>6, <2>1, CarriesGone
  <2>3. Table(run', G2, MovedNow) /\ run'.phase = "Idle"
    BY <1>8, NoRunIs
  <2>4. Hosted'
    <3>1. Hosted /\ Hubs \subseteq Nodes
      BY Facts
    <3>2. up' \subseteq Edges /\ proc' \in [Nodes -> {"up", "install", "restore"}]
          /\ \A k \in Nodes : proc'[k] = IF k = Driver THEN "install" ELSE proc[k]
      BY <2>1, <3>1 DEF Hosted
    <3>3. prev' \in [Hubs -> {"none", "older", "old", "new"}]
          /\ \A k \in Hubs : prev'[k] = IF k = Driver THEN build[k] ELSE prev[k]
      BY <1>8, <1>3, <3>1 DEF Hosted
    <3>4. \A k \in Nodes : proc'[k] # "up" \/ build'[k] = "new" => k \in granted'
      BY <1>1, <3>1, <3>2 DEF Hosted
    <3>5. \A k \in Nodes : proc'[k] = "restore" => stage' = "aborted" \/ k \in Flaky
      BY <1>4, <3>1, <3>2 DEF Hosted
    <3>6. \A h \in Hubs : Kept(h, build'[h], prev'[h], proc'[h], stage')
      <4> SUFFICES ASSUME NEW h \in Hubs PROVE Kept(h, build[h], prev'[h], proc'[h], "done")
        BY <1>1
      <4>1. Kept(h, build[h], prev[h], proc[h], "moving") /\ build[h] \in {"older", "old", "new"}
        BY <1>4, <3>1 DEF Hosted
      <4>2. h \in Nodes /\ prev'[h] = (IF h = Driver THEN build[h] ELSE prev[h])
            /\ proc'[h] = IF h = Driver THEN "install" ELSE proc[h]
        BY <3>1, <3>2, <3>3
      <4> QED BY <4>1, <4>2 DEF Kept
    <3>7. \A b \in Bots : build'[b] # "older"
      BY <1>1, <3>1 DEF Hosted
    <3>8. build' \in [Nodes -> {"older", "old", "new"}]
      BY <1>1, <3>1 DEF Hosted
    <3> QED BY <3>2, <3>3, <3>4, <3>5, <3>6, <3>7, <3>8 DEF Hosted
  <2>5. Staged'
    BY <1>1, <2>3 DEF Staged
  <2>6. (Table(run, granted, MovedNow) /\ Carries(wire, granted, stage, MovedNow))'
    BY <1>1, <1>5, <2>2, <2>3 DEF G2
  <2>7. Abs!Last
    <3>1. In(run', {"Committed"}) = {} /\ In(run', {"Done"}) = {}
      BY <1>8, NoRunIs
    <3> QED BY <1>1, <1>3, <1>4, <3>1 DEF Abs!Last, Abs!Heard
  <2> QED BY <2>4, <2>5, <2>6, <2>7 DEF UpInv, Abs!ANext
<1>9. CASE run' = [[R EXCEPT !.row[Driver].st = "Committed"] EXCEPT !.row[Driver].st = "Failed", !.phase = "Failed"]
           /\ UNCHANGED <<host, up, wire>>
  <2> DEFINE R1 == [R EXCEPT !.row[Driver].st = "Failed"]
  <2>1. run' = [R1 EXCEPT !.phase = "Failed"]
    BY <1>2, <1>3, <1>9 DEF Tables, Row
  <2>2. Moves(R, R1, MovedNow)
    BY <1>2, <1>3, MovesState
  <2> HIDE DEF R1
  <2>3. Table(R1, granted, MovedNow) /\ R1 \in Tables
    <3>1. Table(R1, granted, MovedNow)
      BY <1>2, <2>2, MovesKeep
    <3> QED BY <3>1 DEF Table
  <2>4. Moves(run, run', MovedNow)
    <3>1. Moves(R1, run', MovedNow)
      BY <2>1, <2>3, MovesEnd
    <3>2. Moves(R, run', MovedNow)
      BY <3>1, <2>2, MovesTwice
    <3> QED BY <3>2, MovesTwice
  <2>5. run'.phase = "Failed" /\ \A n \in Nodes : run'.row[n].st # "Committed"
    <3>1. run'.phase = "Failed" /\ run'.row = R1.row
      BY <2>1, <2>3 DEF Tables
    <3> QED BY <3>1, <1>7, <2>2 DEF Moves
  <2>6. Table(run', G2, MovedNow)
    <3>1. Table(run', granted, MovedNow)
      BY <2>4, Facts, MovesKeep
    <3> QED BY <3>1, <2>5 DEF Table
  <2> HIDE DEF G2
  <2>7. (Table(run, granted, MovedNow) /\ Carries(wire, granted, stage, MovedNow))'
    BY <1>1, <1>5, <1>6, <1>9, <2>6 DEF G2
  <2>8. Staged'
    BY <1>1, <2>5 DEF Staged
  <2>9. Hosted'
    BY <1>1, <1>4, <1>9, Facts, HostedStays DEF host
  <2>10. Abs!Last
    <3>1. In(run', {"Committed"}) = {}
      BY <2>5 DEF In
    <3>2. In(run', {"Done"}) \subseteq In(run, {"Done"}) \cup
            {n \in In(run, {"Committed"}) \ {} : build[n] = "new" \/ n \in Flaky \/ stage = "aborted"}
      BY <2>4, <3>1, HeardMoves
    <3> QED BY <1>1, <1>3, <1>4, <3>1, <3>2 DEF Abs!Last, Abs!Heard
  <2> QED BY <2>7, <2>8, <2>9, <2>10 DEF UpInv, Abs!ANext
<1> QED BY <1>8, <1>9 DEF commit_self

(* A tick while rolling.                                                   *)
LEMMA RollingStep ==
    ASSUME UpInv, NEW exp \in SUBSET In(run, {"Committed"}), tick_rolling(exp)
    PROVE  UpInv' /\ Abs!ANext
<1> DEFINE R == ops_grace(run, exp)
           stalled == {i \in DOMAIN R.order : R.order[i] \in exp /\ R.row[R.order[i]].st = "Committed"}
<1>1. run.phase = "Rolling" /\ Active
  BY DEF tick_rolling, Active
<1>2. Moves(run, R, MovedNow) /\ R.phase = "Rolling"
  BY <1>1, Facts, GraceMoves
<1>3. Table(R, granted, MovedNow) /\ R.order \in Seq(Nodes)
  <2>1. Table(R, granted, MovedNow)
    BY <1>2, Facts, MovesKeep
  <2> HIDE DEF R
  <2> QED BY <2>1 DEF Table, Tables
<1> DEFINE n0 == R.order[CHOOSE i \in stalled : \A j \in stalled : i <= j]
<1>4. \/ /\ stalled # {} /\ (\E n \in {n0} : abort([R EXCEPT !.row[n].st = "Failed"], wire))
         /\ UNCHANGED <<follow, seen, host, up, granted>>
      \/ abort(R, wire) /\ UNCHANGED <<follow, seen, host, up, granted>>
      \/ /\ In(R, {"Ready"}) \cap Bots # {} \/ (settled(R) /\ In(R, {"Ready"}) \cap PeerHubs # {})
         /\ commit_next(R)
      \/ settled(R) /\ finish(R, "Done") /\ UNCHANGED <<follow, seen, host, up, wire, granted>>
      \/ settled(R) /\ In(R, {"Ready"}) = {Driver} /\ commit_self(R)
      \/ run' = R /\ UNCHANGED <<frozen, plan, follow, seen, host, up, wire, hist>>
  <2>1. roll(R, exp)
    BY DEF tick_rolling
  <2> HIDE DEF R
  <2> QED BY <2>1, Zenon DEF roll
<1> HIDE DEF R
<1>5. CASE /\ stalled # {} /\ (\E n \in {n0} : abort([R EXCEPT !.row[n].st = "Failed"], wire))
           /\ UNCHANGED <<follow, seen, host, up, granted>>
  <2> DEFINE i == CHOOSE i \in stalled : \A j \in stalled : i <= j
  <2>1. i \in stalled
    <3>1. stalled \subseteq Nat
      BY <1>3
    <3>2. \E k \in stalled : \A j \in stalled : k <= j
      <4> DEFINE S == stalled
      <4>1. S \in SUBSET Nat /\ S # {}
        BY <3>1, <1>5
      <4> HIDE DEF S, stalled
      <4>2. \E k \in S : \A j \in S : k <= j
        <5>1. PICK k \in S : \A j \in S : <<j, k>> \notin OpToRel(<, Nat)
          BY <4>1, NatLessThanWellFounded, WFMin
        <5>2. \A j \in S : ~(j < k)
          BY <4>1, <5>1 DEF OpToRel
        <5>3. \A j \in S : k <= j
          BY <4>1, <5>2
        <5> QED BY <5>3
      <4> QED BY <4>2 DEF S
    <3> HIDE DEF stalled
    <3> QED BY <3>2
  <2>2. R.order[i] \in Nodes /\ R.row[R.order[i]].st = "Committed"
    <3> HIDE DEF i
    <3> QED BY <1>3, <2>1
  <2> DEFINE n == R.order[i]
             R1 == [R EXCEPT !.row[n].st = "Failed"]
  <2>3. abort(R1, wire) /\ UNCHANGED <<host, up, granted>>
    BY <1>5
  <2> HIDE DEF n, i, stalled
  <2>4. n \in Nodes /\ R.row[n].st # "none"
    BY <2>2 DEF n
  <2>5. Moves(R, R1, MovedNow)
    BY <1>3, <2>4, MovesState
  <2> HIDE DEF R1
  <2>6. Moves(run, R1, MovedNow)
    BY <1>2, <2>5, MovesTwice
  <2> QED BY <1>1, <2>3, <2>6, AbortRun
<1> HIDE DEF stalled, n0
<1>6. CASE abort(R, wire) /\ UNCHANGED <<follow, seen, host, up, granted>>
  BY <1>1, <1>2, <1>6, AbortRun
<1>7. CASE /\ In(R, {"Ready"}) \cap Bots # {} \/ (settled(R) /\ In(R, {"Ready"}) \cap PeerHubs # {})
           /\ commit_next(R)
  BY <1>1, <1>2, <1>7, NextStep
<1>8. CASE settled(R) /\ finish(R, "Done") /\ UNCHANGED <<follow, seen, host, up, wire, granted>>
  <2>1. In(R, {"Committed"}) = {}
    BY <1>8 DEF settled
  <2> QED BY <1>1, <1>2, <1>8, <2>1, FinishRun
<1>9. CASE settled(R) /\ In(R, {"Ready"}) = {Driver} /\ commit_self(R)
  BY <1>1, <1>2, <1>9, LastStep
<1>10. CASE run' = R /\ UNCHANGED <<frozen, plan, follow, seen, host, up, wire, hist>>
  <2>1. UNCHANGED <<stage, granted, build, proc, prev, up, wire>> /\ run'.phase = run.phase
    BY <1>1, <1>2, <1>10 DEF host, hist
  <2>2. Hosted'
    BY <2>1, Facts, HostedSame
  <2> QED BY <1>2, <1>10, <2>1, <2>2, Facts, KeepStep
<1> QED BY <1>4, <1>5, <1>6, <1>7, <1>8, <1>9, <1>10

-----------------------------------------------------------------------------
(* The run implements UpgradeAbs.                                          *)

(* Where a run starts.                                                     *)
LEMMA InitUp ==
    ASSUME Init
    PROVE  UpInv /\ Abs!AInit
<1>1. run = NoRun /\ stage = "idle" /\ granted = {} /\ build = [n \in Nodes |-> "old"]
  BY DEF Init
<1>2. Table(run, granted, MovedNow)
  BY <1>1, NoRunIs
<1>3. Staged
  BY <1>1, NoRunIs DEF Staged
<1>4. Hosted
  <2>1. build \in [Nodes -> {"older", "old", "new"}] /\ \A n \in Nodes : build[n] = "old"
    BY <1>1
  <2>2. prev \in [Hubs -> {"none", "older", "old", "new"}]
        /\ \A h \in Hubs : prev[h] = IF h \in Retained THEN "older" ELSE "none"
    BY DEF Init
  <2>3. proc \in [Nodes -> {"up", "install", "restore"}] /\ \A n \in Nodes : proc[n] = "up"
    BY DEF Init
  <2>4. up \subseteq Edges /\ Hubs \subseteq Nodes
    BY DEF Init, Nodes
  <2>5. \A h \in Hubs : Kept(h, build[h], prev[h], proc[h], stage)
    BY <2>1, <2>2, <2>3, <2>4 DEF Kept
  <2>6. \A b \in Bots : build[b] # "older"
    BY <2>1 DEF Nodes
  <2> QED BY <2>1, <2>2, <2>3, <2>4, <2>5, <2>6 DEF Hosted
<1>5. Carries(wire, granted, stage, MovedNow)
  <2>1. wire = [c \in Chans |-> <<>>]
    BY DEF Init
  <2>2. \A c \in Chans : <<>> \in Seq(Truths(c, granted, stage, MovedNow))
    OBVIOUS
  <2> QED BY <2>1, <2>2 DEF Carries
<1>6. Abs!AInit
  <2>1. In(run, {"Committed"}) = {} /\ In(run, {"Done"}) = {}
    BY <1>1, NoRunIs
  <2> QED BY <1>1, <2>1 DEF Abs!AInit, Abs!Nodes, Nodes
<1> QED BY <1>2, <1>3, <1>4, <1>5, <1>6 DEF UpInv

(* One step per action.                                                    *)
LEMMA NextUp ==
    ASSUME UpInv, Next
    PROVE  UpInv' /\ Abs!ANext
<1>1. CASE \E s \in Selections : start(s)
  BY <1>1, StartStep
<1>2. CASE \E exp \in BOOLEAN : tick_prepare(exp)
  BY <1>2, PreparedStep
<1>3. CASE \E exp \in SUBSET In(run, {"Committed"}) : tick_rolling(exp)
  BY <1>3, RollingStep
<1>4. CASE AdminAbort
  BY <1>4, AdminAbortStep
<1>5. CASE \E h \in Hubs : (\E a \in Nodes : HubFrame(a, h)) \/ Gossip(h) \/ Crash(h) \/ PrepareExpires(h)
  BY <1>5, HubStep, GossipStep, CrashStep, ExpiresStep
<1>6. CASE \E b \in Bots : BotFrame(b)
  BY <1>6, BotStep
<1>7. CASE \E n \in Nodes : Return(n) \/ FallBack(n)
  BY <1>7, ReturnStep, FallBackStep
<1>8. CASE \E e \in Edges : LinkUp(e) \/ LinkLost(e)
  BY <1>8, LinkUpStep, LinkLostStep
<1> QED BY <1>1, <1>2, <1>3, <1>4, <1>5, <1>6, <1>7, <1>8 DEF Next

(* And none.                                                               *)
LEMMA StillUp ==
    ASSUME UpInv, UNCHANGED vars
    PROVE  UpInv' /\ UNCHANGED Abs!avars
  BY DEF UpInv, Table, Staged, Hosted, Carries, Truths, MovedNow, vars, Abs!avars, In

(* What the frames, tables, routes, markers and restarts of upgrade.rs and *)
(* update.rs do together is the run UpgradeAbs describes, for every mesh,  *)
(* placement of bots, selection, wave size and bound on faults: no node    *)
(* changes its build ungranted or is counted as moved when it is not, bots *)
(* go in bounded waves, hubs restart alone, and only an aborted run takes  *)
(* a sound build back: of the nodes it granted, to the build they had, or, *)
(* where a hub still holds the .prev of an earlier upgrade, to that one.   *)
THEOREM UpgradeRefines == Spec => Refines
<1>1. Init => UpInv /\ Abs!AInit
  BY InitUp
<1>2. UpInv /\ [Next]_vars => UpInv' /\ [Abs!ANext]_(Abs!avars)
  BY NextUp, StillUp
<1> QED BY <1>1, <1>2, PTL DEF Spec, Refines, Abs!ASpec
=============================================================================
