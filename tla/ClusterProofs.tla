---------------------------- MODULE ClusterProofs ----------------------------
(***************************************************************************)
(* Proofs about Cluster, for any number of nodes, samples, senders under   *)
(* way, retries and crashes.                                               *)
(***************************************************************************)
EXTENDS Cluster, FiniteSetTheorems, TLAPS

\* The copy of a sample on every node: it was put into a cache once at most,
\* only its home has it in short, and no other node has heard of it before it
\* left short there.
CopyInv(n, s) ==
    /\ got[n][s] \in {0, 1}
    /\ stage[n][s] = "none" => got[n][s] = 0
    /\ stage[n][s] = "short" => n = Home[s]
    /\ n # Home[s] /\ stage[Home[s]][s] \in {"none", "short"} => stage[n][s] = "none"

StageInv == \A s \in Sample, n \in Node : CopyInv(n, s)

\* A connection and its sender.
LinkInv ==
    \A c \in Client :
        /\ conn[c] \in {"open", "broken"} => inner[c] = "action"
        /\ conn[c] = "flushed" => inner[c] = "idle"
        /\ inner[c] \in {"idle", "action", "delay"}
        /\ Free(c) => msg[c] = {}

\* A snapshot under way is of its sender's node, the receiver has nothing of
\* it, and no other sender to the same node has a part of it.
MsgInv ==
    \A c \in Client : \A s \in msg[c] :
        /\ Home[s] = c.from
        /\ stage[c.from][s] \notin {"none", "short"}
        /\ stage[c.to][s] = "none"
        /\ \A d \in Client : d.to = c.to /\ s \in msg[d] => d = c

\* What a node does not have although its home has shared it is under way.
ArrivedInv ==
    \A s \in Sample : \A m \in Node \ {Home[s]} :
        stage[Home[s]][s] \notin {"none", "short"} /\ stage[m][s] = "none" =>
            \E c \in Client : c.to = m /\ s \in msg[c]

\* The retrying futures: a place that is free has all its retries.
RetryInv ==
    /\ RetryTypeOK /\ TriesInv
    /\ \A c \in Client : inner[c] = "idle" => retries[c] = Retries

CInv == TypeOK /\ RetryInv /\ StageInv /\ LinkInv /\ MsgInv /\ ArrivedInv

\* The failed tries of the senders of n that have not given up yet: one for
\* every retry used.
Owed(n) == {p \in Client \X (1 .. Retries) : p[1].from = n /\ retries[p[1]] < p[2]}

\* While its worker lives, the counter and the metrics of n show all tries of
\* the senders that gave up and, besides, every failed try of the others.
OwedInv ==
    interval > 0 =>
        \A n \in Node : worker[n] = "runs" =>
            /\ IsFiniteSet(Owed(n))
            /\ errors[n] + sending[n] + reported[n] >= (Retries + 1) * givenUp[n] + Cardinality(Owed(n))

-----------------------------------------------------------------------------
(* The operators of Cluster. *)

LEMMA PutAt ==
    ASSUME stage \in [Node -> [Sample -> Stage]], NEW n \in Node, NEW S, NEW x \in Stage
    PROVE  /\ Put(n, S, x) \in [Node -> [Sample -> Stage]]
           /\ \A m \in Node, s \in Sample :
                  Put(n, S, x)[m][s] = IF m = n /\ s \in S THEN x ELSE stage[m][s]
BY Zenon DEF Put

LEMMA CountAt ==
    ASSUME got \in [Node -> [Sample -> 0 .. 2]], NEW n \in Node, NEW S, NEW m \in Node, NEW s \in Sample
    PROVE  Count(n, S)[m][s] = IF m = n /\ s \in S THEN got[m][s] + 1 ELSE got[m][s]
BY Zenon DEF Count

LEMMA CountType ==
    ASSUME got \in [Node -> [Sample -> 0 .. 2]], NEW n \in Node, NEW S,
           \A s \in S : got[n][s] \in {0, 1}
    PROVE  Count(n, S) \in [Node -> [Sample -> 0 .. 2]]
BY DEF Count

LEMMA NextDelayType == NextDelay \in 0 .. DelayMax
<1>1. Delay * Mul \in Nat
  BY RetryAssumption
<1> QED
  BY <1>1, RetryAssumption DEF NextDelay

\* The senders a snapshot of n is given to: one for every peer, all free.
LEMMA Slots ==
    ASSUME NEW n \in Node,
           \A m \in Node \ {n} : \E c \in Client : c.from = n /\ c.to = m /\ Free(c)
    PROVE  LET S == {Slot(n, m) : m \in Node \ {n}}
           IN  /\ \A c \in S : c \in Client /\ c.from = n /\ Free(c)
               /\ \A m \in Node \ {n} : \E c \in S : c.to = m
               /\ \A c, d \in S : c.to = d.to => c = d
<1>1. ASSUME NEW m \in Node \ {n}
      PROVE  Slot(n, m) \in Client /\ Slot(n, m).from = n /\ Slot(n, m).to = m /\ Free(Slot(n, m))
  BY Zenon DEF Slot
<1> QED
  BY <1>1

-----------------------------------------------------------------------------
(* The retrying futures. *)

LEMMA SpawnStep == ASSUME RetryInv, NEW S \in SUBSET Client, Spawn(S) PROVE RetryInv'
BY RetryAssumption DEF RetryInv, RetryTypeOK, TriesInv, Spawn

LEMMA FailStep == ASSUME RetryInv, NEW c \in Client, Fail(c) PROVE RetryInv'
BY RetryAssumption, NextDelayType DEF RetryInv, RetryTypeOK, TriesInv, Fail

LEMMA ElapseStep == ASSUME RetryInv, NEW c \in Client, Elapse(c) PROVE RetryInv'
BY RetryAssumption DEF RetryInv, RetryTypeOK, TriesInv, Elapse

LEMMA DropStep == ASSUME RetryInv, NEW c \in Client, Drop(c) PROVE RetryInv'
BY RetryAssumption DEF RetryInv, RetryTypeOK, TriesInv, Drop

-----------------------------------------------------------------------------
(* The steps. *)

LEMMA InitInv == Init => CInv
<1> SUFFICES ASSUME Init PROVE CInv
  BY Zenon
<1> USE DEF Init, RetryInit
<1>1. RetryInv
  BY RetryAssumption DEF RetryInv, RetryTypeOK, TriesInv
<1>2. TypeOK
  BY <1>1, ClusterAssumption DEF TypeOK, RetryInv, Stage, Zero, Free
<1>3. StageInv /\ MsgInv /\ ArrivedInv
  BY Zenon, ClusterAssumption DEF StageInv, CopyInv, MsgInv, ArrivedInv
<1>4. LinkInv
  BY Zenon DEF LinkInv, Free
<1> QED
  BY Zenon, <1>1, <1>2, <1>3, <1>4 DEF CInv

LEMMA Types ==
    ASSUME TypeOK
    PROVE  /\ stage \in [Node -> [Sample -> Stage]] /\ got \in [Node -> [Sample -> 0 .. 2]]
           /\ msg \in [Client -> SUBSET Sample]
           /\ \A c \in Client : c.from \in Node /\ c.to \in Node /\ c.from # c.to
           /\ \A s \in Sample : Home[s] \in Node
BY Zenon, ClusterAssumption DEF TypeOK

\* A step that leaves copies and snapshots alone.
LEMMA SameStep ==
    ASSUME CInv, UNCHANGED <<stage, got, msg>>
    PROVE  StageInv' /\ MsgInv' /\ ArrivedInv'
BY Zenon DEF CInv, StageInv, CopyInv, MsgInv, ArrivedInv

\* A snapshot that is under way arrives, or will never arrive.
LEMMA GoneStep ==
    ASSUME CInv, NEW c \in Client, NEW x \in {"missed", "long"},
           stage' = Put(c.to, msg[c], x),
           msg' = [msg EXCEPT ![c] = {}],
           got' = got \/ got' = Count(c.to, msg[c])
    PROVE  /\ StageInv' /\ MsgInv' /\ ArrivedInv'
           /\ stage' \in [Node -> [Sample -> Stage]] /\ got' \in [Node -> [Sample -> 0 .. 2]]
           /\ msg' \in [Client -> SUBSET Sample]
<1> USE DEF CInv
<1>1. /\ stage' \in [Node -> [Sample -> Stage]]
      /\ \A m \in Node, s \in Sample :
            stage'[m][s] = IF m = c.to /\ s \in msg[c] THEN x ELSE stage[m][s]
  <2>1. stage \in [Node -> [Sample -> Stage]] /\ c.to \in Node /\ x \in Stage
    BY Zenon, Types DEF Stage
  <2> QED
    BY <2>1, PutAt
<1>2. \A s \in msg[c] : s \in Sample /\ Home[s] = c.from /\ got[c.to][s] = 0 /\ stage[c.to][s] = "none"
  BY ZenonT(30), Types DEF MsgInv, StageInv, CopyInv
<1>3. got' \in [Node -> [Sample -> 0 .. 2]]
  BY <1>2, Types, CountType
<1>4. \A m \in Node, s \in Sample :
          \/ got'[m][s] = got[m][s]
          \/ m = c.to /\ s \in msg[c] /\ got'[m][s] = 1
  BY <1>2, Types, CountAt
<1>5. msg' \in [Client -> SUBSET Sample] /\ \A d \in Client : msg'[d] = IF d = c THEN {} ELSE msg[d]
  BY Zenon, Types
<1>6. StageInv'
  <2> SUFFICES ASSUME NEW s \in Sample, NEW n \in Node PROVE CopyInv(n, s)'
    BY Zenon DEF StageInv
  <2>1. CopyInv(n, s) /\ CopyInv(Home[s], s) /\ Home[s] \in Node
    BY Zenon, Types DEF StageInv
  <2>2. CASE s \in msg[c]
    <3>1. Home[s] = c.from /\ c.from # c.to /\ stage[c.from][s] \notin {"none", "short"}
      BY Zenon, <2>2, Types DEF MsgInv
    <3>2. stage'[Home[s]][s] \notin {"none", "short"}
      BY Zenon, <1>1, <2>1, <3>1
    <3>3. got'[n][s] \in {0, 1}
      BY Zenon, <1>4, <2>1 DEF CopyInv
    <3>4. CASE n = c.to
      <4>1. stage'[n][s] \notin {"none", "short"}
        BY Zenon, <1>1, <2>2, <3>4
      <4> QED
        BY Zenon, <3>2, <3>3, <4>1 DEF CopyInv
    <3>5. CASE n # c.to
      <4>1. stage'[n][s] = stage[n][s] /\ got'[n][s] = got[n][s]
        BY Zenon, <1>1, <1>4, <3>5
      <4> QED
        BY Zenon, <2>1, <3>2, <4>1 DEF CopyInv
    <3> QED
      BY Zenon, <3>4, <3>5
  <2>3. CASE s \notin msg[c]
    BY ZenonT(30), <2>1, <2>3, <1>1, <1>4 DEF CopyInv
  <2> QED
    BY Zenon, <2>2, <2>3
<1>7. MsgInv'
  <2> SUFFICES ASSUME NEW d \in Client, NEW s \in msg'[d]
               PROVE  /\ Home[s] = d.from
                      /\ stage'[d.from][s] \notin {"none", "short"} /\ stage'[d.to][s] = "none"
                      /\ \A e \in Client : e.to = d.to /\ s \in msg'[e] => e = d
    BY Zenon DEF MsgInv
  <2>1. d # c /\ s \in msg[d] /\ s \in Sample /\ d.from \in Node /\ d.to \in Node
    BY Zenon, <1>5, Types
  <2>2. /\ Home[s] = d.from /\ stage[d.from][s] \notin {"none", "short"} /\ stage[d.to][s] = "none"
        /\ \A e \in Client : e.to = d.to /\ s \in msg[e] => e = d
    BY Zenon, <2>1 DEF MsgInv
  <2>3. stage'[d.from][s] \notin {"none", "short"} /\ stage'[d.to][s] = "none"
    BY Zenon, <1>1, <2>1, <2>2
  <2>4. \A e \in Client : s \in msg'[e] => s \in msg[e]
    BY Zenon, <1>5
  <2> QED
    BY Zenon, <2>2, <2>3, <2>4
<1>8. ArrivedInv'
  <2> SUFFICES ASSUME NEW s \in Sample, NEW m \in Node \ {Home[s]},
                      stage'[Home[s]][s] \notin {"none", "short"}, stage'[m][s] = "none"
               PROVE  \E d \in Client : d.to = m /\ s \in msg'[d]
    BY Zenon DEF ArrivedInv
  <2>1. stage[m][s] = "none" /\ ~(m = c.to /\ s \in msg[c])
    BY Zenon, <1>1
  <2>2. stage[Home[s]][s] \notin {"none", "short"}
    <3>1. ~(Home[s] = c.to /\ s \in msg[c]) /\ Home[s] \in Node
      BY Zenon, <1>2, Types
    <3> QED
      BY Zenon, <1>1, <3>1
  <2>3. PICK d \in Client : d.to = m /\ s \in msg[d]
    BY Zenon, <2>1, <2>2 DEF ArrivedInv
  <2> QED
    BY Zenon, <2>1, <2>3, <1>5
<1> QED
  BY Zenon, <1>1, <1>3, <1>5, <1>6, <1>7, <1>8

LEMMA ReceiveStep == ASSUME CInv, NEW s \in Sample, Receive(s), worker[Home[s]] = "runs" PROVE CInv'
<1> DEFINE h == Home[s]
<1> USE DEF CInv
<1>h. h \in Node
  BY Zenon, ClusterAssumption
<1>t. stage \in [Node -> [Sample -> Stage]] /\ got \in [Node -> [Sample -> 0 .. 2]]
  BY Zenon DEF TypeOK
<1>1. /\ stage[h][s] = "none" /\ got[h][s] = 0
      /\ stage' \in [Node -> [Sample -> Stage]]
      /\ \A m \in Node, x \in Sample :
            stage'[m][x] = IF m = h /\ x \in {s} THEN "short" ELSE stage[m][x]
      /\ UNCHANGED <<retryVars, leader, worker, linkVars, statVars, crashes>>
  <2>1. /\ stage[h][s] = "none" /\ stage' = Put(h, {s}, "short")
        /\ UNCHANGED <<retryVars, leader, worker, linkVars, statVars, crashes>>
    BY Zenon DEF Receive
  <2>2. got[h][s] = 0
    BY Zenon, <1>h, <2>1 DEF StageInv, CopyInv
  <2>3. "short" \in Stage
    BY Zenon DEF Stage
  <2>4. /\ Put(h, {s}, "short") \in [Node -> [Sample -> Stage]]
        /\ \A m \in Node, x \in Sample :
              Put(h, {s}, "short")[m][x] = IF m = h /\ x \in {s} THEN "short" ELSE stage[m][x]
    <3> HIDE DEF h
    <3> QED
      BY <1>h, <1>t, <2>3, PutAt
  <2> QED
    BY Zenon, <2>1, <2>2, <2>4
<1>2. got' \in [Node -> [Sample -> 0 .. 2]]
  <2>1. got' = Count(h, {s}) /\ \A x \in {s} : got[h][x] \in {0, 1}
    BY Zenon, <1>1 DEF Receive
  <2> HIDE DEF h
  <2> QED
    BY <1>h, <1>t, <2>1, CountType
<1>3. \A m \in Node, x \in Sample :
          got'[m][x] = IF m = h /\ x \in {s} THEN got[m][x] + 1 ELSE got[m][x]
  BY <1>h, <1>t, CountAt DEF Receive
<1>4. RetryInv'
  BY Zenon, <1>1 DEF RetryInv, RetryTypeOK, TriesInv, retryVars
<1>5. TypeOK'
  BY Zenon, <1>1, <1>2, <1>4 DEF TypeOK, RetryInv, retryVars, linkVars, statVars, Free
<1>6. StageInv'
  <2> SUFFICES ASSUME NEW x \in Sample, NEW n \in Node PROVE CopyInv(n, x)'
    BY Zenon DEF StageInv
  <2>1. CASE x = s
    BY <2>1, <1>1, <1>3, <1>h DEF StageInv, CopyInv
  <2>2. CASE x # s
    BY SMTT(30), <2>2, <1>1, <1>3, ClusterAssumption DEF StageInv, CopyInv
  <2> QED
    BY Zenon, <2>1, <2>2
<1>7. LinkInv'
  BY Zenon, <1>1 DEF LinkInv, Free, retryVars, linkVars
<1>8. MsgInv'
  <2>1. msg' = msg
    BY Zenon, <1>1 DEF linkVars
  <2>2. \A c \in Client : msg[c] \subseteq Sample /\ c.from \in Node /\ c.to \in Node
    BY Zenon, ClusterAssumption DEF TypeOK
  <2>3. \A c \in Client : s \notin msg[c]
    BY <1>1 DEF MsgInv
  <2> QED
    BY <1>1, <2>1, <2>2, <2>3 DEF MsgInv
<1>9. ArrivedInv'
  BY <1>1, <1>h, ClusterAssumption DEF ArrivedInv, linkVars
<1> QED
  BY <1>4, <1>5, <1>6, <1>7, <1>8, <1>9

\* A reading that comes in and finds no worker.
LEMMA DroppedStep == ASSUME CInv, NEW s \in Sample, Receive(s), worker[Home[s]] # "runs" PROVE CInv'
<1> USE DEF CInv
<1>h. \A x \in Sample : Home[x] \in Node
  BY Zenon, Types
<1>1. /\ stage[Home[s]][s] = "none" /\ got' = got
      /\ stage' = [m \in Node |-> [stage[m] EXCEPT ![s] = "missed"]]
      /\ UNCHANGED <<retryVars, leader, worker, linkVars, statVars, crashes>>
  BY Zenon DEF Receive
<1>2. /\ stage' \in [Node -> [Sample -> Stage]]
      /\ \A m \in Node, x \in Sample : stage'[m][x] = IF x = s THEN "missed" ELSE stage[m][x]
  <2>1. stage \in [Node -> [Sample -> Stage]] /\ "missed" \in Stage
    BY Zenon, Types DEF Stage
  <2> QED
    BY Zenon, <1>1, <2>1
<1>3. msg' = msg /\ \A c \in Client : s \notin msg[c]
  <2>1. msg' = msg
    BY Zenon, <1>1 DEF linkVars
  <2>2. ASSUME NEW c \in Client, s \in msg[c] PROVE FALSE
    <3>1. Home[s] = c.from /\ stage[c.from][s] \notin {"none", "short"}
      BY Zenon, <2>2 DEF MsgInv
    <3> QED
      BY Zenon, <1>1, <3>1
  <2> QED
    BY Zenon, <2>1, <2>2
<1>4. RetryInv'
  BY Zenon, <1>1 DEF RetryInv, RetryTypeOK, TriesInv, retryVars
<1>5. LinkInv'
  BY Zenon, <1>1 DEF LinkInv, Free, retryVars, linkVars
<1>6. TypeOK'
  BY Zenon, <1>1, <1>2, <1>4, <1>5 DEF TypeOK, RetryInv, LinkInv, linkVars, statVars
<1>7. StageInv'
  <2> SUFFICES ASSUME NEW x \in Sample, NEW m \in Node PROVE CopyInv(m, x)'
    BY Zenon DEF StageInv
  <2>1. CopyInv(m, x) /\ Home[x] \in Node
    BY Zenon, <1>h DEF StageInv
  <2>2. CASE x = s
    BY Zenon, <1>1, <1>2, <2>1, <2>2 DEF CopyInv
  <2>3. CASE x # s
    BY Zenon, <1>1, <1>2, <2>1, <2>3 DEF CopyInv
  <2> QED
    BY Zenon, <2>2, <2>3
<1>8. MsgInv'
  <2>1. \A c \in Client : msg[c] \subseteq Sample /\ c.from \in Node /\ c.to \in Node
    BY Zenon, Types
  <2> QED
    BY <1>2, <1>3, <2>1 DEF MsgInv
<1>9. ArrivedInv'
  BY <1>2, <1>3, <1>h DEF ArrivedInv
<1> QED
  BY Zenon, <1>4, <1>5, <1>6, <1>7, <1>8, <1>9

LEMMA RotateStep == ASSUME CInv, NEW n \in Node, Rotate(n) PROVE CInv'
<1> USE DEF CInv
<1>x. PICK x \in {"sent", "discarded"} : stage' = Put(n, At(n, {"long"}), x)
  BY Zenon DEF Rotate
<1>1. /\ stage' \in [Node -> [Sample -> Stage]]
      /\ \A m \in Node, s \in Sample :
            stage'[m][s] = IF m = n /\ stage[m][s] = "long" THEN x ELSE stage[m][s]
      /\ UNCHANGED <<retryVars, got, leader, worker, linkVars, statVars, crashes>>
  <2>1. stage \in [Node -> [Sample -> Stage]] /\ x \in Stage
    BY Zenon, <1>x, Types DEF Stage
  <2>2. /\ stage' \in [Node -> [Sample -> Stage]]
        /\ \A m \in Node, s \in Sample :
              stage'[m][s] = IF m = n /\ s \in At(n, {"long"}) THEN x ELSE stage[m][s]
    BY <1>x, <2>1, PutAt
  <2>3. \A s \in Sample : s \in At(n, {"long"}) <=> stage[n][s] = "long"
    BY Zenon DEF At
  <2>4. UNCHANGED <<retryVars, got, leader, worker, linkVars, statVars, crashes>>
    BY Zenon DEF Rotate
  <2> QED
    BY Zenon, <2>2, <2>3, <2>4
<1>2. RetryInv'
  BY Zenon, <1>1 DEF RetryInv, RetryTypeOK, TriesInv, retryVars
<1>3. TypeOK'
  BY Zenon, <1>1, <1>2 DEF TypeOK, RetryInv, retryVars, linkVars, statVars, Free
<1>4. StageInv'
  <2> SUFFICES ASSUME NEW s \in Sample, NEW m \in Node PROVE CopyInv(m, s)'
    BY Zenon DEF StageInv
  <2>1. CopyInv(m, s) /\ Home[s] \in Node
    BY Zenon, Types DEF StageInv
  <2> QED
    BY Zenon, <2>1, <1>1 DEF CopyInv
<1>5. LinkInv'
  BY Zenon, <1>1 DEF LinkInv, Free, retryVars, linkVars
<1>6. MsgInv'
  <2>1. msg' = msg /\ \A c \in Client : msg[c] \subseteq Sample /\ c.from \in Node /\ c.to \in Node
    BY Zenon, <1>1, Types DEF linkVars
  <2> QED
    BY <2>1, <1>1 DEF MsgInv
<1>7. ArrivedInv'
  <2>1. msg' = msg /\ \A s \in Sample : Home[s] \in Node
    BY Zenon, <1>1, Types DEF linkVars
  <2> QED
    BY <2>1, <1>1 DEF ArrivedInv
<1> QED
  BY <1>2, <1>3, <1>4, <1>5, <1>6, <1>7

LEMMA SetLeaderStep == ASSUME CInv, NEW n \in Node, SetLeader(n) PROVE CInv'
<1> USE DEF CInv, SetLeader
<1>1. RetryInv'
  BY Zenon DEF RetryInv, RetryTypeOK, TriesInv, retryVars
<1>2. TypeOK'
  BY Zenon, <1>1 DEF TypeOK, RetryInv, retryVars, linkVars, statVars, Free
<1>3. LinkInv'
  BY Zenon DEF LinkInv, Free, retryVars, linkVars
<1>4. StageInv' /\ MsgInv' /\ ArrivedInv'
  BY Zenon, SameStep DEF linkVars
<1> QED
  BY Zenon, <1>1, <1>2, <1>3, <1>4

LEMMA GetStatsStep == ASSUME CInv, NEW n \in Node, GetStats(n) PROVE CInv'
<1> USE DEF CInv, GetStats
<1>1. RetryInv'
  BY Zenon DEF RetryInv, RetryTypeOK, TriesInv, retryVars
<1>2. {errors, sending, reported, givenUp}' \subseteq [Node -> Nat]
  BY DEF TypeOK
<1>3. TypeOK'
  BY Zenon, <1>1, <1>2 DEF TypeOK, RetryInv, retryVars, nodeVars, linkVars, Free
<1>4. LinkInv'
  BY Zenon DEF LinkInv, Free, retryVars, linkVars
<1>5. StageInv' /\ MsgInv' /\ ArrivedInv'
  BY Zenon, SameStep DEF linkVars, nodeVars
<1> QED
  BY Zenon, <1>1, <1>3, <1>4, <1>5

LEMMA SendStatsStep == ASSUME CInv, NEW n \in Node, SendStats(n) PROVE CInv'
<1> USE DEF CInv, SendStats
<1>1. RetryInv'
  BY Zenon DEF RetryInv, RetryTypeOK, TriesInv, retryVars
<1>2. {errors, sending, reported, givenUp}' \subseteq [Node -> Nat]
  BY DEF TypeOK
<1>3. TypeOK'
  BY Zenon, <1>1, <1>2 DEF TypeOK, RetryInv, retryVars, nodeVars, linkVars, Free
<1>4. LinkInv'
  BY Zenon DEF LinkInv, Free, retryVars, linkVars
<1>5. StageInv' /\ MsgInv' /\ ArrivedInv'
  BY Zenon, SameStep DEF linkVars, nodeVars
<1> QED
  BY Zenon, <1>1, <1>3, <1>4, <1>5

LEMMA SnapFailsStep == ASSUME CInv, NEW n \in Node, SnapFails(n) PROVE CInv'
<1> USE DEF CInv, SnapFails
<1>1. RetryInv'
  BY Zenon DEF RetryInv, RetryTypeOK, TriesInv, retryVars
<1>2. {errors, sending, reported, givenUp}' \subseteq [Node -> Nat]
  <2>1. errors \in [Node -> Nat] /\ {sending, reported, givenUp}' \subseteq [Node -> Nat]
    BY Zenon DEF TypeOK
  <2>2. errors' \in [Node -> Nat]
    BY ONLY <2>1, errors' = [errors EXCEPT ![n] = @ + 2]
  <2> QED
    BY Zenon, <2>1, <2>2
<1>3. worker' \in [Node -> {"runs", "dead", "ended"}]
  BY Zenon DEF TypeOK
<1>4. TypeOK'
  BY Zenon, <1>1, <1>2, <1>3 DEF TypeOK, RetryInv, retryVars, linkVars, Free
<1>5. LinkInv'
  BY Zenon DEF LinkInv, Free, retryVars, linkVars
<1>6. StageInv' /\ MsgInv' /\ ArrivedInv'
  BY Zenon, SameStep DEF linkVars
<1> QED
  BY Zenon, <1>1, <1>4, <1>5, <1>6

LEMMA ConnectStep == ASSUME CInv, NEW c \in Client, Connect(c) PROVE CInv'
<1> USE DEF CInv, Connect
<1>1. RetryInv'
  BY Zenon DEF RetryInv, RetryTypeOK, TriesInv, retryVars
<1>2. LinkInv'
  BY Zenon DEF LinkInv, Free, retryVars, TypeOK
<1>3. conn' \in [Client -> {"none", "open", "broken", "flushed"}]
  BY Zenon DEF TypeOK
<1>4. TypeOK'
  BY Zenon, <1>1, <1>2, <1>3 DEF TypeOK, RetryInv, LinkInv, nodeVars, statVars
<1>5. StageInv' /\ MsgInv' /\ ArrivedInv'
  BY Zenon, SameStep DEF nodeVars
<1> QED
  BY Zenon, <1>1, <1>2, <1>4, <1>5

LEMMA RetryStep == ASSUME CInv, NEW c \in Client, Retry(c) PROVE CInv'
<1> USE DEF CInv, Retry
<1>1. RetryInv'
  BY Zenon, ElapseStep
<1>2. LinkInv'
  BY Zenon DEF LinkInv, Free, linkVars, TypeOK, RetryTypeOK, Elapse
<1>3. TypeOK'
  BY Zenon, <1>1, <1>2 DEF TypeOK, RetryInv, LinkInv, linkVars, nodeVars, statVars
<1>4. StageInv' /\ MsgInv' /\ ArrivedInv'
  BY Zenon, SameStep DEF nodeVars, linkVars
<1> QED
  BY <1>1, <1>2, <1>3, <1>4

LEMMA FlushStep == ASSUME CInv, NEW c \in Client, Flush(c) PROVE CInv'
<1> USE DEF CInv
<1>1. RetryInv'
  BY Zenon, DropStep DEF Flush
<1>2. conn' \in [Client -> {"none", "open", "broken", "flushed"}]
  BY Zenon DEF TypeOK, Flush
<1>3. LinkInv'
  BY DEF LinkInv, Free, TypeOK, RetryTypeOK, Flush, Drop
<1>4. CASE conn[c] = "open"
  <2>1. StageInv' /\ MsgInv' /\ ArrivedInv'
    BY Zenon, <1>4, SameStep DEF Flush
  <2>2. TypeOK'
    BY Zenon, <1>1, <1>2, <1>3, <1>4 DEF TypeOK, RetryInv, LinkInv, Flush, statVars
  <2> QED
    BY <1>1, <1>3, <2>1, <2>2
<1>5. CASE conn[c] # "open"
  <2>1. stage' = Put(c.to, msg[c], "missed") /\ msg' = [msg EXCEPT ![c] = {}] /\ got' = got
    BY Zenon, <1>5 DEF Flush, Missing
  <2>2. /\ StageInv' /\ MsgInv' /\ ArrivedInv' 
        /\ stage' \in [Node -> [Sample -> Stage]] /\ got' \in [Node -> [Sample -> 0 .. 2]]
        /\ msg' \in [Client -> SUBSET Sample]
    BY ZenonT(30), <2>1, GoneStep
  <2>3. TypeOK'
    BY Zenon, <1>1, <1>2, <1>3, <2>2 DEF TypeOK, RetryInv, LinkInv, Flush, statVars
  <2> QED
    BY Zenon, <1>1, <1>3, <2>2, <2>3
<1> QED
  BY Zenon, <1>4, <1>5

LEMMA SendFailsStep == ASSUME CInv, NEW c \in Client, SendFails(c) PROVE CInv'
<1> USE DEF CInv
<1>1. RetryInv'
  BY Zenon, DropStep, FailStep DEF SendFails
<1>2. conn' \in [Client -> {"none", "open", "broken", "flushed"}]
  BY Zenon DEF TypeOK, SendFails
<1>3. {errors, sending, reported, givenUp}' \subseteq [Node -> Nat]
  <2>1. errors \in [Node -> Nat] /\ sending \in [Node -> Nat] /\ reported \in [Node -> Nat] /\ givenUp \in [Node -> Nat]
    BY Zenon DEF TypeOK
  <2>2. c.from \in Node
    BY Zenon, Types
  <2>3. /\ errors' = [errors EXCEPT ![c.from] = @ + 1]
        /\ givenUp' = [givenUp EXCEPT ![c.from] = @ + 1] \/ givenUp' = givenUp
        /\ sending' = sending /\ reported' = reported
    BY Zenon, <2>1, <2>2 DEF SendFails
  <2>4. \A f \in [Node -> Nat] : [f EXCEPT ![c.from] = @ + 1] \in [Node -> Nat]
    BY <2>2
  <2> QED
    BY <2>1, <2>3, <2>4
<1>4. CASE retries[c] = 0
  <2>1. stage' = Put(c.to, msg[c], "missed") /\ msg' = [msg EXCEPT ![c] = {}] /\ got' = got /\ Drop(c)
    BY Zenon, <1>4 DEF SendFails, Missing
  <2>2. LinkInv'
    <3>1. /\ conn' = [conn EXCEPT ![c] = "none"] /\ inner' = [inner EXCEPT ![c] = "idle"]
      BY Zenon, <2>1 DEF SendFails, Drop
    <3>2. DOMAIN conn = Client /\ DOMAIN inner = Client /\ DOMAIN msg = Client
      BY Zenon DEF TypeOK, RetryTypeOK
    <3>3. \A d \in Client : IF d = c THEN conn'[d] = "none" /\ inner'[d] = "idle" /\ msg'[d] = {}
                                     ELSE conn'[d] = conn[d] /\ inner'[d] = inner[d] /\ msg'[d] = msg[d]
      BY Zenon, <2>1, <3>1, <3>2
    <3> QED
      BY Zenon, <3>3 DEF LinkInv, Free
  <2>3. /\ StageInv' /\ MsgInv' /\ ArrivedInv'
        /\ stage' \in [Node -> [Sample -> Stage]] /\ got' \in [Node -> [Sample -> 0 .. 2]]
        /\ msg' \in [Client -> SUBSET Sample]
    BY Zenon, <2>1, GoneStep
  <2>4. TypeOK'
    BY ZenonT(30), <1>1, <1>2, <1>3, <2>2, <2>3 DEF TypeOK, RetryInv, LinkInv, SendFails
  <2> QED
    BY Zenon, <1>1, <2>2, <2>3, <2>4
<1>5. CASE retries[c] # 0
  <2>1. UNCHANGED <<stage, got, msg>> /\ Fail(c)
    BY Zenon, <1>5 DEF SendFails, TypeOK
  <2>2. LinkInv'
    <3>1. /\ conn' = [conn EXCEPT ![c] = "none"] /\ inner' = [inner EXCEPT ![c] = "delay"]
          /\ inner[c] = "action"
      BY Zenon, <1>5, <2>1 DEF SendFails, Fail
    <3>2. DOMAIN conn = Client /\ DOMAIN inner = Client
      BY Zenon DEF TypeOK, RetryTypeOK
    <3>3. \A d \in Client : IF d = c THEN conn'[d] = "none" /\ inner'[d] = "delay"
                                     ELSE conn'[d] = conn[d] /\ inner'[d] = inner[d]
      BY Zenon, <3>1, <3>2
    <3> QED
      BY Zenon, <2>1, <3>3 DEF LinkInv, Free
  <2>3. StageInv' /\ MsgInv' /\ ArrivedInv'
    BY Zenon, <2>1, SameStep
  <2>4. TypeOK'
    BY Zenon, <1>1, <1>2, <1>3, <2>1, <2>2 DEF TypeOK, RetryInv, LinkInv, SendFails
  <2> QED
    BY <1>1, <2>2, <2>3, <2>4
<1> QED
  BY Zenon, <1>4, <1>5

LEMMA DeliverStep == ASSUME CInv, NEW c \in Client, Deliver(c) PROVE CInv'
<1> USE DEF CInv
<1>1. RetryInv'
  BY Zenon DEF RetryInv, RetryTypeOK, TriesInv, retryVars, Deliver
<1>2. conn' \in [Client -> {"none", "open", "broken", "flushed"}]
  BY Zenon DEF TypeOK, Deliver
<1>3. LinkInv'
  BY Zenon DEF LinkInv, Free, TypeOK, retryVars, Deliver
<1>4. /\ StageInv' /\ MsgInv' /\ ArrivedInv'
      /\ stage' \in [Node -> [Sample -> Stage]] /\ got' \in [Node -> [Sample -> 0 .. 2]]
      /\ msg' \in [Client -> SUBSET Sample]
  <2>1. /\ msg' = [msg EXCEPT ![c] = {}]
        /\ \/ stage' = Put(c.to, msg[c], "long") /\ got' = Count(c.to, msg[c])
           \/ stage' = Put(c.to, msg[c], "missed") /\ got' = got
    BY Zenon DEF Deliver, Missing
  <2> QED
    BY Zenon, <2>1, GoneStep
<1>5. TypeOK'
  BY Zenon, <1>1, <1>2, <1>3, <1>4 DEF TypeOK, RetryInv, LinkInv, Deliver, statVars
<1> QED
  BY Zenon, <1>1, <1>3, <1>4, <1>5

LEMMA BreakStep == ASSUME CInv, NEW c \in Client, Break(c) PROVE CInv'
<1> USE DEF CInv
<1>1. RetryInv'
  BY Zenon DEF RetryInv, RetryTypeOK, TriesInv, retryVars, Break
<1>2. conn' \in [Client -> {"none", "open", "broken", "flushed"}]
  BY Zenon DEF TypeOK, Break, Broken
<1>3. LinkInv'
  BY Zenon DEF LinkInv, Free, TypeOK, retryVars, Break, Broken
<1>4. CASE conn[c] = "flushed"
  <2>1. /\ StageInv' /\ MsgInv' /\ ArrivedInv'
        /\ stage' \in [Node -> [Sample -> Stage]] /\ got' \in [Node -> [Sample -> 0 .. 2]]
        /\ msg' \in [Client -> SUBSET Sample]
    BY Zenon, <1>4, GoneStep DEF Break, Missing
  <2>2. TypeOK'
    BY Zenon, <1>1, <1>2, <1>3, <2>1 DEF TypeOK, RetryInv, LinkInv, Break, statVars
  <2> QED
    BY Zenon, <1>1, <1>3, <2>1, <2>2
<1>5. CASE conn[c] # "flushed"
  <2>1. StageInv' /\ MsgInv' /\ ArrivedInv'
    BY Zenon, <1>5, SameStep DEF Break
  <2>2. TypeOK'
    BY Zenon, <1>1, <1>2, <1>3, <1>5 DEF TypeOK, RetryInv, LinkInv, Break, statVars
  <2> QED
    BY <1>1, <1>3, <2>1, <2>2
<1> QED
  BY Zenon, <1>4, <1>5

LEMMA SnapTickStep == ASSUME CInv, NEW n \in Node, SnapTick(n) PROVE CInv'
<1> DEFINE new == At(n, {"short"})
           S   == {Slot(n, m) : m \in Node \ {n}}
<1> USE DEF CInv
<1>1. /\ \A c \in S : c \in Client /\ c.from = n /\ Free(c)
      /\ \A m \in Node \ {n} : \E c \in S : c.to = m
      /\ \A c, d \in S : c.to = d.to => c = d
  BY Zenon, Slots DEF SnapTick
<1>2. Spawn(S) /\ UNCHANGED <<got, leader, worker, conn, statVars, crashes>>
  BY Zenon DEF SnapTick
<1>3. /\ stage' \in [Node -> [Sample -> Stage]]
      /\ \A m \in Node, s \in Sample :
            stage'[m][s] = IF m = n /\ s \in new THEN "long" ELSE stage[m][s]
  <2>1. stage \in [Node -> [Sample -> Stage]] /\ "long" \in Stage
    BY Zenon, Types DEF Stage
  <2>2. stage' = Put(n, new, "long")
    BY Zenon DEF SnapTick
  <2> QED
    BY <2>1, <2>2, PutAt
<1>4. /\ msg' \in [Client -> SUBSET Sample]
      /\ \A c \in Client : msg'[c] = IF c \in S THEN new ELSE msg[c]
  BY Zenon, Types DEF SnapTick, At
<1>5. /\ \A s \in new : s \in Sample /\ Home[s] = n /\ stage[n][s] = "short"
      /\ \A s \in Sample \ new : stage[n][s] # "short"
      /\ \A s \in new, m \in Node \ {n} : stage[m][s] = "none"
  BY Zenon DEF At, StageInv, CopyInv
<1>6. \A c \in Client : \A s \in msg[c] : s \in Sample \ new
  BY <1>5, Types DEF MsgInv
<1> HIDE DEF new, S
<1>7. RetryInv'
  BY Zenon, <1>1, <1>2, SpawnStep
<1>8. LinkInv'
  <2>1. conn' = conn /\ \A c \in Client : inner'[c] = IF c \in S THEN "action" ELSE inner[c]
    BY Zenon, <1>1, <1>2 DEF Spawn, TypeOK, RetryTypeOK
  <2>2. \A c \in S : conn[c] = "none"
    BY Zenon, <1>1 DEF Free
  <2> QED
    BY Zenon, <2>1, <2>2, <1>4 DEF LinkInv, Free
<1>9. TypeOK'
  BY Zenon, <1>2, <1>3, <1>4, <1>7, <1>8 DEF TypeOK, RetryInv, LinkInv, statVars
<1>10. StageInv'
  <2> SUFFICES ASSUME NEW s \in Sample, NEW m \in Node PROVE CopyInv(m, s)'
    BY Zenon DEF StageInv
  <2>1. CopyInv(m, s) /\ Home[s] \in Node /\ got' = got
    BY Zenon, Types, <1>2 DEF StageInv
  <2> QED
    BY ZenonT(30), <2>1, <1>3, <1>5 DEF CopyInv
<1>11. MsgInv'
  <2> SUFFICES ASSUME NEW c \in Client, NEW s \in msg'[c]
               PROVE  /\ Home[s] = c.from
                      /\ stage'[c.from][s] \notin {"none", "short"}
                      /\ stage'[c.to][s] = "none"
                      /\ \A d \in Client : d.to = c.to /\ s \in msg'[d] => d = c
    BY Zenon DEF MsgInv
  <2>1. c.from \in Node /\ c.to \in Node /\ c.from # c.to
    BY Zenon, Types
  <2>2. CASE c \in S
    BY SMTT(30), <2>1, <2>2, <1>1, <1>3, <1>4, <1>5, <1>6
  <2>3. CASE c \notin S
    <3>1. s \in msg[c] /\ s \in Sample \ new
      BY Zenon, <2>3, <1>4, <1>6
    <3> QED
      BY <2>1, <2>3, <3>1, <1>3, <1>4 DEF MsgInv
  <2> QED
    BY Zenon, <2>2, <2>3
<1>12. ArrivedInv'
  <2> SUFFICES ASSUME NEW s \in Sample, NEW m \in Node \ {Home[s]},
                      stage'[Home[s]][s] \notin {"none", "short"}, stage'[m][s] = "none"
               PROVE  \E d \in Client : d.to = m /\ s \in msg'[d]
    BY DEF ArrivedInv
  <2>1. Home[s] \in Node
    BY Zenon, Types
  <2>2. CASE s \in new
    BY SMTT(30), <2>2, <1>1, <1>4, <1>5
  <2>3. CASE s \notin new
    <3>1. stage[Home[s]][s] \notin {"none", "short"} /\ stage[m][s] = "none"
      BY Zenon, <2>1, <2>3, <1>3
    <3>2. PICK d \in Client : d.to = m /\ s \in msg[d]
      BY Zenon, <3>1 DEF ArrivedInv
    <3>3. d \notin S
      BY Zenon, <3>2, <1>1 DEF LinkInv
    <3> QED
      BY Zenon, <3>2, <3>3, <1>4
  <2> QED
    BY Zenon, <2>2, <2>3
<1> QED
  BY SMTT(30), <1>7, <1>8, <1>9, <1>10, <1>11, <1>12

\* Whether the copy of s on m goes when node n loses its caches, the senders of
\* D and the connections of C.
Lost(n, D, C, m, s) ==
    \/ m = n /\ stage[n][s] \in {"short", "long"}
    \/ m = n /\ \E c \in C : s \in msg[c]
    \/ m # n /\ stage[n][s] = "short" /\ stage[m][s] = "none"
    \/ m # n /\ \E c \in D : c.to = m /\ s \in msg[c]

\* The senders of D are from n, the connections of C lead to n: every copy is
\* still accounted for.
LEMMA LoseStep ==
    ASSUME CInv, NEW n \in Node, NEW D, NEW C,
           \A c \in D : c \in Client /\ c.from = n,
           \A c \in C : c \in Client /\ c.to = n,
           \A m \in Node, s \in Sample :
               stage'[m][s] = IF Lost(n, D, C, m, s) THEN "missed" ELSE stage[m][s],
           \A c \in Client : msg'[c] = IF c \in D \cup C THEN {} ELSE msg[c],
           got' = got
    PROVE  StageInv' /\ MsgInv' /\ ArrivedInv'
<1> USE DEF CInv
<1>a. (\A c \in D : c \in Client /\ c.from = n) /\ (\A c \in C : c \in Client /\ c.to = n)
  BY Zenon
<1>b. \A m \in Node, s \in Sample :
          stage'[m][s] = IF Lost(n, D, C, m, s) THEN "missed" ELSE stage[m][s]
  BY Zenon
<1>c. \A c \in Client : msg'[c] = IF c \in D \cup C THEN {} ELSE msg[c]
  BY Zenon
<1>d. \A m \in Node, s \in Sample : Lost(n, D, C, m, s) <=>
          \/ m = n /\ stage[n][s] \in {"short", "long"}
          \/ m = n /\ \E c \in C : s \in msg[c]
          \/ m # n /\ stage[n][s] = "short" /\ stage[m][s] = "none"
          \/ m # n /\ \E c \in D : c.to = m /\ s \in msg[c]
  BY Zenon DEF Lost
<1>1. StageInv'
  <2> SUFFICES ASSUME NEW s \in Sample, NEW m \in Node PROVE CopyInv(m, s)'
    BY Zenon DEF StageInv
  <2>1. CopyInv(m, s) /\ Home[s] \in Node /\ got' = got /\ (stage[n][s] = "short" => n = Home[s])
    BY Zenon, Types DEF StageInv, CopyInv
  <2>2. stage[m][s] = "none" /\ stage[Home[s]][s] \in {"none", "short"} => \A c \in Client : s \notin msg[c]
    BY Zenon DEF MsgInv
  <2>3. m # Home[s] /\ stage'[Home[s]][s] \in {"none", "short"} => stage'[m][s] = "none"
    <3> SUFFICES ASSUME m # Home[s], stage'[Home[s]][s] \in {"none", "short"} PROVE stage'[m][s] = "none"
      BY Zenon
    <3>1. ~Lost(n, D, C, Home[s], s) /\ stage[Home[s]][s] \in {"none", "short"}
      BY Zenon, <2>1, <1>b
    <3>2. stage[m][s] = "none"
      BY Zenon, <3>1, <2>1 DEF CopyInv
    <3>3. ~Lost(n, D, C, m, s)
      <4>1. \A c \in Client : s \notin msg[c]
        BY Zenon, <3>1, <3>2, <2>2
      <4>2. ~(m = n /\ stage[n][s] \in {"short", "long"})
        BY Zenon, <3>2
      <4>3. ~(stage[n][s] = "short" /\ m # n)
        <5>1. ASSUME stage[n][s] = "short" PROVE Lost(n, D, C, Home[s], s)
          BY Zenon, <2>1, <5>1 DEF Lost
        <5> QED
          BY Zenon, <3>1, <5>1
      <4> QED
        BY Zenon, <1>a, <4>1, <4>2, <4>3 DEF Lost
    <3> QED
      BY Zenon, <3>2, <3>3, <1>b
  <2> QED
    BY Zenon, <2>1, <2>3, <1>b DEF CopyInv
<1>2. MsgInv'
  <2> SUFFICES ASSUME NEW c \in Client, NEW s \in msg'[c]
               PROVE  /\ Home[s] = c.from
                      /\ stage'[c.from][s] \notin {"none", "short"}
                      /\ stage'[c.to][s] = "none"
                      /\ \A d \in Client : d.to = c.to /\ s \in msg'[d] => d = c
    BY Zenon DEF MsgInv
  <2>1. s \in msg[c] /\ c \notin D \cup C /\ s \in Sample
    BY Zenon, <1>c, Types
  <2>2. c.from \in Node /\ c.to \in Node /\ c.from # c.to
    BY Zenon, Types
  <2>3. /\ Home[s] = c.from
        /\ stage[c.from][s] \notin {"none", "short"}
        /\ stage[c.to][s] = "none"
        /\ \A d \in Client : d.to = c.to /\ s \in msg[d] => d = c
    BY Zenon, <2>1 DEF MsgInv
  <2>4. ~Lost(n, D, C, c.to, s)
    <3>1. CASE c.to = n
      BY SMTT(30), <3>1, <2>1, <2>3, <1>d
    <3>2. CASE c.to # n
      <4>1. stage[n][s] # "short"
        BY Zenon, <2>1, <2>3 DEF StageInv, CopyInv
      <4>2. \A d \in D : ~(d.to = c.to /\ s \in msg[d])
        BY Zenon, <2>1, <2>3
      <4> QED
        BY Zenon, <3>2, <4>1, <4>2 DEF Lost
    <3> QED
      BY Zenon, <3>1, <3>2
  <2>5. stage'[c.from][s] \notin {"none", "short"}
    BY Zenon, <2>1, <2>2, <2>3, <1>b
  <2>6. stage'[c.to][s] = "none"
    BY Zenon, <2>1, <2>2, <2>3, <2>4, <1>b
  <2>7. \A d \in Client : s \in msg'[d] => s \in msg[d]
    BY Zenon, <1>c
  <2> QED
    BY Zenon, <2>3, <2>5, <2>6, <2>7
<1>3. ArrivedInv'
  <2> SUFFICES ASSUME NEW s \in Sample, NEW m \in Node \ {Home[s]},
                      stage'[Home[s]][s] \notin {"none", "short"}, stage'[m][s] = "none"
               PROVE  \E d \in Client : d.to = m /\ s \in msg'[d]
    BY DEF ArrivedInv
  <2>1. Home[s] \in Node /\ ~Lost(n, D, C, m, s) /\ stage[m][s] = "none"
    BY Zenon, Types, <1>b
  <2>2. stage[Home[s]][s] \notin {"none", "short"}
    <3>1. CASE Lost(n, D, C, Home[s], s)
      <4>1. stage[Home[s]][s] = "short" => Home[s] = n
        BY SMTT(30), <3>1, <2>1, <1>d DEF StageInv, CopyInv, MsgInv
      <4>2. stage[Home[s]][s] # "short"
        <5>1. ASSUME stage[n][s] = "short", n = Home[s] PROVE Lost(n, D, C, m, s)
          BY Zenon, <2>1, <5>1 DEF Lost
        <5> QED
          BY Zenon, <4>1, <2>1, <5>1
      <4>3. stage[Home[s]][s] # "none"
        BY SMTT(30), <3>1, <2>1, <1>d, Types DEF MsgInv
      <4> QED
        BY Zenon, <4>2, <4>3
    <3>2. CASE ~Lost(n, D, C, Home[s], s)
      BY Zenon, <3>2, <2>1, <1>b
    <3> QED
      BY Zenon, <3>1, <3>2
  <2>3. PICK d \in Client : d.to = m /\ s \in msg[d]
    BY Zenon, <2>1, <2>2 DEF ArrivedInv
  <2>4. d \notin D \cup C
    <3>1. ASSUME d \in C PROVE Lost(n, D, C, m, s)
      BY Zenon, <1>a, <2>3, <3>1 DEF Lost
    <3>2. ASSUME d \in D PROVE Lost(n, D, C, m, s)
      <4>1. d.from = n /\ d.from # d.to
        BY Zenon, <1>a, <3>2, Types
      <4> QED
        BY Zenon, <2>3, <3>2, <4>1 DEF Lost
    <3> QED
      BY Zenon, <2>1, <3>1, <3>2
  <2> QED
    BY Zenon, <2>3, <2>4, <1>c
<1> QED
  BY Zenon, <1>1, <1>2, <1>3

\* What a node without its caches does not have, and does not share.
LEMMA UncachedIs ==
    ASSUME TypeOK, NEW n \in Node, NEW m \in Node, NEW s \in Sample
    PROVE  s \in Uncached(n, m) <=>
          \/ m = n /\ stage[n][s] \in {"short", "long"}
          \/ m # n /\ stage[n][s] = "short" /\ stage[m][s] = "none"
<1>1. stage[m][s] \in Stage
  BY Zenon, Types
<1>2. s \in At(n, {"short"}) <=> stage[n][s] = "short"
  BY Zenon DEF At
<1>3. s \in At(n, {"short", "long"}) <=> stage[n][s] \in {"short", "long"}
  BY Zenon DEF At
<1>4. s \in At(m, Stage \ {"none"}) <=> stage[m][s] # "none"
  BY Zenon, <1>1 DEF At
<1>5. CASE m = n
  <2>1. Uncached(n, m) = At(n, {"short", "long"})
    BY Zenon, <1>5 DEF Uncached
  <2> QED
    BY Zenon, <1>3, <1>5, <2>1
<1>6. CASE m # n
  <2>1. Uncached(n, m) = At(n, {"short"}) \ At(m, Stage \ {"none"})
    BY Zenon, <1>6 DEF Uncached
  <2> QED
    <3>1. s \in Uncached(n, m) <=> stage[n][s] = "short" /\ ~(stage[m][s] # "none")
      BY Zenon, <1>2, <1>4, <2>1
    <3> QED
      BY <1>6, <3>1
<1> QED
  BY Zenon, <1>5, <1>6

LEMMA WorkerDiesStep == ASSUME CInv, NEW n \in Node, WorkerDies(n) PROVE CInv'
<1> USE DEF CInv
<1>1. /\ stage' = [m \in Node |-> [s \in Sample |-> IF s \in Uncached(n, m) THEN "missed" ELSE stage[m][s]]]
      /\ worker' = [worker EXCEPT ![n] = "dead"] /\ crashes' = crashes + 1 /\ crashes < MaxCrashes
      /\ UNCHANGED <<retryVars, got, leader, linkVars, statVars>>
  BY Zenon DEF WorkerDies
<1>2. got' = got /\ msg' = msg /\ UNCHANGED retryVars /\ UNCHANGED conn
  BY Zenon, <1>1 DEF linkVars
<1>3. \A m \in Node, s \in Sample :
          stage'[m][s] = IF Lost(n, {}, {}, m, s) THEN "missed" ELSE stage[m][s]
  <2> SUFFICES ASSUME NEW m \in Node, NEW s \in Sample
               PROVE  stage'[m][s] = IF Lost(n, {}, {}, m, s) THEN "missed" ELSE stage[m][s]
    BY Zenon
  <2>1. Lost(n, {}, {}, m, s) <=> s \in Uncached(n, m)
    <3>1. s \in Uncached(n, m) <=>
          \/ m = n /\ stage[n][s] \in {"short", "long"}
          \/ m # n /\ stage[n][s] = "short" /\ stage[m][s] = "none"
      BY Zenon, UncachedIs
    <3>2. (\A c \in {} : s \notin msg[c]) /\ (\A c \in {} : ~(c.to = m /\ s \in msg[c]))
      BY Zenon
    <3> QED
      BY <3>1, <3>2 DEF Lost
  <2>2. stage'[m][s] = IF s \in Uncached(n, m) THEN "missed" ELSE stage[m][s]
    BY Zenon, <1>1
  <2> QED
    BY Zenon, <2>1, <2>2
<1>4. \A c \in Client : msg'[c] = IF c \in {} \cup {} THEN {} ELSE msg[c]
  BY Zenon, <1>2
<1>5. StageInv' /\ MsgInv' /\ ArrivedInv'
  BY Zenon, <1>2, <1>3, <1>4, LoseStep
<1>6. stage' \in [Node -> [Sample -> Stage]]
  BY Zenon, <1>1, Types DEF Stage
<1>7. worker' \in [Node -> {"runs", "dead", "ended"}] /\ crashes' \in 0 .. MaxCrashes
  <2>1. crashes \in 0 .. MaxCrashes /\ worker \in [Node -> {"runs", "dead", "ended"}]
    BY Zenon DEF TypeOK
  <2>2. crashes' \in 0 .. MaxCrashes
    BY ONLY <1>1, <2>1, ClusterAssumption
  <2> QED
    BY Zenon, <1>1, <2>1, <2>2
<1>8. RetryInv'
  BY Zenon, <1>2 DEF RetryInv, RetryTypeOK, TriesInv, retryVars
<1>9. LinkInv'
  BY Zenon, <1>2 DEF LinkInv, Free, retryVars
<1>10. TypeOK'
  BY Zenon, <1>1, <1>2, <1>6, <1>7, <1>8, <1>9 DEF TypeOK, RetryInv, LinkInv, statVars
<1> QED
  BY Zenon, <1>5, <1>8, <1>9, <1>10

\* What dies with a process: its caches, its senders, and what was on its way
\* to it and had left its sender.
LEMMA CrashStep == ASSUME CInv, NEW n \in Node, Crash(n) PROVE CInv'
<1> DEFINE dying == {c \in Client : c.from = n /\ inner[c] # "idle"}
           cut == {c \in Client : c.to = n /\ conn[c] = "flushed"}
           unsent(m) == UNION {msg[c] : c \in {d \in dying : d.to = m}}
           gone(m) == Uncached(n, m) \cup (IF m = n THEN UNION {msg[c] : c \in cut} ELSE unsent(m))
<1> USE DEF CInv
<1>1. /\ stage' = [m \in Node |-> [s \in Sample |-> IF s \in gone(m) THEN "missed" ELSE stage[m][s]]]
      /\ msg' = [c \in Client |-> IF c \in dying \cup cut THEN {} ELSE msg[c]]
      /\ conn' = [c \in Client |-> IF c \in dying THEN "none"
                                    ELSE IF c.to = n THEN Broken(c) ELSE conn[c]]
      /\ inner' = [c \in Client |-> IF c \in dying THEN "idle" ELSE inner[c]]
      /\ UNCHANGED <<got, interval>>
  BY Zenon DEF Crash
<1>2. /\ stage' \in [Node -> [Sample -> Stage]]
      /\ msg' \in [Client -> SUBSET Sample]
      /\ conn' \in [Client -> {"none", "open", "broken", "flushed"}]
  <2>1. stage \in [Node -> [Sample -> Stage]] /\ "missed" \in Stage
    BY Zenon, Types DEF Stage
  <2>2. stage' \in [Node -> [Sample -> Stage]]
    <3> HIDE DEF gone
    <3> QED
      BY Zenon, <1>1, <2>1
  <2> QED
    BY Zenon, <1>1, <2>2, Types DEF TypeOK, Broken
<1>3. \A m \in Node, s \in Sample : s \in gone(m) <=> Lost(n, dying, cut, m, s)
  <2> SUFFICES ASSUME NEW m \in Node, NEW s \in Sample PROVE s \in gone(m) <=> Lost(n, dying, cut, m, s)
    BY Zenon
  <2>1. s \in Uncached(n, m) <=>
        \/ m = n /\ stage[n][s] \in {"short", "long"}
        \/ m # n /\ stage[n][s] = "short" /\ stage[m][s] = "none"
    BY Zenon, UncachedIs
  <2>2. s \in UNION {msg[c] : c \in cut} <=> \E c \in cut : s \in msg[c]
    BY Zenon
  <2>3. s \in unsent(m) <=> \E c \in dying : c.to = m /\ s \in msg[c]
    BY Zenon
  <2> HIDE DEF dying, cut, unsent
  <2> QED
    <3>1. CASE m = n
      <4>1. s \in gone(m) <=> s \in Uncached(n, m) \/ s \in UNION {msg[c] : c \in cut}
        BY Zenon, <3>1
      <4> HIDE DEF gone
      <4> QED
        BY <2>1, <2>2, <3>1, <4>1 DEF Lost
    <3>2. CASE m # n
      <4>1. s \in gone(m) <=> s \in Uncached(n, m) \/ s \in unsent(m)
        BY Zenon, <3>2
      <4> QED
        BY Zenon, <2>1, <2>3, <3>2, <4>1 DEF Lost
    <3> QED
      BY Zenon, <3>1, <3>2
<1>4. \A c \in dying \cup cut : c \in Client
  BY Zenon, SMTT(30)
<1>5. RetryInv'
  <2> HIDE DEF dying
  <2>1. /\ retries' = [c \in Client |-> IF c \in dying THEN Retries ELSE retries[c]]
        /\ delay' = [c \in Client |-> IF c \in dying THEN 0 ELSE delay[c]]
        /\ tries' = [c \in Client |-> IF c \in dying THEN 0 ELSE tries[c]]
    BY Zenon DEF Crash, dying
  <2>2. RetryTypeOK'
    BY SMTT(30), <1>1, <2>1, RetryAssumption DEF RetryInv, RetryTypeOK
  <2>3. ASSUME NEW c \in Client
        PROVE  \/ inner'[c] = "idle" /\ retries'[c] = Retries
               \/ inner'[c] = inner[c] /\ retries'[c] = retries[c] /\ tries'[c] = tries[c]
    BY Zenon, <1>1, <2>1
  <2> QED
    BY SMTT(30), <2>2, <2>3 DEF RetryInv, TriesInv
<1>6. LinkInv'
  BY Zenon, <1>1 DEF LinkInv, Free, Broken, TypeOK, RetryTypeOK
<1>7. TypeOK'
  <2>1. errors \in [Node -> Nat] /\ sending \in [Node -> Nat] /\ reported \in [Node -> Nat] /\ givenUp \in [Node -> Nat]
    BY Zenon DEF TypeOK
  <2>2. {errors, sending, reported, givenUp}' \subseteq [Node -> Nat]
    <3>1. /\ errors' = [errors EXCEPT ![n] = 0] /\ sending' = [sending EXCEPT ![n] = 0]
          /\ reported' = [reported EXCEPT ![n] = 0] /\ givenUp' = [givenUp EXCEPT ![n] = 0]
      BY Zenon DEF Crash
    <3> QED
      BY <2>1, <3>1
  <2>3. crashes' \in 0 .. MaxCrashes
    <3>1. crashes \in 0 .. MaxCrashes /\ crashes < MaxCrashes /\ crashes' = crashes + 1
      BY Zenon DEF Crash, TypeOK
    <3> QED
      BY <3>1, ClusterAssumption
  <2>4. leader' \subseteq Node /\ worker' \in [Node -> {"runs", "dead", "ended"}]
    <3>1. leader' \subseteq Node
      BY Zenon DEF Crash, TypeOK
    <3>2. worker \in [Node -> {"runs", "dead", "ended"}] /\ worker' = [worker EXCEPT ![n] = "runs"]
      BY Zenon DEF Crash, TypeOK
    <3> QED
      BY Zenon, <3>1, <3>2
  <2> QED
    BY ZenonT(30), <1>1, <1>2, <1>5, <1>6, <2>2, <2>3, <2>4 DEF TypeOK, RetryInv, LinkInv
<1>8. \A m \in Node, s \in Sample :
          stage'[m][s] = IF Lost(n, dying, cut, m, s) THEN "missed" ELSE stage[m][s]
  <2> SUFFICES ASSUME NEW m \in Node, NEW s \in Sample
               PROVE  stage'[m][s] = IF Lost(n, dying, cut, m, s) THEN "missed" ELSE stage[m][s]
    BY Zenon
  <2>1. stage'[m][s] = IF s \in gone(m) THEN "missed" ELSE stage[m][s]
    BY Zenon, <1>1
  <2>2. s \in gone(m) <=> Lost(n, dying, cut, m, s)
    BY Zenon, <1>3
  <2> HIDE DEF gone, dying, cut
  <2> QED
    BY Zenon, <2>1, <2>2
<1>9. \A c \in Client : msg'[c] = IF c \in dying \cup cut THEN {} ELSE msg[c]
  BY Zenon, <1>1
<1>10. (\A c \in dying : c \in Client /\ c.from = n) /\ (\A c \in cut : c \in Client /\ c.to = n)
  BY Zenon
<1> HIDE DEF gone, unsent, dying, cut
<1>11. StageInv' /\ MsgInv' /\ ArrivedInv'
  <2>1. got' = got
    BY Zenon, <1>1
  <2> QED
    BY <1>8, <1>9, <1>10, <2>1, LoseStep
<1> QED
  BY Zenon, <1>5, <1>6, <1>7, <1>11

LEMMA StutterStep == ASSUME CInv, UNCHANGED vars PROVE CInv'
<1> USE DEF CInv, vars, retryVars, nodeVars, linkVars, statVars
<1>1. RetryInv'
  BY Zenon DEF RetryInv, RetryTypeOK, TriesInv
<1>2. LinkInv'
  BY Zenon DEF LinkInv, Free
<1>3. TypeOK'
  BY Zenon, <1>1, <1>2 DEF TypeOK, RetryInv, LinkInv
<1>4. StageInv' /\ MsgInv' /\ ArrivedInv'
  BY Zenon, SameStep
<1> QED
  BY Zenon, <1>1, <1>2, <1>3, <1>4

-----------------------------------------------------------------------------
(* The peer errors of a node. *)

\* OwedInv of one node.
Shown(n) ==
    /\ IsFiniteSet(Owed(n))
    /\ errors[n] + sending[n] + reported[n] >= (Retries + 1) * givenUp[n] + Cardinality(Owed(n))

LEMMA StatTypes ==
    ASSUME CInv, NEW n \in Node
    PROVE  /\ errors[n] \in Nat /\ sending[n] \in Nat /\ reported[n] \in Nat /\ givenUp[n] \in Nat
           /\ Retries \in Nat /\ (Retries + 1) * givenUp[n] \in Nat
           /\ \A c \in Client : retries[c] \in 0 .. Retries
<1>1. {errors, sending, reported, givenUp} \subseteq [Node -> Nat] /\ retries \in [Client -> 0 .. Retries]
  BY Zenon DEF CInv, TypeOK, RetryInv, RetryTypeOK
<1> QED
  BY <1>1, RetryAssumption

\* A step that adds no failed try of n and takes no error away.
LEMMA FewerOwed ==
    ASSUME CInv, NEW n \in Node, Shown(n), Owed(n)' \subseteq Owed(n),
           errors'[n] + sending'[n] + reported'[n] = errors[n] + sending[n] + reported[n], givenUp'[n] = givenUp[n]
    PROVE  Shown(n)'
<1>1. IsFiniteSet(Owed(n)') /\ Cardinality(Owed(n)') <= Cardinality(Owed(n))
  BY Zenon, FS_Subset DEF Shown
<1>2. Cardinality(Owed(n)') \in Nat /\ Cardinality(Owed(n)) \in Nat
  BY Zenon, <1>1, FS_CardinalityType DEF Shown
<1>3. errors'[n] + sending'[n] + reported'[n] >= (Retries + 1) * givenUp'[n] + Cardinality(Owed(n)')
  BY <1>1, <1>2, StatTypes DEF Shown
<1> QED
  BY Zenon, <1>1, <1>3 DEF Shown

\* A try of sender c fails and a retry is left: one failed try more.
LEMMA FailOwes ==
    ASSUME CInv, NEW c \in Client, SendFails(c), retries[c] # 0, Shown(c.from)
    PROVE  Shown(c.from)'
<1> DEFINE n == c.from
           p == <<c, retries[c]>>
<1>1. n \in Node /\ retries[c] \in 1 .. Retries
  BY StatTypes, ClusterAssumption
<1>2. retries' = [retries EXCEPT ![c] = @ - 1] /\ retries \in [Client -> 0 .. Retries]
  BY Zenon DEF SendFails, Fail, CInv, RetryInv, RetryTypeOK
<1>3. Owed(n)' = Owed(n) \cup {p} /\ p \notin Owed(n)
  BY <1>1, <1>2, RetryAssumption DEF Owed
<1>4. errors'[n] = errors[n] + 1 /\ sending'[n] = sending[n] /\ reported'[n] = reported[n] /\ givenUp'[n] = givenUp[n]
  BY Zenon, <1>1 DEF SendFails, CInv, TypeOK
<1>5. IsFiniteSet(Owed(n)') /\ Cardinality(Owed(n)') = Cardinality(Owed(n)) + 1
  BY Zenon, <1>3, FS_AddElement DEF Shown
<1>6. Cardinality(Owed(n)) \in Nat
  BY Zenon, FS_CardinalityType DEF Shown
<1>7. errors'[n] + sending'[n] + reported'[n] >= (Retries + 1) * givenUp'[n] + Cardinality(Owed(n)')
  BY <1>1, <1>4, <1>5, <1>6, StatTypes DEF Shown
<1> QED
  BY Zenon, <1>5, <1>7 DEF Shown

\* Sender c gives up: its tries go from Owed to the senders that gave up.
LEMMA GivesUp ==
    ASSUME CInv, NEW c \in Client, SendFails(c), retries[c] = 0, Shown(c.from)
    PROVE  Shown(c.from)'
<1> DEFINE n == c.from
           P == {c} \X (1 .. Retries)
<1>1. n \in Node /\ Retries \in Nat
  BY Zenon, StatTypes, ClusterAssumption
<1>2. retries' = [retries EXCEPT ![c] = Retries] /\ retries \in [Client -> 0 .. Retries]
  BY Zenon DEF SendFails, Drop, CInv, RetryInv, RetryTypeOK
<1>3. Owed(n)' = Owed(n) \ P /\ P \subseteq Owed(n)
  BY <1>1, <1>2 DEF Owed
<1>4. errors'[n] = errors[n] + 1 /\ sending'[n] = sending[n] /\ reported'[n] = reported[n] /\ givenUp'[n] = givenUp[n] + 1
  BY Zenon, <1>1 DEF SendFails, CInv, TypeOK
<1>5. IsFiniteSet(P) /\ Cardinality(P) = Retries
  <2>1. IsFiniteSet(1 .. Retries) /\ Cardinality(1 .. Retries) = Retries
    BY <1>1, FS_Interval
  <2>2. IsFiniteSet({c}) /\ Cardinality({c}) = 1
    BY Zenon, FS_Singleton
  <2>3. IsFiniteSet(P) /\ Cardinality(P) = Cardinality({c}) * Cardinality(1 .. Retries)
    BY Zenon, <2>1, <2>2, FS_Product
  <2> QED
    BY <2>1, <2>2, <2>3, <1>1
<1>6. /\ IsFiniteSet(Owed(n)')
      /\ Cardinality(Owed(n)') = Cardinality(Owed(n)) - Retries
  <2>1. Owed(n) \cap P = P
    BY Zenon, <1>3
  <2> HIDE DEF P
  <2> QED
    BY Zenon, <1>3, <1>5, <2>1, FS_Difference DEF Shown
<1>7. Cardinality(Owed(n)) \in Nat
  BY Zenon, FS_CardinalityType DEF Shown
<1>8. (Retries + 1) * (givenUp[n] + 1) = (Retries + 1) * givenUp[n] + Retries + 1
  BY <1>1, StatTypes
<1>9. errors'[n] + sending'[n] + reported'[n] >= (Retries + 1) * givenUp'[n] + Cardinality(Owed(n)')
  BY <1>1, <1>4, <1>6, <1>7, <1>8, StatTypes DEF Shown
<1> QED
  BY Zenon, <1>6, <1>9 DEF Shown

\* The process of n starts again, with no errors, no reports and no senders.
LEMMA CrashShown ==
    ASSUME CInv, NEW n \in Node, Crash(n)
    PROVE  Shown(n)'
<1>1. errors'[n] = 0 /\ sending'[n] = 0 /\ reported'[n] = 0 /\ givenUp'[n] = 0
  BY Zenon DEF Crash, CInv, TypeOK
<1>2. \A c \in Client : c.from = n => retries'[c] = Retries
  BY Zenon DEF Crash, CInv, RetryInv
<1>3. Owed(n)' = {}
  <2>1. \A k \in 1 .. Retries : ~(Retries < k)
    BY RetryAssumption
  <2> QED
    BY Zenon, <1>2, <2>1 DEF Owed
<1>4. IsFiniteSet({}) /\ Cardinality({}) = 0
  BY Zenon, FS_EmptySet
<1> QED
  BY <1>1, <1>3, <1>4, RetryAssumption DEF Shown

\* No failed try is new when no retry is used.
LEMMA RetriesKept ==
    ASSUME CInv, NEW n \in Node,
           \A c \in Client : c.from = n => retries'[c] \in {retries[c], Retries}
    PROVE  Owed(n)' \subseteq Owed(n)
<1>1. \A c \in Client, k \in 1 .. Retries : c.from = n /\ retries'[c] < k => retries[c] < k
  BY StatTypes
<1> QED
  BY Zenon, <1>1 DEF Owed

-----------------------------------------------------------------------------
(* Theorems. *)

\* The inductive invariant of caches, senders and connections.
THEOREM Inductive == Spec => []CInv
<1>1. CInv /\ [Next]_vars => CInv'
  <2> SUFFICES ASSUME CInv, [Next]_vars PROVE CInv'
    BY Zenon
  <2>1. ASSUME NEW s \in Sample, Receive(s) PROVE CInv'
    BY Zenon, <2>1, ReceiveStep, DroppedStep
  <2>2. ASSUME NEW n \in Node, \/ SnapTick(n) \/ SnapFails(n) \/ Rotate(n) \/ SetLeader(n)
                               \/ GetStats(n) \/ SendStats(n) \/ WorkerDies(n) \/ Crash(n)
        PROVE  CInv'
    BY <2>2, SnapTickStep, SnapFailsStep, RotateStep, SetLeaderStep, GetStatsStep, SendStatsStep,
       WorkerDiesStep, CrashStep
  <2>3. ASSUME NEW c \in Client, Sender(c) \/ Deliver(c) \/ Break(c) PROVE CInv'
    BY <2>3, ConnectStep, FlushStep, SendFailsStep, RetryStep, DeliverStep, BreakStep DEF Sender
  <2>4. CASE UNCHANGED vars
    BY Zenon, <2>4, StutterStep
  <2> QED
    BY Zenon, <2>1, <2>2, <2>3, <2>4 DEF Next
<1> QED
  BY <1>1, InitInv, PTL DEF Spec

\* The type invariant of Cluster; with it BackoffRetry keeps its counts
\* within their bounds when its places are used again and again.
THEOREM TypeCorrect == Spec => []TypeOK
<1>1. CInv => TypeOK
  BY Zenon DEF CInv
<1> QED
  BY <1>1, Inductive, PTL

\* No node counts a sample twice, however often SnapshotSender tries again and
\* however its connections and processes fail.
THEOREM NoDuplicates == Spec => []AtMostOnce
<1>1. CInv => AtMostOnce
  BY DEF CInv, StageInv, CopyInv, AtMostOnce
<1> QED
  BY <1>1, Inductive, PTL

\* Every copy NativeProtocolSnapshot has made is in one sender or connection,
\* or has arrived, or is missed.
THEOREM EveryCopy == Spec => []CopiesAccounted
<1>1. CInv => CopiesAccounted
  <2> SUFFICES ASSUME CInv, NEW s \in Sample, NEW m \in Node \ {Home[s]}
               PROVE  LET onTheWay == {c \in Client : c.to = m /\ s \in msg[c]}
                      IN  /\ Cardinality(onTheWay) <= 1
                          /\ stage[Home[s]][s] \notin {"none", "short"} =>
                                 (onTheWay = {} <=> stage[m][s] # "none")
    BY Zenon DEF CopiesAccounted
  <2> DEFINE onTheWay == {c \in Client : c.to = m /\ s \in msg[c]}
  <2>1. \A c, d \in onTheWay : c = d
    BY Zenon DEF CInv, MsgInv
  <2>2. Cardinality(onTheWay) <= 1
    <3>1. CASE onTheWay = {}
      BY <3>1, FS_EmptySet
    <3>2. CASE onTheWay # {}
      <4>1. PICK c : onTheWay = {c}
        BY Zenon, <2>1, <3>2
      <4>2. Cardinality({c}) = 1
        BY Zenon, FS_Singleton
      <4> QED
        BY <4>1, <4>2
    <3> QED
      BY Zenon, <3>1, <3>2
  <2>3. stage[Home[s]][s] \notin {"none", "short"} => (onTheWay = {} <=> stage[m][s] # "none")
    BY DEF CInv, MsgInv, ArrivedInv
  <2> QED
    BY Zenon, <2>2, <2>3
<1> QED
  BY <1>1, Inductive, PTL

\* A failed try of SnapshotSender is in PEER_ERRORS or in a metric that
\* OwnStats made of it, sent or on its way: while the worker lives that takes
\* them, what these show covers all Retries + 1 tries of every sender that gave
\* up, for any number of senders a node has under way.
THEOREM ErrorsReported == Spec => []GiveUpsReported
<1>1. Init => OwedInv
  <2> SUFFICES ASSUME Init, NEW n \in Node PROVE Shown(n)
    BY Zenon DEF OwedInv, Shown
  <2>1. Owed(n) = {}
    BY RetryAssumption DEF Init, RetryInit, Owed
  <2>2. IsFiniteSet({}) /\ Cardinality({}) = 0
    BY Zenon, FS_EmptySet
  <2>3. errors[n] = 0 /\ sending[n] = 0 /\ reported[n] = 0 /\ givenUp[n] = 0
    BY Zenon DEF Init, Zero
  <2> QED
    BY <2>1, <2>2, <2>3, RetryAssumption DEF Shown
<1>2. CInv /\ OwedInv /\ [Next]_vars => OwedInv'
  <2> SUFFICES ASSUME CInv, OwedInv, [Next]_vars, interval > 0, NEW n \in Node, worker'[n] = "runs"
               PROVE  Shown(n)'
    <3>1. [Next]_vars => interval' = interval
      BY Zenon DEF Next, vars, statVars, Receive, SnapTick, SnapFails, Rotate, SetLeader, GetStats,
                   SendStats, WorkerDies, Crash, Sender, Connect, Flush, SendFails, Retry, Deliver, Break
    <3> QED
      BY Zenon, <3>1 DEF OwedInv, Shown
  <2>0. CASE Crash(n)
    BY Zenon, <2>0, CrashShown
  <2> SUFFICES ASSUME ~Crash(n) PROVE Shown(n)'
    BY Zenon, <2>0
  <2>w. worker[n] = "runs" /\ ~SnapFails(n) /\ ~WorkerDies(n)
    <3>1. worker \in [Node -> {"runs", "dead", "ended"}]
      BY Zenon DEF CInv, TypeOK
    <3>2. ASSUME SnapFails(n) \/ WorkerDies(n) PROVE FALSE
      BY Zenon, <3>1, <3>2 DEF SnapFails, WorkerDies
    <3>3. ASSUME NEW m \in Node, m # n, SnapFails(m) \/ WorkerDies(m) \/ Crash(m) PROVE worker'[n] = worker[n]
      BY Zenon, <3>1, <3>3 DEF SnapFails, WorkerDies, Crash
    <3>4. ASSUME worker' = worker PROVE worker[n] = "runs"
      BY Zenon, <3>4
    <3> QED
      BY Zenon, <3>2, <3>3, <3>4 DEF Next, vars, nodeVars, Receive, SnapTick, Rotate, SetLeader, GetStats,
                   SendStats, Sender, Connect, Flush, SendFails, Retry, Deliver, Break
  <2>1. Shown(n)
    BY Zenon, <2>w DEF OwedInv, Shown
  <2>2. ASSUME NEW m \in Node, GetStats(m) PROVE Shown(n)'
    <3>1. UNCHANGED <<retries, givenUp>>
      BY Zenon, <2>2 DEF GetStats, retryVars
    <3>2. Owed(n)' \subseteq Owed(n)
      BY Zenon, <3>1 DEF Owed
    <3>3. errors'[n] + sending'[n] + reported'[n] = errors[n] + sending[n] + reported[n]
      <4>1. errors \in [Node -> Nat] /\ sending \in [Node -> Nat] /\ reported \in [Node -> Nat]
        BY Zenon DEF CInv, TypeOK
      <4>2. /\ errors' = [errors EXCEPT ![m] = 0] /\ sending' = [sending EXCEPT ![m] = @ + errors[m]]
            /\ reported' = reported
        BY Zenon, <2>2 DEF GetStats
      <4> QED
        BY ONLY n \in Node, m \in Node, <4>1, <4>2
    <3> QED
      BY Zenon, <2>1, <3>1, <3>2, <3>3, FewerOwed
  <2>s. ASSUME NEW m \in Node, SendStats(m) PROVE Shown(n)'
    <3>1. UNCHANGED <<retries, givenUp>>
      BY Zenon, <2>s DEF SendStats, retryVars
    <3>2. Owed(n)' \subseteq Owed(n)
      BY Zenon, <3>1 DEF Owed
    <3>3. errors'[n] + sending'[n] + reported'[n] = errors[n] + sending[n] + reported[n]
      <4>1. errors \in [Node -> Nat] /\ sending \in [Node -> Nat] /\ reported \in [Node -> Nat]
        BY Zenon DEF CInv, TypeOK
      <4>2. errors' = errors
        BY Zenon, <2>s DEF SendStats
      <4>3. CASE m = n
        <5>1. sending' = [sending EXCEPT ![n] = 0] /\ reported' = [reported EXCEPT ![n] = @ + sending[n]]
          BY Zenon, <2>s, <2>w, <4>3 DEF SendStats
        <5> QED
          BY ONLY n \in Node, <4>1, <4>2, <5>1
      <4>4. CASE m # n
        <5>1. sending'[n] = sending[n] /\ reported'[n] = reported[n]
          BY Zenon, <2>s, <4>1, <4>4 DEF SendStats
        <5> QED
          BY Zenon, <4>2, <5>1
      <4> QED
        BY Zenon, <4>3, <4>4
    <3> QED
      BY Zenon, <2>1, <3>1, <3>2, <3>3, FewerOwed
  <2>f. ASSUME NEW m \in Node, SnapFails(m) PROVE Shown(n)'
    <3>1. m # n /\ UNCHANGED <<retries, givenUp, sending, reported>>
      BY Zenon, <2>f, <2>w DEF SnapFails, retryVars
    <3>2. Owed(n)' \subseteq Owed(n)
      BY Zenon, <3>1 DEF Owed
    <3>3. errors'[n] = errors[n]
      BY Zenon, <2>f, <3>1 DEF SnapFails, CInv, TypeOK
    <3>4. errors'[n] + sending'[n] + reported'[n] = errors[n] + sending[n] + reported[n]
      BY Zenon, <3>1, <3>3
    <3> QED
      BY Zenon, <2>1, <3>1, <3>2, <3>4, FewerOwed
  <2>3. ASSUME NEW m \in Node, Crash(m) PROVE Shown(n)'
    <3>1. CASE m = n
      BY Zenon, <2>3, <3>1
    <3>2. CASE m # n
      <4>1. \A c \in Client : c.from = n => retries'[c] \in {retries[c], Retries}
        BY Zenon, <2>3 DEF Crash
      <4>2. errors'[n] = errors[n] /\ sending'[n] = sending[n] /\ reported'[n] = reported[n] /\ givenUp'[n] = givenUp[n]
        BY Zenon, <2>3, <3>2 DEF Crash, CInv, TypeOK
      <4> QED
        BY Zenon, <2>1, <4>1, <4>2, RetriesKept, FewerOwed
    <3> QED
      BY Zenon, <3>1, <3>2
  <2>4. ASSUME NEW c \in Client, SendFails(c) PROVE Shown(n)'
    <3>1. CASE c.from = n
      BY Zenon, <2>1, <2>4, <3>1, FailOwes, GivesUp
    <3>2. CASE c.from # n
      <4>1. \A d \in Client : d.from = n => retries'[d] = retries[d]
        BY Zenon, <2>4, <3>2 DEF SendFails, Fail, Drop, CInv, RetryInv, RetryTypeOK
      <4>2. errors'[n] = errors[n] /\ sending'[n] = sending[n] /\ reported'[n] = reported[n] /\ givenUp'[n] = givenUp[n]
        BY Zenon, <2>4, <3>2 DEF SendFails, CInv, TypeOK
      <4> QED
        BY Zenon, <2>1, <4>1, <4>2, RetriesKept, FewerOwed
    <3> QED
      BY Zenon, <3>1, <3>2
  <2>5. ASSUME UNCHANGED statVars, \A c \in Client : retries'[c] \in {retries[c], Retries}
        PROVE  Shown(n)'
    BY Zenon, <2>1, <2>5, RetriesKept, FewerOwed DEF statVars
  <2>6. ASSUME NEW c \in Client, Connect(c) \/ Flush(c) \/ Retry(c) \/ Deliver(c) \/ Break(c)
        PROVE  Shown(n)'
    BY Zenon, <2>5, <2>6 DEF Connect, Flush, Retry, Deliver, Break, Drop, Elapse, retryVars,
                              CInv, RetryInv, RetryTypeOK
  <2>7. ASSUME NEW m \in Node, SnapTick(m) \/ Rotate(m) \/ SetLeader(m) \/ WorkerDies(m) PROVE Shown(n)'
    BY Zenon, <2>5, <2>7 DEF SnapTick, Rotate, SetLeader, WorkerDies, Spawn, retryVars
  <2>8. ASSUME NEW s \in Sample, Receive(s) PROVE Shown(n)'
    BY Zenon, <2>5, <2>8 DEF Receive, retryVars
  <2>9. CASE UNCHANGED vars
    BY Zenon, <2>5, <2>9 DEF vars, retryVars
  <2> QED
    BY Zenon, <2>2, <2>s, <2>f, <2>3, <2>4, <2>6, <2>7, <2>8, <2>9 DEF Next, Sender
<1>3. CInv /\ OwedInv => GiveUpsReported
  <2> SUFFICES ASSUME CInv, OwedInv, interval > 0, NEW n \in Node, worker[n] = "runs"
               PROVE  errors[n] + sending[n] + reported[n] >= (Retries + 1) * givenUp[n]
    BY Zenon DEF GiveUpsReported
  <2>1. Cardinality(Owed(n)) \in Nat
    BY Zenon, FS_CardinalityType DEF OwedInv
  <2> QED
    BY <2>1, StatTypes DEF OwedInv
<1> QED
  BY <1>1, <1>2, <1>3, Inductive, PTL DEF Spec
=============================================================================
