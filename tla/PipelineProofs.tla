--------------------------- MODULE PipelineProofs ---------------------------
(***************************************************************************)
(* The theorems about Pipeline: its types, its inductive invariant, that a *)
(* node counts every sample once, that no cache mixes the types of a name, *)
(* that without a panic every lost sample is counted, what goes into the   *)
(* snapshots for the peers, and that Pipeline implements MetricLedger.     *)
(*                                                                         *)
(* Before them, which samples are in a snapshot and where they may be.     *)
(* A sample goes onward: from the text and the lists of local metrics to   *)
(* the short cache, with TakeSnapshot into the snapshot and the long       *)
(* cache, and on to the carbon threads; a sample of a peer goes to the     *)
(* long cache at once.  All steps but TakeSnapshot leave the snapshots     *)
(* alone, so it is enough to show that none of them moves a sample back.   *)
(***************************************************************************)
EXTENDS PipelineLedger, PipelineLemmas

\* Every sample put into a snapshot so far.
Shared == replicated \cup UNION {snapRx[w].val : w \in Worker}

Local == {"Parse", "AddMetric", "AddMetrics"}
Guest == {"AddSnapshot"}
Final == {"Aggregate"}

\* A task of one of the kinds of K carries sample s.
InTask(s, K) == \E w, i : InQueue(s, w, i) /\ queue[w][i].kind \in K

Cached(s) == \E w : InShort(s, w)

\* Sample s has been drained from a short cache, or came from a peer.
Late(s) ==
    \/ InTask(s, Final)
    \/ \E w : InLong(s, w)
    \/ \E r, w : InRotated(s, r, w)
    \/ \E r : InAcc(s, r)
    \/ \E r : InOut(s, r)
    \/ InEgress(s) \/ InDiscarded(s)

ShareOK(s) ==
    /\ s \in Shared => /\ ~InFresh(s) /\ ~InTask(s, Local) /\ ~Cached(s) /\ ~InTask(s, Guest)
                       /\ s \notin Peer
    /\ s \in Peer => ~InTask(s, Local) /\ ~Cached(s)
    /\ InTask(s, Guest) => s \in Peer
    /\ Late(s) /\ snap.phase # "ended" => s \in Shared \cup Peer

\* The oneshot channels of a snapshot: one question is on its way to a worker
\* as long as its channel is open, and none once the loop is idle.
ChannelOK(w) ==
    /\ snapRx[w].st # "full" => snapRx[w].val = {}
    /\ snap.phase # "joining" => snapRx[w] = Closed
    /\ snap.phase # "ended" =>
           /\ w \in snap.toSend => snapRx[w].st = "open" /\ Queued(w, "TakeSnapshot") = {}
           /\ \A i, j \in Queued(w, "TakeSnapshot") : snapRx[w].st = "open" /\ i = j

ShareInv ==
    /\ \A s \in Sample : ShareOK(s)
    /\ \A w \in Worker : ChannelOK(w)
    /\ ReplicatedOnce

-----------------------------------------------------------------------------
(* How a step moves a sample. *)

\* A step does not take sample s back towards the text it came in.
Onward(s) ==
    /\ InFresh(s)' => InFresh(s)
    /\ InTask(s, Local)' => InTask(s, Local) \/ (InFresh(s) /\ s \notin Peer)
    /\ Cached(s)' => Cached(s) \/ InTask(s, Local)
    /\ InTask(s, Guest)' => InTask(s, Guest) \/ (InFresh(s) /\ s \in Peer)
    /\ Late(s)' => Late(s) \/ InTask(s, Guest)

\* A step that only moves samples onward keeps what is known of the snapshots.
LEMMA OnwardShares ==
  ASSUME NEW s \in Sample, ShareOK(s), Onward(s),
         s \in Shared' => s \in Shared,
         s \in Shared => s \in Shared' \/ snap'.phase = "ended",
         snap.phase = "ended" => snap'.phase = "ended"
  PROVE  ShareOK(s)'
BY Zenon DEF ShareOK, Onward

\* A task that is sent is the only one that is new in a queue.
LEMMA TaskSent ==
  ASSUME queue \in [Worker -> Seq(Task)], NEW w \in Worker, NEW t \in Task, NEW s, NEW K,
         queue' = Enqueue(w, t)
  PROVE  InTask(s, K)' => InTask(s, K) \/ (Carries(t, s) /\ t.kind \in K)
<1> SUFFICES ASSUME NEW v, NEW i, InQueue(s, v, i)', queue'[v][i].kind \in K
             PROVE  InTask(s, K) \/ (Carries(t, s) /\ t.kind \in K)
  BY Zenon DEF InTask
<1>1. InQueue(s, v, i) \/ (v = w /\ i = Len(queue[w]) + 1 /\ Carries(t, s))
  BY Zenon, Appended
<1>2. CASE InQueue(s, v, i)
  <2>1. v \in Worker /\ i \in DOMAIN queue[v] /\ queue[v] \in Seq(Task)
    BY Zenon, <1>2 DEF InQueue
  <2>2. queue'[v][i] = queue[v][i]
    BY <2>1 DEF Enqueue
  <2> QED
    BY Zenon, <1>2, <2>2 DEF InTask
<1>3. CASE v = w /\ i = Len(queue[w]) + 1 /\ Carries(t, s)
  <2>1. queue'[v][i] = t
    BY <1>3 DEF Enqueue
  <2> QED
    BY Zenon, <1>3, <2>1
<1> QED
  BY Zenon, <1>1, <1>2, <1>3

\* Taking a task brings none into a queue.
LEMMA TaskTaken ==
  ASSUME queue \in [Worker -> Seq(Task)], NEW w \in Worker, NEW kind, NEW s, NEW K, TakeTask(w, kind)
  PROVE  /\ InTask(s, K)' => InTask(s, K)
         /\ Carries(Head(queue[w]), s) /\ kind \in K => InTask(s, K)
<1>1. /\ \A i : InQueue(s, w, i)' <=> i \in Nat \ {0} /\ InQueue(s, w, i + 1)
      /\ \A v, i : v # w => (InQueue(s, v, i)' <=> InQueue(s, v, i))
      /\ InQueue(s, w, 1) <=> Carries(Head(queue[w]), s)
  BY Zenon, Popped
<1>2. queue[w] \in Seq(Task) /\ queue[w] # <<>> /\ Head(queue[w]).kind = kind
  BY Zenon DEF TakeTask
<1>3. /\ queue'[w] = Tail(queue[w]) /\ \A v \in Worker : v # w => queue'[v] = queue[v]
      /\ Head(queue[w]) = queue[w][1]
  BY <1>2 DEF TakeTask
<1>4. ASSUME NEW v, NEW i, InQueue(s, v, i)', queue'[v][i].kind \in K PROVE InTask(s, K)
  <2>1. CASE v = w
    <3>1. i \in Nat \ {0} /\ InQueue(s, w, i + 1)
      BY Zenon, <1>1, <1>4, <2>1
    <3>2. i + 1 \in DOMAIN queue[w]
      BY Zenon, <3>1 DEF InQueue
    <3>3. Tail(queue[w])[i] = queue[w][i + 1]
      BY <1>2, <3>1, <3>2
    <3> QED
      BY Zenon, <1>3, <1>4, <2>1, <3>1, <3>3 DEF InTask
  <2>2. CASE v # w
    <3>1. InQueue(s, v, i) /\ v \in Worker
      BY Zenon, <1>1, <1>4, <2>2 DEF InQueue
    <3> QED
      BY Zenon, <1>3, <1>4, <2>2, <3>1 DEF InTask
  <2> QED
    BY Zenon, <2>1, <2>2
<1>5. ASSUME Carries(Head(queue[w]), s), kind \in K PROVE InTask(s, K)
  BY Zenon, <1>1, <1>2, <1>3, <1>5 DEF InTask
<1> QED
  BY Zenon, <1>4, <1>5 DEF InTask

\* A step that touches neither queues nor caches of a worker.
LEMMA TasksUnmoved ==
  ASSUME NEW s
  PROVE  /\ UNCHANGED queue => \A K : InTask(s, K)' <=> InTask(s, K)
         /\ UNCHANGED short => (Cached(s)' <=> Cached(s))
BY Zenon DEF InTask, Cached, InQueue, InShort
-----------------------------------------------------------------------------
(* Arrivals. *)

\* Text brings samples of this node only.
LEMMA ReceiveTextOnward ==
  ASSUME TypeOK, ReceiveText, NEW s \in Sample
  PROVE  Onward(s)
<1>0. queue \in [Worker -> Seq(Task)]
  BY Zenon DEF TypeOK, RunnerTypeOK
<1>1. PICK p \in Route, d \in Data : SendParse(p[2], p[1], d) /\ UNCHANGED pipelineVars
  BY Zenon DEF ReceiveText
<1> DEFINE w == p[2]
           t == [kind |-> "Parse", addr |-> p[1], data |-> d]
<1>2. w \in Worker /\ t \in Task /\ t.kind = "Parse"
  BY Zenon, PipelineAssumption DEF Task
<1>3. Carries(t, s) => InFresh(s) /\ s \notin Peer
  <2>1. Carries(t, s) <=> \E i \in DOMAIN d : d[i] = EndOf(s)
    BY Zenon DEF Carries
  <2>2. EndOf(s).of = s
    BY Zenon DEF EndOf
  <2> QED
    BY Zenon, <1>1, <2>1, <2>2 DEF SendParse, InFresh
<1>4. UNCHANGED <<short, long, rotRx, out, round, egress, discarded>> /\ fresh' \subseteq fresh
  BY Zenon, <1>1 DEF SendParse, pipelineVars
<1>5. UNCHANGED queue \/ queue' = Enqueue(w, t)
  BY Zenon, <1>1 DEF SendParse
<1> HIDE DEF t, w
<1>6. \A K : InTask(s, K)' => InTask(s, K) \/ (Carries(t, s) /\ t.kind \in K)
  BY Zenon, <1>0, <1>2, <1>5, TaskSent, TasksUnmoved
<1>7. t.kind \notin Guest /\ t.kind \notin Final
  BY Zenon, <1>2 DEF Guest, Final
<1>8. InFresh(s)' => InFresh(s)
  BY Zenon, <1>4 DEF InFresh
<1> QED
  BY Zenon, <1>3, <1>4, <1>6, <1>7, <1>8, Unmoved, TasksUnmoved DEF Onward, Late

\* The peer server brings samples of peers in AddSnapshot and no other task.
LEMMA ReceiveMetricsOnward ==
  ASSUME TypeOK, ReceiveMetrics, NEW s \in Sample
  PROVE  Onward(s)
<1>0. queue \in [Worker -> Seq(Task)]
  BY Zenon DEF TypeOK, RunnerTypeOK
<1>1. PICK w \in Worker, l \in List, k \in {"AddMetric", "AddMetrics", "AddSnapshot"} :
          SendMetrics(w, k, l) /\ UNCHANGED pipelineVars
  BY Zenon DEF ReceiveMetrics
<1> DEFINE t == [kind |-> k, list |-> l]
<1>2. t \in Task /\ t.kind = k
  BY Zenon, PipelineAssumption DEF Task
<1>3. Carries(t, s) => InFresh(s) /\ (s \in Peer <=> t.kind = "AddSnapshot")
  <2>1. Carries(t, s) <=> \E i \in DOMAIN l : l[i] = s
    BY Zenon DEF Carries
  <2> QED
    BY Zenon, <1>1, <1>2, <2>1 DEF SendMetrics, InFresh
<1>4. UNCHANGED <<short, long, rotRx, out, round, egress, discarded>> /\ fresh' \subseteq fresh
  BY Zenon, <1>1 DEF SendMetrics, pipelineVars
<1>5. UNCHANGED queue \/ queue' = Enqueue(w, t)
  BY Zenon, <1>1 DEF SendMetrics
<1> HIDE DEF t
<1>6. \A K : InTask(s, K)' => InTask(s, K) \/ (Carries(t, s) /\ t.kind \in K)
  BY Zenon, <1>0, <1>2, <1>5, TaskSent, TasksUnmoved
<1>7. /\ t.kind \in Local => t.kind # "AddSnapshot"
      /\ t.kind \in Guest => t.kind = "AddSnapshot"
      /\ t.kind \notin Final
  BY Zenon, <1>2 DEF Local, Guest, Final
<1>8. InFresh(s)' => InFresh(s)
  BY Zenon, <1>4 DEF InFresh
<1> QED
  BY Zenon, <1>3, <1>4, <1>6, <1>7, <1>8, Unmoved, TasksUnmoved DEF Onward, Late

-----------------------------------------------------------------------------
(* Workers. *)

\* Parse takes metrics from the text of the task: what was kept ends no line.
LEMMA ParseOnward ==
  ASSUME TypeOK, TextInv, NEW w \in Worker, Work(w), RunParse(w), NEW s \in Sample
  PROVE  Onward(s)
<1> DEFINE t == Head(queue[w])
           kept == Kept(w, t.addr)
           buf == kept \o t.data
           A == Admitted(short[w], Parsed(buf))
<1>0. queue \in [Worker -> Seq(Task)] /\ short \in [Worker -> SUBSET Sample]
  BY Zenon DEF TypeOK, RunnerTypeOK
<1>1. TakeTask(w, "Parse")
  BY Zenon DEF RunParse
<1>2. t \in Task /\ t.kind = "Parse"
  BY Zenon, <1>0, <1>1, TakeTaskType
<1>3. t.addr \in Addr /\ t.data \in Seq(Piece) /\ kept \in Seq(Piece)
  BY Zenon, <1>2, TaskFields, KeptType DEF TypeOK
<1>4. \A i \in DOMAIN kept : kept[i].part = "head"
  BY Zenon, <1>3 DEF TextInv
<1>5. /\ short' = [short EXCEPT ![w] = @ \cup A]
      /\ UNCHANGED <<fresh, long, rotRx, out, round, egress, discarded>>
  BY Zenon DEF RunParse, Work, pipelineVars
<1>6. s \in A => Carries(t, s)
  <2>0. Carries(t, s) <=> \E j \in DOMAIN t.data : t.data[j] = EndOf(s)
    BY Zenon, <1>2 DEF Carries
  <2> SUFFICES ASSUME s \in A PROVE \E j \in DOMAIN t.data : t.data[j] = EndOf(s)
    BY Zenon, <2>0
  <2> DEFINE data == t.data
             n == Len(kept)
  <2> HIDE DEF kept
  <2>1. PICK i \in 1 .. Len(buf) : Parses(buf, i) /\ buf[i].of = s
    BY Zenon DEF Admitted, Parsed
  <2>2. /\ n \in Nat /\ Len(data) \in Nat /\ DOMAIN data = 1 .. Len(data) /\ DOMAIN kept = 1 .. n
        /\ Len(buf) = n + Len(data) /\ buf \in Seq(Piece)
        /\ i <= n => buf[i] = kept[i]
        /\ i > n => buf[i] = data[i - n]
    <3>1. kept \in Seq(Piece) /\ data \in Seq(Piece) /\ buf = kept \o data
      BY Zenon, <1>3
    <3> HIDE DEF data, buf
    <3> QED
      BY <2>1, <3>1
  <2>3. buf[i].part # "head"
    BY Zenon, <2>1 DEF Parses
  <2> HIDE DEF buf, data, n
  <2>4. buf[i] = EndOf(s)
    <3>1. buf[i] \in Piece
      BY <2>1, <2>2
    <3> QED
      BY Zenon, <2>1, <2>3, <3>1, PieceEnds
  <2>5. i > n
    BY <1>4, <2>1, <2>2, <2>3
  <2>6. i - n \in DOMAIN data /\ data[i - n] = EndOf(s)
    BY <2>1, <2>2, <2>4, <2>5
  <2> QED
    BY Zenon, <2>6 DEF data
<1> HIDE DEF buf, kept, A, t
<1>7. \A K : /\ InTask(s, K)' => InTask(s, K)
             /\ Carries(t, s) /\ "Parse" \in K => InTask(s, K)
  BY Zenon, <1>0, <1>1, TaskTaken DEF t
<1>8. Cached(s)' => Cached(s) \/ s \in A
  BY Zenon, <1>0, <1>5 DEF Cached, InShort
<1>9. "Parse" \in Local
  BY Zenon DEF Local
<1> QED
  BY Zenon, <1>5, <1>6, <1>7, <1>8, <1>9, Unmoved DEF Onward, Late

LEMMA AddMetricsOnward ==
  ASSUME TypeOK, NEW w \in Worker, Work(w), RunAddMetrics(w), NEW s \in Sample
  PROVE  Onward(s)
<1> DEFINE list == Head(queue[w]).list
           A == Admitted(short[w], list)
<1>0. queue \in [Worker -> Seq(Task)] /\ short \in [Worker -> SUBSET Sample]
  BY Zenon DEF TypeOK, RunnerTypeOK
<1>1. PICK kind \in {"AddMetric", "AddMetrics"} : TakeTask(w, kind)
  BY Zenon DEF RunAddMetrics
<1>2. Head(queue[w]) \in Task /\ Head(queue[w]).kind = kind
  BY Zenon, <1>0, <1>1, TakeTaskType
<1>3. s \in A => Carries(Head(queue[w]), s)
  BY Zenon, <1>1, <1>2 DEF Carries, Admitted
<1>4. /\ short' = [short EXCEPT ![w] = @ \cup A]
      /\ UNCHANGED <<fresh, long, rotRx, out, round, egress, discarded>>
  BY Zenon DEF RunAddMetrics, Work, pipelineVars
<1> HIDE DEF A, list
<1>5. \A K : /\ InTask(s, K)' => InTask(s, K)
             /\ Carries(Head(queue[w]), s) /\ kind \in K => InTask(s, K)
  BY Zenon, <1>0, <1>1, TaskTaken
<1>6. Cached(s)' => Cached(s) \/ s \in A
  BY Zenon, <1>0, <1>4 DEF Cached, InShort
<1>7. kind \in Local
  BY Zenon, <1>1 DEF Local
<1> QED
  BY Zenon, <1>3, <1>4, <1>5, <1>6, <1>7, Unmoved DEF Onward, Late

LEMMA AddSnapshotOnward ==
  ASSUME TypeOK, NEW w \in Worker, Work(w), RunAddSnapshot(w), NEW s \in Sample
  PROVE  Onward(s)
<1> DEFINE list == Head(queue[w]).list
           A == Admitted(long[w], list)
<1>0. queue \in [Worker -> Seq(Task)] /\ long \in [Worker -> SUBSET Sample]
  BY Zenon DEF TypeOK, RunnerTypeOK
<1>1. TakeTask(w, "AddSnapshot")
  BY Zenon DEF RunAddSnapshot
<1>2. Head(queue[w]) \in Task /\ Head(queue[w]).kind = "AddSnapshot"
  BY Zenon, <1>0, <1>1, TakeTaskType
<1>3. s \in A => Carries(Head(queue[w]), s)
  BY Zenon, <1>2 DEF Carries, Admitted
<1>4. /\ long' = [long EXCEPT ![w] = @ \cup A]
      /\ UNCHANGED <<fresh, short, rotRx, out, round, egress, discarded>>
  BY Zenon DEF RunAddSnapshot, Work, pipelineVars
<1> HIDE DEF A, list
<1>5. \A K : /\ InTask(s, K)' => InTask(s, K)
             /\ Carries(Head(queue[w]), s) /\ "AddSnapshot" \in K => InTask(s, K)
  BY Zenon, <1>0, <1>1, TaskTaken
<1>6. \A v : InLong(s, v)' => InLong(s, v) \/ s \in A
  BY Zenon, <1>0, <1>4 DEF InLong
<1>7. "AddSnapshot" \in Guest
  BY Zenon DEF Guest
<1> QED
  BY Zenon, <1>3, <1>4, <1>5, <1>6, <1>7, Unmoved, TasksUnmoved DEF Onward, Late

LEMMA RotateOnward ==
  ASSUME TypeOK, NEW w \in Worker, Work(w), RunRotate(w), NEW s \in Sample
  PROVE  Onward(s)
<1>0. /\ queue \in [Worker -> Seq(Task)] /\ long \in [Worker -> SUBSET Sample]
      /\ rotRx \in [Round -> [Worker -> Oneshot]]
  BY Zenon DEF TypeOK, RunnerTypeOK
<1>1. TakeTask(w, "Rotate")
  BY Zenon DEF RunRotate
<1>2. PICK q : q = Head(queue[w]).round
  BY Zenon
<1>3. /\ rotRx' = [rotRx EXCEPT ![q][w] = Reply(@, long[w])]
      /\ long' = [long EXCEPT ![w] = {}]
      /\ UNCHANGED <<fresh, short, out, round, egress, discarded>>
  BY Zenon, <1>2 DEF RunRotate, Work, pipelineVars
<1>4. \A K : InTask(s, K)' => InTask(s, K)
  BY Zenon, <1>0, <1>1, TaskTaken
<1>5. \A v : InLong(s, v)' => InLong(s, v)
  BY Zenon, <1>0, <1>3 DEF InLong
<1>6. \A r, v : InRotated(s, r, v)' => InRotated(s, r, v) \/ InLong(s, w)
  <2>1. ASSUME NEW r \in Round, NEW v \in Worker
        PROVE  rotRx'[r][v] = rotRx[r][v] \/ (v = w /\ rotRx'[r][v] = Reply(rotRx[r][v], long[w]))
    BY Zenon, <1>0, <1>3
  <2>2. \A rx : Reply(rx, long[w]).val = rx.val \/ Reply(rx, long[w]).val = long[w]
    BY Zenon DEF Reply, Full
  <2> QED
    BY <2>1, <2>2 DEF InRotated, InLong
<1> QED
  BY Zenon, <1>3, <1>4, <1>5, <1>6, Unmoved, TasksUnmoved DEF Onward, Late

LEMMA AggregateOnward ==
  ASSUME TypeOK, NEW w \in Worker, Work(w), RunAggregate(w), NEW s \in Sample
  PROVE  Onward(s)
<1>0. queue \in [Worker -> Seq(Task)] /\ out \in [Round -> SUBSET Sample]
  BY Zenon DEF TypeOK, RunnerTypeOK
<1>1. TakeTask(w, "Aggregate")
  BY Zenon DEF RunAggregate
<1>2. Head(queue[w]).kind = "Aggregate"
  BY Zenon, <1>0, <1>1, TakeTaskType
<1>3. PICK q, M : q = Head(queue[w]).round /\ M = Head(queue[w]).metric
  BY Zenon
<1>4. /\ out' = [out EXCEPT ![q] = @ \cup M]
      /\ UNCHANGED <<fresh, short, long, rotRx, round, egress, discarded>>
  BY Zenon, <1>3 DEF RunAggregate, Work, pipelineVars
<1>5. s \in M => Carries(Head(queue[w]), s)
  BY Zenon, <1>2, <1>3 DEF Carries
<1>6. \A K : /\ InTask(s, K)' => InTask(s, K)
             /\ Carries(Head(queue[w]), s) /\ "Aggregate" \in K => InTask(s, K)
  BY Zenon, <1>0, <1>1, TaskTaken
<1>7. \A r : InOut(s, r)' => InOut(s, r) \/ s \in M
  BY Zenon, <1>0, <1>4 DEF InOut
<1>8. "Aggregate" \in Final
  BY Zenon DEF Final
<1> QED
  BY Zenon, <1>4, <1>5, <1>6, <1>7, <1>8, Unmoved, TasksUnmoved DEF Onward, Late

\* A panic brings nothing anywhere but to the samples lost.
LEMMA DieOnward ==
  ASSUME TypeOK, NEW w \in Worker, Panic(w), NEW s \in Sample
  PROVE  Onward(s)
<1>0. /\ queue \in [Worker -> Seq(Task)] /\ long \in [Worker -> SUBSET Sample]
      /\ short \in [Worker -> SUBSET Sample] /\ rotRx \in [Round -> [Worker -> Oneshot]]
  BY Zenon DEF TypeOK, RunnerTypeOK
<1>1. /\ queue' = [queue EXCEPT ![w] = <<>>]
      /\ short' = [short EXCEPT ![w] = {}]
      /\ long' = [long EXCEPT ![w] = {}]
      /\ UNCHANGED <<fresh, out, round, egress, discarded>>
  BY Zenon DEF Panic, Die, pipelineVars
<1>2. \A v \in Worker : queue'[v] = queue[v] \/ queue'[v] = <<>>
  BY Zenon, <1>0, <1>1
<1>3. \A K : InTask(s, K)' => InTask(s, K)
  <2> SUFFICES ASSUME NEW K, NEW v, NEW i, InQueue(s, v, i)', queue'[v][i].kind \in K
               PROVE  InTask(s, K)
    BY Zenon DEF InTask
  <2>1. v \in Worker /\ i \in DOMAIN queue'[v] /\ Carries(queue'[v][i], s)
    BY Zenon DEF InQueue
  <2>2. queue'[v] = queue[v]
    BY <1>2, <2>1
  <2> QED
    BY Zenon, <2>1, <2>2 DEF InTask, InQueue
<1>4. /\ \A v : InLong(s, v)' => InLong(s, v)
      /\ \A v : InShort(s, v)' => InShort(s, v)
  BY Zenon, <1>0, <1>1 DEF InLong, InShort
<1>5. \A r, v : InRotated(s, r, v)' => InRotated(s, r, v)
  <2>1. ASSUME NEW r \in Round, NEW v \in Worker
        PROVE  rotRx'[r][v] = rotRx[r][v] \/ rotRx'[r][v] = Cancel(rotRx[r][v])
    BY Zenon, <1>0 DEF Panic, Die
  <2>2. \A rx : Cancel(rx).val = rx.val \/ Cancel(rx).val = {}
    BY Zenon DEF Cancel, Cancelled
  <2> QED
    BY SMTT(30), <2>1, <2>2 DEF InRotated
<1> QED
  BY Zenon, <1>1, <1>3, <1>4, <1>5, Unmoved DEF Onward, Late, Cached
-----------------------------------------------------------------------------
(* Carbon threads. *)

\* A carbon thread ends or goes on to its next phase.
LEMMA SumKept ==
  ASSUME round \in [Round -> RoundState], NEW r \in Round,
         round' = [round EXCEPT ![r] = FreeRound] \/ \E p : round' = [round EXCEPT ![r].phase = p]
  PROVE  \A q \in Round : round'[q].acc = round[q].acc \/ round'[q].acc = {}
<1>1. CASE round' = [round EXCEPT ![r] = FreeRound]
  BY Zenon, <1>1 DEF FreeRound
<1>2. ASSUME NEW p, round' = [round EXCEPT ![r].phase = p]
      PROVE  \A q \in Round : round'[q].acc = round[q].acc
  <2>1. [round[r] EXCEPT !.phase = p].acc = round[r].acc
    BY DEF RoundState
  <2> QED
    BY Zenon, <1>2, <2>1
<1> QED
  BY Zenon, <1>1, <1>2

\* A carbon thread takes samples from answers, accumulates, sends or discards
\* them, and brings none back to a worker but in an Aggregate task.
LEMMA CarbonOnward ==
  ASSUME TypeOK, NEW r \in Round, Carbon(r), NEW s \in Sample
  PROVE  Onward(s)
<1>0. /\ queue \in [Worker -> Seq(Task)] /\ round \in [Round -> RoundState]
      /\ rotRx \in [Round -> [Worker -> Oneshot]] /\ out \in [Round -> SUBSET Sample]
  BY Zenon DEF TypeOK, RunnerTypeOK
<1> DEFINE Answered == \E q, v : InRotated(s, q, v)
           Summed == \E q : InAcc(s, q)
           Output == \E q : InOut(s, q)
<1>1. ASSUME UNCHANGED <<fresh, short, long>>,
             \A K : InTask(s, K)' => InTask(s, K) \/ ("Aggregate" \in K /\ Summed),
             Answered' => Answered,
             Summed' => Summed \/ Answered,
             Output' => Output \/ Summed,
             InEgress(s)' => InEgress(s) \/ Output,
             InDiscarded(s)' => InDiscarded(s) \/ Summed \/ Answered
      PROVE  Onward(s)
  <2>1. "Aggregate" \notin Local /\ "Aggregate" \notin Guest
    BY Zenon DEF Local, Guest
  <2>2. Late(s) <=> \/ InTask(s, Final) \/ (\E w : InLong(s, w)) \/ Answered \/ Summed \/ Output
                    \/ InEgress(s) \/ InDiscarded(s)
    BY Zenon DEF Late
  <2>3. Late(s)' <=> \/ InTask(s, Final)' \/ (\E w : InLong(s, w)') \/ Answered' \/ Summed' \/ Output'
                     \/ InEgress(s)' \/ InDiscarded(s)'
    BY Zenon DEF Late
  <2> HIDE DEF Answered, Summed, Output
  <2> QED
    BY Zenon, <1>1, <2>1, <2>2, <2>3, Unmoved, TasksUnmoved DEF Onward
<1>2. UNCHANGED rotRx => (Answered' => Answered)
  BY Zenon DEF InRotated
<1>3. UNCHANGED out => (Output' => Output)
  BY Zenon DEF InOut
<1>4. UNCHANGED egress => (InEgress(s)' => InEgress(s))
  BY Zenon DEF InEgress
<1>5. UNCHANGED discarded => (InDiscarded(s)' => InDiscarded(s))
  BY Zenon DEF InDiscarded
<1>6. UNCHANGED queue => \A K : InTask(s, K)' => InTask(s, K)
  BY Zenon, TasksUnmoved
<1>7. (\A q \in Round : round'[q].acc = round[q].acc \/ round'[q].acc = {}) => (Summed' => Summed)
  BY Zenon DEF InAcc
<1>8. (\A q \in Round, v \in Worker : rotRx'[q][v].val = rotRx[q][v].val \/ rotRx'[q][v].val = {})
          => (Answered' => Answered)
  BY Zenon DEF InRotated
<1>9. CASE CarbonTick(r) \/ FinishFollower(r) \/ AggregateCommon(r)
  <2>1. UNCHANGED <<fresh, queue, short, long, rotRx, out, egress, discarded>>
    BY Zenon, <1>9 DEF CarbonTick, FinishFollower, AggregateCommon, runnerVars
  <2>2. \A q \in Round : round'[q].acc = round[q].acc \/ round'[q].acc = {}
    <3>1. round' = [round EXCEPT ![r] = FreeRound] \/ \E p : round' = [round EXCEPT ![r].phase = p]
      BY Zenon, <1>9 DEF CarbonTick, FinishFollower, AggregateCommon
    <3> QED
      BY Zenon, <1>0, <3>1, SumKept
  <2> HIDE DEF Answered, Summed, Output
  <2> QED
    BY Zenon, <1>1, <1>2, <1>3, <1>4, <1>5, <1>6, <1>7, <2>1, <2>2
<1>10. CASE StartRound(r)
  <2>1. UNCHANGED <<fresh, queue, short, long, out, egress, discarded>>
    BY Zenon, <1>10 DEF StartRound
  <2>2. \A q \in Round : round'[q].acc = round[q].acc \/ round'[q].acc = {}
    BY Zenon, <1>0, <1>10 DEF StartRound, RoundState
  <2>3. \A q \in Round, v \in Worker : rotRx'[q][v].val = rotRx[q][v].val \/ rotRx'[q][v].val = {}
    BY Zenon, <1>0, <1>10 DEF StartRound, Open
  <2> HIDE DEF Answered, Summed, Output
  <2> QED
    BY Zenon, <1>1, <1>3, <1>4, <1>5, <1>6, <1>7, <1>8, <2>1, <2>2, <2>3
<1>11. ASSUME NEW w \in Worker, SendRotate(r, w) PROVE Onward(s)
  <2> DEFINE t == [kind |-> "Rotate", round |-> r]
  <2>1. UNCHANGED <<fresh, short, long, out, egress, discarded>>
    BY Zenon, <1>11 DEF SendRotate
  <2>2. \A q \in Round : round'[q].acc = round[q].acc \/ round'[q].acc = {}
    BY Zenon, <1>0, <1>11 DEF SendRotate, RoundState
  <2>3. \A q \in Round, v \in Worker : rotRx'[q][v].val = rotRx[q][v].val \/ rotRx'[q][v].val = {}
    <3>1. UNCHANGED rotRx \/ rotRx' = [rotRx EXCEPT ![r][w] = Cancel(rotRx[r][w])]
      BY Zenon, <1>11 DEF SendRotate
    <3>2. Cancel(rotRx[r][w]).val = rotRx[r][w].val \/ Cancel(rotRx[r][w]).val = {}
      BY Zenon DEF Cancel, Cancelled
    <3>3. \A q \in Round, v \in Worker :
              rotRx'[q][v] = rotRx[q][v] \/ (q = r /\ v = w /\ rotRx'[q][v] = Cancel(rotRx[r][w]))
      BY <1>0, <3>1
    <3> QED
      BY Zenon, <3>2, <3>3
  <2>4. t \in Task /\ ~Carries(t, s) /\ (UNCHANGED queue \/ queue' = Enqueue(w, t))
    BY Zenon, <1>11 DEF SendRotate, Task, Carries
  <2>5. \A K : InTask(s, K)' => InTask(s, K)
    <3> HIDE DEF t
    <3> QED
      BY Zenon, <1>0, <2>4, TaskSent, TasksUnmoved
  <2> HIDE DEF Answered, Summed, Output
  <2> QED
    BY ZenonT(30), <1>1, <1>3, <1>4, <1>5, <1>7, <1>8, <2>1, <2>2, <2>3, <2>5
<1>12. ASSUME NEW w \in Worker, Fold(r, w) PROVE Onward(s)
  <2>1. UNCHANGED <<fresh, queue, short, long, out, egress>>
    BY Zenon, <1>12 DEF Fold
  <2>2. \A q \in Round, v \in Worker : rotRx'[q][v].val = rotRx[q][v].val \/ rotRx'[q][v].val = {}
    BY Zenon, <1>0, <1>12 DEF Fold, Closed
  <2>3. \A q \in Round : round'[q].acc \subseteq round[q].acc \cup rotRx[r][w].val
    <3>1. \/ round' = [round EXCEPT ![r].toFold = @ \ {w}]
          \/ round' = [round EXCEPT ![r].toFold = @ \ {w},
                                    ![r].acc = @ \cup Merge(@, rotRx[r][w].val)]
      BY Zenon, <1>12 DEF Fold
    <3>2. Merge(round[r].acc, rotRx[r][w].val) \subseteq rotRx[r][w].val
      BY Zenon DEF Merge
    <3>3. /\ [round[r] EXCEPT !.toFold = @ \ {w}].acc = round[r].acc
          /\ \A S : [round[r] EXCEPT !.toFold = @ \ {w}, !.acc = S].acc = S
      BY Zenon, <1>0 DEF RoundState
    <3>4. \A q \in Round : round'[q] = round[q] \/ (q = r /\ round'[q].acc = round[r].acc)
              \/ (q = r /\ round'[q].acc = round[r].acc \cup Merge(round[r].acc, rotRx[r][w].val))
      BY Zenon, <1>0, <3>1, <3>3
    <3> QED
      BY Zenon, <3>2, <3>4
  <2>4. discarded' \subseteq discarded \cup rotRx[r][w].val
    BY Zenon, <1>12 DEF Fold
  <2>5. s \in rotRx[r][w].val => Answered
    BY Zenon DEF InRotated
  <2>6. Summed' => Summed \/ s \in rotRx[r][w].val
    BY Zenon, <2>3 DEF InAcc
  <2>7. InDiscarded(s)' => InDiscarded(s) \/ s \in rotRx[r][w].val
    BY Zenon, <2>4 DEF InDiscarded
  <2> HIDE DEF Answered, Summed, Output
  <2> QED
    BY Zenon, <1>1, <1>3, <1>4, <1>6, <1>8, <2>1, <2>2, <2>5, <2>6, <2>7
<1>13. CASE AbortRound(r)
  <2> DEFINE held == round[r].acc \cup UNION {rotRx[r][w].val : w \in Worker}
  <2>1. UNCHANGED <<fresh, queue, short, long, out, egress>>
    BY Zenon, <1>13 DEF AbortRound
  <2>2. \A q \in Round, v \in Worker : rotRx'[q][v].val = rotRx[q][v].val \/ rotRx'[q][v].val = {}
    BY Zenon, <1>0, <1>13 DEF AbortRound, Closed
  <2>3. \A q \in Round : round'[q].acc = round[q].acc \/ round'[q].acc = {}
    BY Zenon, <1>0, <1>13 DEF AbortRound, FreeRound
  <2>4. s \in held => Summed \/ Answered
    BY Zenon DEF InAcc, InRotated
  <2>5. discarded' = discarded \/ discarded' = discarded \cup held
    BY Zenon, <1>13 DEF AbortRound
  <2>6. InDiscarded(s)' => InDiscarded(s) \/ s \in held
    BY Zenon, <2>5 DEF InDiscarded
  <2> HIDE DEF Answered, Summed, Output, held
  <2> QED
    BY ZenonT(30), <1>1, <1>3, <1>4, <1>6, <1>7, <1>8, <2>1, <2>2, <2>3, <2>4, <2>6
<1>14. CASE AggregateSingle(r)
  <2>1. UNCHANGED <<fresh, queue, short, long, rotRx, egress, discarded>>
    BY Zenon, <1>14 DEF AggregateSingle
  <2>2. \A q \in Round : round'[q].acc = round[q].acc \/ round'[q].acc = {}
    BY Zenon, <1>0, <1>14 DEF AggregateSingle, RoundState
  <2>3. \A q \in Round : out'[q] \subseteq out[q] \cup round[r].acc
    BY Zenon, <1>0, <1>14 DEF AggregateSingle
  <2>4. Output' => Output \/ Summed
    BY Zenon, <2>3 DEF InOut, InAcc
  <2> HIDE DEF Answered, Summed, Output
  <2> QED
    BY Zenon, <1>1, <1>2, <1>4, <1>5, <1>6, <1>7, <2>1, <2>2, <2>4
<1>15. CASE AggregateSeparate(r)
  <2>1. UNCHANGED <<fresh, queue, short, long, rotRx, out, egress, discarded>>
    BY Zenon, <1>15 DEF AggregateSeparate
  <2>2. \A q \in Round : round'[q].acc = round[q].acc \/ round'[q].acc = {}
    <3>1. round' = [round EXCEPT ![r] = FreeRound] \/ \E p : round' = [round EXCEPT ![r].phase = p]
      BY Zenon, <1>15 DEF AggregateSeparate
    <3> QED
      BY Zenon, <1>0, <3>1, SumKept
  <2> HIDE DEF Answered, Summed, Output
  <2> QED
    BY Zenon, <1>1, <1>2, <1>3, <1>4, <1>5, <1>6, <1>7, <2>1, <2>2
<1>16. ASSUME NEW u \in Sample, SendAggregate(r, u) PROVE Onward(s)
  <2> DEFINE M == {m \in round[r].acc : SameName(u, m)}
             t == [kind |-> "Aggregate", round |-> r, metric |-> M]
  <2>1. UNCHANGED <<fresh, short, long, rotRx, out, egress, discarded>>
    BY Zenon, <1>16 DEF SendAggregate
  <2>2. round[r].acc \subseteq Sample /\ round[r].num \in Nat
    BY Zenon, <1>0 DEF RoundState
  <2>3. PICK w : w = round[r].num % W
    BY Zenon
  <2>4. w \in Worker
    BY <2>2, <2>3, ConstantsAssumption DEF Worker
  <2>5. t \in Task /\ t.kind = "Aggregate" /\ (Carries(t, s) => s \in M)
    BY Zenon, <2>2 DEF Task, Carries
  <2>6. UNCHANGED queue \/ queue' = Enqueue(w, t)
    BY Zenon, <1>16, <2>3 DEF SendAggregate
  <2>7. s \in M => Summed
    BY Zenon DEF InAcc
  <2>8. Summed' => Summed
    <3>1. \A q \in Round : round'[q].acc \subseteq round[q].acc
      BY Zenon, <1>0, <1>16 DEF SendAggregate, RoundState
    <3> QED
      BY Zenon, <3>1 DEF InAcc
  <2> HIDE DEF M, t, Answered, Summed, Output
  <2>9. \A K : InTask(s, K)' => InTask(s, K) \/ ("Aggregate" \in K /\ Summed)
    <3>1. CASE UNCHANGED queue
      BY Zenon, <3>1, TasksUnmoved
    <3>2. CASE queue' = Enqueue(w, t)
      <4>1. \A K : InTask(s, K)' => InTask(s, K) \/ (Carries(t, s) /\ t.kind \in K)
        BY Zenon, <1>0, <2>4, <2>5, <3>2, TaskSent
      <4> QED
        BY Zenon, <2>5, <2>7, <4>1
    <3> QED
      BY Zenon, <2>6, <3>1, <3>2
  <2> QED
    BY Zenon, <1>1, <1>2, <1>3, <1>4, <1>5, <2>1, <2>8, <2>9
<1>17. CASE Collect(r)
  <2>1. UNCHANGED <<fresh, queue, short, long, rotRx, discarded>>
    BY Zenon, <1>17 DEF Collect
  <2>2. \A q \in Round : round'[q].acc = round[q].acc \/ round'[q].acc = {}
    BY Zenon, <1>0, <1>17 DEF Collect, FreeRound
  <2>3. Output' => Output
    <3>1. \A q \in Round : out'[q] \subseteq out[q]
      BY Zenon, <1>0, <1>17 DEF Collect
    <3> QED
      BY Zenon, <3>1 DEF InOut
  <2>4. InEgress(s)' => InEgress(s) \/ Output
    BY Zenon, <1>17 DEF Collect, InEgress, InOut
  <2> HIDE DEF Answered, Summed, Output
  <2> QED
    BY Zenon, <1>1, <1>2, <1>5, <1>6, <1>7, <2>1, <2>2, <2>3, <2>4
<1> QED
  BY ZenonT(30), <1>9, <1>10, <1>11, <1>12, <1>13, <1>14, <1>15, <1>16, <1>17 DEF Carbon

-----------------------------------------------------------------------------
(* Snapshots. *)

\* The snapshot sender moves no sample.
LEMMA SnapshotOnward ==
  ASSUME TypeOK, Snapshot, NEW s \in Sample
  PROVE  Onward(s)
<1>0. queue \in [Worker -> Seq(Task)]
  BY Zenon DEF TypeOK, RunnerTypeOK
<1>1. UNCHANGED <<fresh, short, long, rotRx, out, round, egress, discarded>>
  BY Zenon DEF Snapshot, SnapTick, SnapJoin, SnapFail, SendTakeSnapshot
<1>2. UNCHANGED queue \/ \E w \in Worker : queue' = Enqueue(w, [kind |-> "TakeSnapshot"])
  BY Zenon DEF Snapshot, SnapTick, SnapJoin, SnapFail, SendTakeSnapshot
<1>3. \A K : InTask(s, K)' => InTask(s, K)
  <2>1. ASSUME NEW w \in Worker, queue' = Enqueue(w, [kind |-> "TakeSnapshot"]), NEW K
        PROVE  InTask(s, K)' => InTask(s, K)
    <3> DEFINE t == [kind |-> "TakeSnapshot"]
    <3>1. t \in Task /\ ~Carries(t, s)
      BY Zenon DEF Task, Carries
    <3>2. queue' = Enqueue(w, t)
      BY Zenon, <2>1
    <3> HIDE DEF t
    <3> QED
      BY Zenon, <1>0, <3>1, <3>2, TaskSent
  <2> QED
    BY Zenon, <1>2, <2>1, TasksUnmoved
<1> QED
  BY Zenon, <1>1, <1>3, Unmoved, TasksUnmoved DEF Onward, Late

\* Everything a worker does but TakeSnapshot.
LEMMA WorkOnward ==
  ASSUME TypeOK, TextInv, NEW w \in Worker, Work(w), ~RunTakeSnapshot(w), NEW s \in Sample
  PROVE  Onward(s)
BY Zenon, ParseOnward, AddMetricsOnward, AddSnapshotOnward, RotateOnward, AggregateOnward DEF Work, Run
-----------------------------------------------------------------------------
(* The channels of a snapshot. *)

\* A task that is sent is a new question only if it is TakeSnapshot.
LEMMA AskedSent ==
  ASSUME queue \in [Worker -> Seq(Task)], NEW w \in Worker, NEW t \in Task, queue' = Enqueue(w, t),
         NEW v \in Worker
  PROVE  /\ v # w \/ t.kind # "TakeSnapshot" => Queued(v, "TakeSnapshot")' = Queued(v, "TakeSnapshot")
         /\ \A i \in Queued(v, "TakeSnapshot")' : i \in Queued(v, "TakeSnapshot") \/ i = Len(queue[w]) + 1
<1>1. queue[v] \in Seq(Task) /\ queue[w] \in Seq(Task)
  BY Zenon
<1>2. CASE v # w
  <2>1. queue'[v] = queue[v]
    BY Zenon, <1>2 DEF Enqueue
  <2> QED
    BY Zenon, <1>2, <2>1 DEF Queued
<1>3. CASE v = w
  <2>1. /\ queue'[v] = Append(queue[w], t)
        /\ DOMAIN queue[v] = 1 .. Len(queue[w]) /\ DOMAIN queue'[v] = 1 .. Len(queue[w]) + 1
        /\ \A i \in 1 .. Len(queue[w]) : queue'[v][i] = queue[v][i]
        /\ queue'[v][Len(queue[w]) + 1] = t
        /\ Len(queue[w]) \in Nat
    BY <1>1, <1>3 DEF Enqueue
  <2> QED
    BY <1>3, <2>1 DEF Queued
<1> QED
  BY Zenon, <1>2, <1>3

\* The questions left in a queue move forward with the other tasks.
LEMMA AskedTaken ==
  ASSUME queue \in [Worker -> Seq(Task)], NEW w \in Worker, NEW kind, TakeTask(w, kind)
  PROVE  /\ \A v \in Worker : v # w => Queued(v, "TakeSnapshot")' = Queued(v, "TakeSnapshot")
         /\ \A i \in Queued(w, "TakeSnapshot")' : i \in Nat \ {0} /\ i + 1 \in Queued(w, "TakeSnapshot")
         /\ kind = "TakeSnapshot" => 1 \in Queued(w, "TakeSnapshot")
<1>1. /\ queue' = [queue EXCEPT ![w] = Tail(queue[w])]
      /\ queue[w] \in Seq(Task) /\ queue[w] # <<>> /\ Head(queue[w]).kind = kind
  BY Zenon DEF TakeTask
<1>2. /\ Len(queue[w]) \in Nat \ {0}
      /\ DOMAIN queue[w] = 1 .. Len(queue[w])
      /\ Head(queue[w]) = queue[w][1]
      /\ DOMAIN Tail(queue[w]) = 1 .. Len(queue[w]) - 1
      /\ \A i \in 1 .. Len(queue[w]) - 1 : Tail(queue[w])[i] = queue[w][i + 1]
  BY <1>1
<1>3. queue'[w] = Tail(queue[w]) /\ \A v \in Worker : v # w => queue'[v] = queue[v]
  BY Zenon, <1>1
<1>4. \A v \in Worker : v # w => Queued(v, "TakeSnapshot")' = Queued(v, "TakeSnapshot")
  BY Zenon, <1>3 DEF Queued
<1>5. ASSUME NEW i \in Queued(w, "TakeSnapshot")'
      PROVE  i \in Nat \ {0} /\ i + 1 \in Queued(w, "TakeSnapshot")
  BY <1>2, <1>3 DEF Queued
<1>6. kind = "TakeSnapshot" => 1 \in Queued(w, "TakeSnapshot")
  BY <1>1, <1>2 DEF Queued
<1> QED
  BY Zenon, <1>4, <1>5, <1>6

\* The channel of a worker no step asks or answers.
LEMMA ChannelKept ==
  ASSUME NEW v \in Worker, ChannelOK(v), UNCHANGED snap, snapRx'[v] = snapRx[v],
         \/ Queued(v, "TakeSnapshot")' = Queued(v, "TakeSnapshot")
         \/ \A i \in Queued(v, "TakeSnapshot")' : i \in Nat /\ i + 1 \in Queued(v, "TakeSnapshot")
  PROVE  ChannelOK(v)'
<1> DEFINE Q == Queued(v, "TakeSnapshot")
           R == Queued(v, "TakeSnapshot")'
<1>1. /\ Q = {} => R = {}
      /\ (\A i, j \in Q : i = j) => \A i, j \in R : i = j
      /\ (Q # {}) \/ R = {}
  BY DEF Q, R
<1>2. (\A i, j \in Q : snapRx[v].st = "open" /\ i = j) => \A i, j \in R : snapRx'[v].st = "open" /\ i = j
  BY Zenon, <1>1
<1> HIDE DEF Q, R
<1>3. /\ snapRx'[v].st # "full" => snapRx'[v].val = {}
      /\ snap'.phase # "joining" => snapRx'[v] = Closed
  BY Zenon DEF ChannelOK
<1>4. ASSUME snap'.phase # "ended"
      PROVE  /\ v \in snap'.toSend => snapRx'[v].st = "open" /\ R = {}
             /\ \A i, j \in R : snapRx'[v].st = "open" /\ i = j
  BY Zenon, <1>1, <1>2, <1>4 DEF ChannelOK, Q
<1> QED
  BY Zenon, <1>3, <1>4 DEF ChannelOK, R

\* Steps that have nothing to do with the snapshot.
LEMMA QuietChannels ==
  ASSUME TypeOK, \A v \in Worker : ChannelOK(v), UNCHANGED <<snap, snapRx>>,
         \/ UNCHANGED queue
         \/ \E w \in Worker, t \in Task : queue' = Enqueue(w, t) /\ t.kind # "TakeSnapshot"
         \/ \E w \in Worker : \E kind : TakeTask(w, kind)
  PROVE  \A v \in Worker : ChannelOK(v)'
<1>0. queue \in [Worker -> Seq(Task)]
  BY Zenon DEF TypeOK, RunnerTypeOK
<1>1. ASSUME UNCHANGED queue, NEW v \in Worker PROVE ChannelOK(v)'
  <2>1. Queued(v, "TakeSnapshot")' = Queued(v, "TakeSnapshot")
    BY Zenon, <1>1 DEF Queued
  <2>2. ChannelOK(v) /\ UNCHANGED snap /\ snapRx'[v] = snapRx[v]
    BY Zenon
  <2> QED
    BY Zenon, <2>1, <2>2, ChannelKept
<1>2. ASSUME NEW w \in Worker, NEW t \in Task, queue' = Enqueue(w, t), t.kind # "TakeSnapshot",
             NEW v \in Worker
      PROVE  ChannelOK(v)'
  BY Zenon, <1>0, <1>2, AskedSent, ChannelKept
<1>3. ASSUME NEW w \in Worker, NEW kind, TakeTask(w, kind), NEW v \in Worker PROVE ChannelOK(v)'
  <2>1. CASE v # w
    BY Zenon, <1>0, <1>3, <2>1, AskedTaken, ChannelKept
  <2>2. CASE v = w
    BY Zenon, <1>0, <1>3, <2>2, AskedTaken, ChannelKept
  <2> QED
    BY Zenon, <2>1, <2>2
<1> QED
  BY Zenon, <1>1, <1>2, <1>3

\* The part of a worker in the snapshot stays or is taken over by `replicated'.
LEMMA PartsKept ==
  ASSUME ReplicatedOnce,
         \A v \in Worker : snapRx'[v].val = snapRx[v].val \/ snapRx'[v].val = {},
         UNCHANGED replicated \/ \A v \in Worker : snapRx'[v].val = {}
  PROVE  ReplicatedOnce'
BY Zenon DEF ReplicatedOnce
-----------------------------------------------------------------------------
(* The invariant. *)

\* What the step of TakeSnapshot adds to the snapshot: all of the short cache
\* as long as the snapshot sender runs, and nothing afterwards.
LEMMA Answer ==
  ASSUME TypeOK, ShareInv, NEW w \in Worker, RunTakeSnapshot(w)
  PROVE  \/ snap.phase = "ended" /\ UNCHANGED snapRx
         \/ /\ snap.phase = "joining" /\ snapRx[w] = Open
            /\ snapRx' = [snapRx EXCEPT ![w] = Full(short[w])]
            /\ w \notin snap.toSend /\ Queued(w, "TakeSnapshot")' = {}
<1>0. /\ queue \in [Worker -> Seq(Task)] /\ snapRx \in [Worker -> Oneshot] /\ ChannelOK(w)
      /\ snap.phase \in {"idle", "joining", "ended"}
  BY Zenon DEF TypeOK, RunnerTypeOK, ShareInv
<1>1. TakeTask(w, "TakeSnapshot") /\ snapRx' = [snapRx EXCEPT ![w] = Reply(snapRx[w], short[w])]
  BY Zenon DEF RunTakeSnapshot
<1>2. /\ 1 \in Queued(w, "TakeSnapshot")
      /\ \A i \in Queued(w, "TakeSnapshot")' : i \in Nat \ {0} /\ i + 1 \in Queued(w, "TakeSnapshot")
  BY Zenon, <1>0, <1>1, AskedTaken
<1>3. CASE snap.phase = "ended"
  <2>1. Reply(snapRx[w], short[w]) = snapRx[w]
    BY <1>0, <1>3 DEF ChannelOK, Closed, Reply
  <2> QED
    BY Zenon, <1>0, <1>1, <1>3, <2>1
<1>4. CASE snap.phase # "ended"
  <2>1. /\ snapRx[w].st = "open" /\ w \notin snap.toSend
        /\ \A i \in Queued(w, "TakeSnapshot") : i = 1
    BY Zenon, <1>0, <1>2, <1>4 DEF ChannelOK
  <2>2. snapRx[w] = Open /\ snap.phase = "joining"
    BY <1>0, <1>4, <2>1 DEF ChannelOK, Closed, Open, Oneshot
  <2>3. Reply(snapRx[w], short[w]) = Full(short[w])
    BY Zenon, <2>1 DEF Reply
  <2>4. Queued(w, "TakeSnapshot")' = {}
    BY <1>2, <2>1
  <2> QED
    BY Zenon, <1>1, <2>1, <2>2, <2>3, <2>4
<1> QED
  BY Zenon, <1>3, <1>4

\* The snapshots after that step.
LEMMA AnswerShared ==
  ASSUME TypeOK, ShareInv, NEW w \in Worker, Work(w), RunTakeSnapshot(w)
  PROVE  IF snap.phase = "ended" THEN Shared' = Shared ELSE Shared' = Shared \cup short[w]
<1>0. UNCHANGED <<snap, replicated>> /\ snapRx \in [Worker -> Oneshot]
  BY Zenon DEF Work, pipelineVars, TypeOK, RunnerTypeOK
<1>1. CASE snap.phase = "ended"
  <2>1. UNCHANGED snapRx
    BY Zenon, <1>1, Answer
  <2> QED
    BY Zenon, <1>0, <1>1, <2>1 DEF Shared
<1>2. CASE snap.phase # "ended"
  <2>1. snapRx[w] = Open /\ snapRx' = [snapRx EXCEPT ![w] = Full(short[w])]
    BY Zenon, <1>2, Answer
  <2>2. /\ snapRx[w].val = {} /\ snapRx'[w].val = short[w]
        /\ \A v \in Worker : v # w => snapRx'[v].val = snapRx[v].val
    BY <1>0, <2>1 DEF Open, Full
  <2>3. UNION {snapRx'[v].val : v \in Worker} = (UNION {snapRx[v].val : v \in Worker}) \cup short[w]
    BY Zenon, <2>2
  <2>4. Shared' = Shared \cup short[w]
    BY Zenon, <1>0, <2>3 DEF Shared
  <2> QED
    BY Zenon, <1>2, <2>4
<1> QED
  BY Zenon, <1>1, <1>2

LEMMA TakeSnapshotShares ==
  ASSUME TypeOK, AllOnce, ShareInv, NEW w \in Worker, Work(w), RunTakeSnapshot(w)
  PROVE  ShareInv'
<1>0. /\ queue \in [Worker -> Seq(Task)] /\ snapRx \in [Worker -> Oneshot]
      /\ short \in [Worker -> SUBSET Sample] /\ long \in [Worker -> SUBSET Sample]
      /\ snap.phase \in {"idle", "joining", "ended"}
  BY Zenon DEF TypeOK, RunnerTypeOK
<1>1. /\ TakeTask(w, "TakeSnapshot")
      /\ long' = [long EXCEPT ![w] = long[w] \cup Merge(long[w], short[w])]
      /\ short' = [short EXCEPT ![w] = {}]
      /\ UNCHANGED <<fresh, rotRx, out, round, egress, discarded, snap, replicated>>
  BY Zenon DEF RunTakeSnapshot, Work, pipelineVars
<1>2. ASSUME NEW s \in Sample PROVE ShareOK(s)'
  <2>0. ShareOK(s) /\ Once(s)
    BY Zenon DEF ShareInv, AllOnce
  <2>1. \A K : InTask(s, K)' => InTask(s, K)
    BY Zenon, <1>0, <1>1, TaskTaken
  <2>2. /\ Cached(s)' => Cached(s) /\ s \notin short[w]
        /\ s \in short[w] => InShort(s, w) /\ Cached(s)
    <3>1. s \in short[w] => InShort(s, w)
      BY Zenon DEF InShort
    <3>2. ASSUME NEW v, InShort(s, v)' PROVE InShort(s, v) /\ v # w
      BY Zenon, <1>0, <1>1, <3>2 DEF InShort
    <3>3. ASSUME s \in short[w], NEW v, InShort(s, v) PROVE v = w
      <4>1. OnlyAt(s, "short", w, 0)
        BY Zenon, <2>0, <3>1, <3>3, OnlyHere DEF At
      <4> QED
        BY Zenon, <3>3, <4>1 DEF OnlyAt, Alone
    <3> QED
      BY Zenon, <3>1, <3>2, <3>3 DEF Cached
  <2>3. Late(s)' => Late(s) \/ s \in short[w]
    <3>1. \A v : InLong(s, v)' => InLong(s, v) \/ s \in short[w]
      BY Zenon, <1>0, <1>1 DEF InLong, Merge
    <3> QED
      BY Zenon, <1>1, <2>1, <3>1, Unmoved DEF Late
  <2>4. InFresh(s)' <=> InFresh(s)
    BY Zenon, <1>1, Unmoved
  <2>5. CASE s \notin short[w]
    <3>1. s \in Shared' <=> s \in Shared
      BY Zenon, <2>5, AnswerShared
    <3> QED
      BY Zenon, <1>1, <2>0, <2>1, <2>2, <2>3, <2>4, <2>5, <3>1, OnwardShares DEF Onward
  <2>6. CASE s \in short[w] /\ snap.phase = "ended"
    <3>1. s \notin Shared'
      BY Zenon, <2>0, <2>2, <2>6, AnswerShared DEF ShareOK
    <3> QED
      BY ZenonT(30), <1>1, <2>0, <2>1, <2>2, <2>6, <3>1 DEF ShareOK
  <2>7. CASE s \in short[w] /\ snap.phase # "ended"
    <3>1. s \in Shared' /\ s \notin Peer
      BY Zenon, <2>0, <2>2, <2>7, AnswerShared DEF ShareOK
    <3>2. OnlyAt(s, "short", w, 0)
      BY Zenon, <2>0, <2>2, <2>7, OnlyHere DEF At
    <3>3. ~InFresh(s) /\ \A v, i : ~InQueue(s, v, i)
      BY Zenon, <3>2 DEF OnlyAt, Alone
    <3>4. \A K : ~InTask(s, K)
      BY Zenon, <3>3 DEF InTask
    <3> QED
      BY ZenonT(30), <2>1, <2>2, <2>4, <2>7, <3>1, <3>3, <3>4 DEF ShareOK
  <2> QED
    BY Zenon, <2>5, <2>6, <2>7
<1>3. ASSUME NEW v \in Worker PROVE ChannelOK(v)'
  <2>0. ChannelOK(v)
    BY Zenon DEF ShareInv
  <2>1. CASE snap.phase = "ended"
    <3>1. UNCHANGED snapRx
      BY Zenon, <2>1, Answer
    <3> QED
      BY Zenon, <1>1, <2>0, <2>1, <3>1 DEF ChannelOK
  <2>2. CASE snap.phase # "ended" /\ v = w
    <3>1. /\ snap.phase = "joining" /\ snapRx' = [snapRx EXCEPT ![w] = Full(short[w])]
          /\ w \notin snap.toSend /\ Queued(w, "TakeSnapshot")' = {}
      BY Zenon, <2>2, Answer
    <3>2. snapRx'[v].st = "full"
      BY Zenon, <1>0, <2>2, <3>1 DEF Full
    <3> QED
      BY Zenon, <1>1, <2>2, <3>1, <3>2 DEF ChannelOK
  <2>3. CASE snap.phase # "ended" /\ v # w
    <3>1. snapRx'[v] = snapRx[v]
      BY Zenon, <1>0, <2>3, Answer
    <3> QED
      BY SMTT(20), <1>0, <1>1, <2>0, <2>3, <3>1, AskedTaken, ChannelKept
  <2> QED
    BY Zenon, <2>1, <2>2, <2>3
<1>4. ReplicatedOnce'
  <2>0. ReplicatedOnce
    BY Zenon DEF ShareInv
  <2>1. CASE snap.phase = "ended"
    <3>1. UNCHANGED <<snapRx, replicated>>
      BY Zenon, <1>1, <2>1, Answer
    <3> QED
      BY Zenon, <2>0, <3>1, PartsKept
  <2>2. CASE snap.phase # "ended"
    <3>1. snapRx' = [snapRx EXCEPT ![w] = Full(short[w])]
      BY Zenon, <2>2, Answer
    <3>2. snapRx'[w].val = short[w] /\ \A v \in Worker : v # w => snapRx'[v].val = snapRx[v].val
      BY Zenon, <1>0, <3>1 DEF Full
    <3>3. \A s \in short[w] : s \notin Peer /\ s \notin replicated /\ \A v \in Worker : s \notin snapRx[v].val
      <4> SUFFICES ASSUME NEW s \in short[w] PROVE s \notin Peer /\ s \notin Shared
        BY Zenon DEF Shared
      <4>1. Cached(s) /\ s \in Sample
        BY Zenon, <1>0 DEF Cached, InShort
      <4> QED
        BY Zenon, <4>1 DEF ShareInv, ShareOK
    <3> QED
      BY SMTT(30), <1>1, <2>0, <3>2, <3>3 DEF ReplicatedOnce
  <2> QED
    BY Zenon, <2>1, <2>2
<1> QED
  BY Zenon, <1>2, <1>3, <1>4 DEF ShareInv

\* A panic cancels the question in the queue of the worker, and no answer.
LEMMA DieShares ==
  ASSUME TypeOK, ShareInv, NEW w \in Worker, Panic(w)
  PROVE  ShareInv' /\ Shared' = Shared
<1>0. /\ queue \in [Worker -> Seq(Task)] /\ snapRx \in [Worker -> Oneshot]
      /\ \A v \in Worker : ChannelOK(v)
      /\ UNCHANGED <<snap, replicated>>
  BY Zenon DEF TypeOK, RunnerTypeOK, ShareInv, Panic, pipelineVars
<1>1. /\ queue' = [queue EXCEPT ![w] = <<>>]
      /\ snapRx' = [snapRx EXCEPT ![w] = IF Queued(w, "TakeSnapshot") # {} THEN Cancel(snapRx[w]) ELSE snapRx[w]]
  BY Zenon DEF Panic, Die
<1>2. ASSUME NEW v \in Worker PROVE snapRx'[v].val = snapRx[v].val
  <2>1. Cancel(snapRx[v]).val = snapRx[v].val
    BY Zenon, <1>0 DEF ChannelOK, Cancel, Cancelled
  <2> QED
    BY Zenon, <1>0, <1>1, <2>1
<1>3. Shared' = Shared
  <2>1. {snapRx'[v].val : v \in Worker} = {snapRx[v].val : v \in Worker}
    BY Zenon, <1>2
  <2> QED
    BY Zenon, <1>0, <2>1 DEF Shared
<1>4. ASSUME NEW s \in Sample PROVE ShareOK(s)'
  BY Zenon, <1>0, <1>3, <1>4, DieOnward, OnwardShares DEF ShareInv
<1>5. ASSUME NEW v \in Worker PROVE ChannelOK(v)'
  <2>1. CASE v # w
    <3>1. queue'[v] = queue[v] /\ snapRx'[v] = snapRx[v]
      BY Zenon, <1>0, <1>1, <2>1
    <3>2. Queued(v, "TakeSnapshot")' = Queued(v, "TakeSnapshot")
      BY Zenon, <3>1 DEF Queued
    <3> QED
      BY Zenon, <1>0, <3>1, <3>2, ChannelKept
  <2>2. CASE v = w
    <3>1. Queued(w, "TakeSnapshot")' = {}
      <4>1. queue'[w] = <<>>
        BY Zenon, <1>0, <1>1
      <4> QED
        BY <4>1 DEF Queued
    <3>2. /\ snapRx'[w] = snapRx[w] \/ snapRx'[w] = Cancel(snapRx[w])
          /\ Queued(w, "TakeSnapshot") = {} => snapRx'[w] = snapRx[w]
      BY Zenon, <1>0, <1>1
    <3>3. /\ snapRx'[w].st # "full" => snapRx'[w].val = {}
          /\ snap.phase # "joining" => snapRx'[w] = Closed
      <4>1. /\ snapRx[w].st # "full" => snapRx[w].val = {}
            /\ snap.phase # "joining" => snapRx[w] = Closed
        BY Zenon, <1>0 DEF ChannelOK
      <4> QED
        BY Zenon, <3>2, <4>1, ChannelFacts
    <3>4. w \in snap.toSend /\ snap.phase # "ended" => snapRx'[w].st = "open"
      BY Zenon, <1>0, <3>2 DEF ChannelOK
    <3> QED
      BY Zenon, <1>0, <2>2, <3>1, <3>3, <3>4 DEF ChannelOK
  <2> QED
    BY Zenon, <2>1, <2>2
<1>6. ReplicatedOnce'
  BY Zenon, <1>0, <1>2, PartsKept DEF ShareInv
<1> QED
  BY Zenon, <1>3, <1>4, <1>5, <1>6 DEF ShareInv
\* The snapshot sender asks, collects all answers, or gives up for good.
LEMMA SnapshotShares ==
  ASSUME TypeOK, ShareInv, Snapshot
  PROVE  /\ ShareInv'
         /\ \/ Shared' = Shared /\ (snap'.phase = "ended" <=> snap.phase = "ended")
            \/ Shared' \subseteq Shared /\ snap'.phase = "ended"
<1>0. /\ queue \in [Worker -> Seq(Task)] /\ snapRx \in [Worker -> Oneshot]
      /\ snap \in [phase : {"idle", "joining", "ended"}, toSend : SUBSET Worker]
      /\ \A v \in Worker : ChannelOK(v)
      /\ ReplicatedOnce
  BY Zenon DEF TypeOK, RunnerTypeOK, ShareInv
<1>1. ASSUME \/ Shared' = Shared /\ (snap'.phase = "ended" <=> snap.phase = "ended")
             \/ Shared' \subseteq Shared /\ snap'.phase = "ended"
      PROVE  \A s \in Sample : ShareOK(s)'
  BY Zenon, <1>1, SnapshotOnward, OnwardShares DEF ShareInv
<1>2. ASSUME \A v \in Worker : snapRx'[v].val = snapRx[v].val, UNCHANGED replicated
      PROVE  Shared' = Shared
  <2>1. {snapRx'[v].val : v \in Worker} = {snapRx[v].val : v \in Worker}
    BY Zenon, <1>2
  <2> QED
    BY Zenon, <1>2, <2>1 DEF Shared
<1>3. CASE SnapTick
  <2>1. /\ snap.phase = "idle" /\ snap' = [phase |-> "joining", toSend |-> Worker]
        /\ snapRx' = [w \in Worker |-> Open] /\ UNCHANGED <<queue, replicated>>
    BY Zenon, <1>3 DEF SnapTick
  <2>2. ASSUME NEW v \in Worker
        PROVE  /\ snapRx'[v] = Open /\ snapRx[v] = Closed /\ snapRx'[v].val = snapRx[v].val
               /\ Queued(v, "TakeSnapshot")' = {}
    <3>1. snapRx'[v] = Open /\ ChannelOK(v)
      BY Zenon, <1>0, <2>1
    <3>2. snap.phase # "joining" /\ snap.phase # "ended"
      BY Zenon, <2>1
    <3>3. snapRx[v] = Closed
      BY Zenon, <3>1, <3>2 DEF ChannelOK
    <3>4. Queued(v, "TakeSnapshot") = {}
      BY Zenon, <3>1, <3>2, <3>3, ChannelFacts DEF ChannelOK
    <3>5. Queued(v, "TakeSnapshot")' = {}
      BY Zenon, <2>1, <3>4 DEF Queued
    <3> QED
      BY Zenon, <3>1, <3>3, <3>5, ChannelFacts
  <2>3. Shared' = Shared
    BY Zenon, <1>2, <2>1, <2>2
  <2>4. ASSUME NEW v \in Worker PROVE ChannelOK(v)'
    <3>1. snapRx'[v].st = "open" /\ snapRx'[v].val = {}
      BY ZenonT(30), <2>2, ChannelFacts
    <3>2. Queued(v, "TakeSnapshot")' = {} /\ snap'.phase = "joining"
      BY Zenon, <2>1, <2>2
    <3> QED
      BY Zenon, <3>1, <3>2 DEF ChannelOK
  <2>5. ReplicatedOnce'
    BY Zenon, <1>0, <2>1, <2>2, PartsKept
  <2> QED
    BY SMTT(30), <1>1, <2>1, <2>3, <2>4, <2>5 DEF ShareInv
<1>4. ASSUME NEW w \in Worker, SendTakeSnapshot(w)
      PROVE  ShareInv' /\ Shared' = Shared /\ snap'.phase = snap.phase
  <2> DEFINE t == [kind |-> "TakeSnapshot"]
  <2>1. /\ w \in snap.toSend /\ UNCHANGED replicated
        /\ snap'.phase = snap.phase /\ snap'.toSend = snap.toSend \ {w}
    BY Zenon, <1>0, <1>4 DEF SendTakeSnapshot
  <2>2. \/ snapRx' = [snapRx EXCEPT ![w] = Cancel(snapRx[w])] /\ UNCHANGED queue
        \/ queue' = Enqueue(w, t) /\ UNCHANGED snapRx
    BY Zenon, <1>4 DEF SendTakeSnapshot
  <2>3. t \in Task
    BY Zenon DEF Task
  <2> HIDE DEF t
  <2>4. ASSUME NEW v \in Worker
        PROVE  /\ snapRx'[v].val = snapRx[v].val
               /\ snapRx'[v] = snapRx[v] \/ (v = w /\ snapRx'[v] = Cancel(snapRx[v]) /\ UNCHANGED queue)
    <3>1. Cancel(snapRx[v]).val = snapRx[v].val
      BY Zenon, <1>0 DEF ChannelOK, Cancel, Cancelled
    <3> QED
      BY Zenon, <1>0, <2>2, <3>1
  <2>5. Shared' = Shared
    BY Zenon, <1>2, <2>1, <2>4
  <2>6. ASSUME NEW v \in Worker PROVE ChannelOK(v)'
    <3>0. ChannelOK(v)
      BY Zenon, <1>0
    <3>1. CASE v # w
      <4>1. Queued(v, "TakeSnapshot")' = Queued(v, "TakeSnapshot")
        BY <1>0, <2>2, <2>3, <3>1, AskedSent DEF Queued
      <4> QED
        BY SMTT(20), <2>1, <2>4, <3>0, <3>1, <4>1 DEF ChannelOK
    <3>2. CASE v = w
      <4>1. /\ snapRx'[v].st # "full" => snapRx'[v].val = {}
            /\ snap'.phase # "joining" => snapRx'[v] = Closed
        BY Zenon, <2>1, <2>4, <3>0, ChannelFacts DEF ChannelOK
      <4>2. ASSUME snap.phase # "ended", NEW i \in Queued(v, "TakeSnapshot")', NEW j \in Queued(v, "TakeSnapshot")'
            PROVE  snapRx'[v].st = "open" /\ i = j
        <5>1. snapRx[v].st = "open" /\ Queued(v, "TakeSnapshot") = {}
          BY Zenon, <2>1, <3>0, <3>2, <4>2 DEF ChannelOK
        <5>2. CASE UNCHANGED queue
          BY Zenon, <4>2, <5>1, <5>2 DEF Queued
        <5>3. CASE queue' = Enqueue(w, t) /\ UNCHANGED snapRx
          BY SMTT(20), <1>0, <2>3, <3>2, <4>2, <5>1, <5>3, AskedSent
        <5> QED
          BY Zenon, <2>2, <5>2, <5>3
      <4> QED
        BY ZenonT(30), <2>1, <3>2, <4>1, <4>2 DEF ChannelOK
    <3> QED
      BY Zenon, <3>1, <3>2
  <2>7. ReplicatedOnce'
    BY Zenon, <1>0, <2>1, <2>4, PartsKept
  <2> QED
    BY Zenon, <1>1, <2>1, <2>5, <2>6, <2>7 DEF ShareInv
<1>5. CASE SnapJoin
  <2>1. /\ \A v \in Worker : snapRx[v].st = "full"
        /\ replicated' = Shared
        /\ snapRx' = [v \in Worker |-> Closed] /\ UNCHANGED queue
    BY Zenon, <1>5 DEF SnapJoin, Shared
  <2>2. snap.phase = "joining" /\ snap'.phase = "idle" /\ snap'.toSend = snap.toSend
    BY Zenon, <1>0, <1>5 DEF SnapJoin
  <2>3. \A v \in Worker : snapRx'[v] = Closed /\ snapRx'[v].val = {}
    BY Zenon, <2>1, ChannelFacts
  <2>4. Shared' = Shared
    <3>1. UNION {snapRx'[v].val : v \in Worker} = {}
      BY Zenon, <2>3
    <3>2. Shared' = replicated' \cup UNION {snapRx'[v].val : v \in Worker}
      BY Zenon DEF Shared
    <3> QED
      BY Zenon, <2>1, <3>1, <3>2
  <2>5. ASSUME NEW v \in Worker PROVE ChannelOK(v)'
    <3>1. v \notin snap.toSend /\ Queued(v, "TakeSnapshot") = {}
      BY Zenon, <1>0, <2>1, <2>2 DEF ChannelOK
    <3>2. Queued(v, "TakeSnapshot")' = {}
      BY Zenon, <2>1, <3>1 DEF Queued
    <3> QED
      BY Zenon, <2>2, <2>3, <3>1, <3>2 DEF ChannelOK
  <2>6. ReplicatedOnce'
    BY Zenon, <1>0, <2>3, PartsKept
  <2> QED
    BY Zenon, <1>1, <2>2, <2>4, <2>5, <2>6 DEF ShareInv
<1>6. CASE SnapFail
  <2>1. snap'.phase = "ended" /\ snapRx' = [v \in Worker |-> Closed] /\ UNCHANGED replicated
    BY Zenon, <1>0, <1>6 DEF SnapFail
  <2>2. \A v \in Worker : snapRx'[v] = Closed /\ snapRx'[v].val = {}
    BY Zenon, <2>1, ChannelFacts
  <2>3. Shared' \subseteq Shared
    <3>1. Shared' = replicated' \cup UNION {snapRx'[v].val : v \in Worker}
      BY Zenon DEF Shared
    <3> QED
      BY Zenon, <2>1, <2>2, <3>1 DEF Shared
  <2>4. \A v \in Worker : ChannelOK(v)'
    BY Zenon, <2>1, <2>2 DEF ChannelOK
  <2>5. ReplicatedOnce'
    BY Zenon, <1>0, <2>2, PartsKept
  <2> QED
    BY <1>1, <2>1, <2>3, <2>4, <2>5 DEF ShareInv
<1> QED
  BY Zenon, <1>3, <1>4, <1>5, <1>6 DEF Snapshot

\* Steps that leave the snapshot alone.
LEMMA QuietShares ==
  ASSUME TypeOK, ShareInv, UNCHANGED <<snap, snapRx, replicated>>,
         \A s \in Sample : Onward(s),
         \/ UNCHANGED queue
         \/ \E w \in Worker, t \in Task : queue' = Enqueue(w, t) /\ t.kind # "TakeSnapshot"
         \/ \E w \in Worker : \E kind : TakeTask(w, kind)
  PROVE  ShareInv'
<1>1. Shared' = Shared
  BY Zenon DEF Shared
<1>2. \A s \in Sample : ShareOK(s)'
  BY Zenon, <1>1, OnwardShares DEF ShareInv
<1>3. \A v \in Worker : ChannelOK(v)'
  BY Zenon, QuietChannels DEF ShareInv
<1>4. ReplicatedOnce'
  BY Zenon, PartsKept DEF ShareInv
<1> QED
  BY Zenon, <1>2, <1>3, <1>4 DEF ShareInv

\* The tasks network threads, peer server and carbon threads send.
LEMMA OtherTasks ==
  ASSUME TypeOK, ReceiveText \/ ReceiveMetrics \/ \E r \in Round : Carbon(r)
  PROVE  /\ UNCHANGED <<snap, snapRx, replicated>>
         /\ \/ UNCHANGED queue
            \/ \E w \in Worker, t \in Task : queue' = Enqueue(w, t) /\ t.kind # "TakeSnapshot"
<1>0. round \in [Round -> RoundState]
  BY Zenon DEF TypeOK
<1> DEFINE Sends == \E w \in Worker, t \in Task : queue' = Enqueue(w, t) /\ t.kind # "TakeSnapshot"
<1>1. CASE ReceiveText
  <2>1. PICK p \in Route, d \in Data : SendParse(p[2], p[1], d) /\ UNCHANGED pipelineVars
    BY Zenon, <1>1 DEF ReceiveText
  <2> DEFINE t == [kind |-> "Parse", addr |-> p[1], data |-> d]
  <2>2. p[2] \in Worker /\ t \in Task /\ t.kind # "TakeSnapshot"
    BY Zenon, PipelineAssumption DEF Task
  <2>3. UNCHANGED queue \/ queue' = Enqueue(p[2], t)
    BY Zenon, <2>1 DEF SendParse
  <2>4. UNCHANGED <<snap, snapRx, replicated>>
    BY Zenon, <2>1 DEF SendParse, pipelineVars
  <2> HIDE DEF t
  <2> QED
    BY Zenon, <2>2, <2>3, <2>4
<1>2. CASE ReceiveMetrics
  <2>1. PICK w \in Worker, l \in List, k \in {"AddMetric", "AddMetrics", "AddSnapshot"} :
            SendMetrics(w, k, l) /\ UNCHANGED pipelineVars
    BY Zenon, <1>2 DEF ReceiveMetrics
  <2> DEFINE t == [kind |-> k, list |-> l]
  <2>2. t \in Task /\ t.kind # "TakeSnapshot"
    BY Zenon, PipelineAssumption DEF Task
  <2>3. UNCHANGED queue \/ queue' = Enqueue(w, t)
    BY Zenon, <2>1 DEF SendMetrics
  <2>4. UNCHANGED <<snap, snapRx, replicated>>
    BY Zenon, <2>1 DEF SendMetrics, pipelineVars
  <2> HIDE DEF t
  <2> QED
    BY Zenon, <2>2, <2>3, <2>4
<1>3. ASSUME NEW r \in Round, Carbon(r) PROVE UNCHANGED <<snap, snapRx, replicated>> /\ (UNCHANGED queue \/ Sends)
  <2>1. UNCHANGED <<snap, snapRx, replicated>>
    BY Zenon, <1>3 DEF Carbon, CarbonTick, StartRound, AbortRound, SendRotate, Fold, FinishFollower,
       AggregateSingle, AggregateCommon, AggregateSeparate, SendAggregate, Collect, runnerVars
  <2>2. CASE UNCHANGED queue
    BY Zenon, <2>1, <2>2
  <2>3. ASSUME NEW w \in Worker, SendRotate(r, w) PROVE UNCHANGED queue \/ Sends
    <3> DEFINE t == [kind |-> "Rotate", round |-> r]
    <3>1. t \in Task /\ t.kind # "TakeSnapshot"
      BY Zenon DEF Task
    <3>2. UNCHANGED queue \/ queue' = Enqueue(w, t)
      BY Zenon, <2>3 DEF SendRotate
    <3> HIDE DEF t
    <3> QED
      BY Zenon, <3>1, <3>2
  <2>4. ASSUME NEW u \in Sample, SendAggregate(r, u) PROVE UNCHANGED queue \/ Sends
    <3> DEFINE M == {m \in round[r].acc : SameName(u, m)}
               t == [kind |-> "Aggregate", round |-> r, metric |-> M]
    <3>1. round[r].acc \subseteq Sample /\ round[r].num \in Nat
      BY Zenon, <1>0 DEF RoundState
    <3>2. round[r].num % W \in Worker
      BY SMTT(20), <3>1, ConstantsAssumption DEF Worker
    <3>3. t \in Task /\ t.kind # "TakeSnapshot"
      BY Zenon, <3>1 DEF Task
    <3>4. UNCHANGED queue \/ queue' = Enqueue(round[r].num % W, t)
      BY Zenon, <2>4 DEF SendAggregate
    <3> HIDE DEF t
    <3> QED
      BY Zenon, <3>2, <3>3, <3>4
  <2>5. CASE ~(\E w \in Worker : SendRotate(r, w)) /\ ~(\E u \in Sample : SendAggregate(r, u))
    <3>1. UNCHANGED queue
      BY Zenon, <1>3, <2>5 DEF Carbon, CarbonTick, StartRound, AbortRound, Fold, FinishFollower,
         AggregateSingle, AggregateCommon, AggregateSeparate, Collect, runnerVars
    <3> QED
      BY Zenon, <2>1, <3>1
  <2> HIDE DEF Sends
  <2> QED
    BY Zenon, <2>1, <2>3, <2>4, <2>5
<1> QED
  BY Zenon, <1>1, <1>2, <1>3

\* Every step keeps the invariant of the snapshots.
LEMMA ShareStep ==
  ASSUME TypeOK, TextInv, AllOnce, ShareInv, [Next]_vars
  PROVE  ShareInv'
<1>1. CASE ReceiveText
  BY Zenon, <1>1, ReceiveTextOnward, OtherTasks, QuietShares
<1>2. CASE ReceiveMetrics
  BY Zenon, <1>2, ReceiveMetricsOnward, OtherTasks, QuietShares
<1>3. ASSUME NEW r \in Round, Carbon(r) PROVE ShareInv'
  BY Zenon, <1>3, CarbonOnward, OtherTasks, QuietShares
<1>4. ASSUME NEW w \in Worker, Work(w) PROVE ShareInv'
  <2>1. CASE RunTakeSnapshot(w)
    BY Zenon, <1>4, <2>1, TakeSnapshotShares
  <2>2. CASE ~RunTakeSnapshot(w)
    <3>1. UNCHANGED <<snap, snapRx, replicated>>
      BY Zenon, <1>4, <2>2 DEF Work, Run, RunParse, RunAddMetrics, RunAddSnapshot, RunRotate, RunAggregate,
         pipelineVars
    <3>2. \E kind : TakeTask(w, kind)
      BY Zenon, <1>4, <2>2 DEF Work, Run, RunParse, RunAddMetrics, RunAddSnapshot, RunRotate, RunAggregate
    <3> QED
      BY Zenon, <1>4, <2>2, <3>1, <3>2, WorkOnward, QuietShares
  <2> QED
    BY Zenon, <2>1, <2>2
<1>5. ASSUME NEW w \in Worker, Panic(w) PROVE ShareInv'
  BY Zenon, <1>5, DieShares
<1>6. CASE Snapshot
  BY Zenon, <1>6, SnapshotShares
<1>7. CASE SetLeader \/ UNCHANGED vars
  <2>1. UNCHANGED <<fresh, queue, short, long, rotRx, out, round, egress, discarded, snap, snapRx, replicated>>
    BY Zenon, <1>7 DEF SetLeader, vars, runnerVars, pipelineVars
  <2>2. \A s \in Sample : Onward(s)
    BY Zenon, <2>1, Unmoved, TasksUnmoved DEF Onward, Late
  <2> QED
    BY Zenon, <2>1, <2>2, QuietShares
<1> QED
  BY Zenon, <1>1, <1>2, <1>3, <1>4, <1>5, <1>6, <1>7 DEF Next

LEMMA InitShares == Init => ShareInv
<1> SUFFICES ASSUME Init PROVE ShareInv
  BY Zenon
<1>1. /\ queue = [w \in Worker |-> <<>>] /\ short = [w \in Worker |-> {}] /\ long = [w \in Worker |-> {}]
      /\ snapRx = [w \in Worker |-> Closed] /\ replicated = {} /\ egress = {} /\ discarded = {}
      /\ out = [r \in Round |-> {}] /\ round = [r \in Round |-> FreeRound]
      /\ rotRx = [r \in Round |-> [w \in Worker |-> Closed]]
      /\ snap = [phase |-> "idle", toSend |-> {}]
  BY Zenon DEF Init, RunnerInit
<1>2. \A w \in Worker : snapRx[w] = Closed /\ snapRx[w].val = {} /\ Queued(w, "TakeSnapshot") = {}
  <2> SUFFICES ASSUME NEW w \in Worker
               PROVE  snapRx[w] = Closed /\ snapRx[w].val = {} /\ Queued(w, "TakeSnapshot") = {}
    BY Zenon
  <2>1. snapRx[w] = Closed /\ queue[w] = <<>>
    BY Zenon, <1>1
  <2>2. Closed.val = {}
    BY Zenon, ChannelFacts
  <2>3. Queued(w, "TakeSnapshot") = {}
    BY SMTT(30), <2>1 DEF Queued
  <2> QED
    BY Zenon, <2>1, <2>2, <2>3
<1>3. Shared = {}
  BY Zenon, <1>1, <1>2 DEF Shared
<1>4. ASSUME NEW s \in Sample PROVE ShareOK(s)
  <2>1. \A w, i : ~InQueue(s, w, i)
    BY <1>1 DEF InQueue
  <2>2. \A K : ~InTask(s, K)
    BY Zenon, <2>1 DEF InTask
  <2>3. ~Cached(s) /\ ~\E w : InLong(s, w)
    BY Zenon, <1>1 DEF Cached, InShort, InLong
  <2>4. /\ \A r, w : ~InRotated(s, r, w)
        /\ \A r : ~InAcc(s, r) /\ ~InOut(s, r)
        /\ ~InEgress(s) /\ ~InDiscarded(s)
    BY Zenon, <1>1 DEF InRotated, InAcc, InOut, InEgress, InDiscarded, FreeRound, Closed
  <2> QED
    BY Zenon, <1>3, <2>2, <2>3, <2>4 DEF ShareOK, Late
<1>5. \A w \in Worker : ChannelOK(w)
  BY ZenonT(30), <1>1, <1>2 DEF ChannelOK
<1>6. ReplicatedOnce
  BY Zenon, <1>2 DEF ReplicatedOnce
<1> QED
  BY Zenon, <1>4, <1>5, <1>6 DEF ShareInv

\* What has left a short cache for good is in a snapshot, or came in one.
LEMMA SharedFirst ==
  ASSUME TypeOK, ShareInv
  PROVE  ReplicatedBeforeRotated
<1> DEFINE caches == UNION {long[w] : w \in Worker}
           threads == UNION {out[r] \cup round[r].acc : r \in Round}
           answers == UNION {UNION {rotRx[r][w].val : w \in Worker} : r \in Round}
<1>0. TypeOK /\ \A s \in Sample : ShareOK(s)
  BY Zenon DEF ShareInv
<1>1. caches \cup threads \cup answers \cup discarded \cup egress \subseteq Sample
  <2>1. /\ \A w \in Worker : long[w] \subseteq Sample
        /\ \A r \in Round : out[r] \subseteq Sample /\ round[r].acc \subseteq Sample
        /\ \A r \in Round, w \in Worker : rotRx[r][w].val \subseteq Sample
        /\ discarded \subseteq Sample /\ egress \subseteq Sample
    <3>1. /\ long \in [Worker -> SUBSET Sample] /\ out \in [Round -> SUBSET Sample]
          /\ rotRx \in [Round -> [Worker -> Oneshot]] /\ round \in [Round -> RoundState]
          /\ discarded \subseteq Sample /\ egress \subseteq Sample
      BY Zenon, <1>0 DEF TypeOK, RunnerTypeOK
    <3> QED
      BY <3>1 DEF RoundState, Oneshot
  <2> QED
    BY <2>1
<1>2. ASSUME NEW s, s \in caches \/ s \in threads \/ s \in answers \/ s \in discarded \/ s \in egress
      PROVE  Late(s)
  BY <1>2 DEF Late, InLong, InOut, InAcc, InRotated, InDiscarded, InEgress
<1>3. ASSUME snap.phase # "ended",
             NEW s, s \in caches \/ s \in threads \/ s \in answers \/ s \in discarded \/ s \in egress
      PROVE  s \in Shared \cup Peer
  <2>1. s \in Sample
    BY ZenonT(30), <1>1, <1>3
  <2>2. Late(s)
    BY ZenonT(30), <1>2, <1>3
  <2> QED
    BY SMTT(30), <1>0, <1>3, <2>1, <2>2 DEF ShareOK
<1> HIDE DEF caches, threads, answers
<1>4. snap.phase # "ended" =>
          discarded \cup egress \cup caches \cup threads \cup answers \subseteq
              Peer \cup replicated \cup UNION {snapRx[w].val : w \in Worker}
  BY Zenon, <1>3 DEF Shared
<1> QED
  BY Zenon, <1>4 DEF ReplicatedBeforeRotated, caches, threads, answers

-----------------------------------------------------------------------------
(* MetricLedger.                                                           *)
(*                                                                         *)
(* The stage of a sample depends on `fresh' and on the three exits only,   *)
(* and the exits never shrink.  So a step is classified by what it does to *)
(* these four variables; CountedOnce says that a sample that comes to an   *)
(* exit was at no other, and ShareInv that it was shared before.           *)
\* The samples whose stage a step changes make one move of the ledger.
LEMMA Moved ==
  ASSUME NEW from, NEW to,
         \A s \in Sample : StageOf(s)' = StageOf(s) \/ (StageOf(s) \in from /\ StageOf(s)' = to)
  PROVE  \E S \in SUBSET Sample :
             Ledger!Move(S, from, to) /\ \A s \in S : StageOf(s)' # StageOf(s)
<1>1. PICK S \in SUBSET Sample : \A s \in Sample : s \in S <=> StageOf(s)' # StageOf(s)
  <2>1. {s \in Sample : StageOf(s)' # StageOf(s)} \in SUBSET Sample
    BY Zenon
  <2> QED
    BY Zenon, <2>1
<1>2. \A s \in S : [t \in Sample |-> StageOf(t)][s] \in from
  BY Zenon, <1>1
<1>3. [s \in Sample |-> StageOf(s)]' =
          [s \in Sample |-> IF s \in S THEN to ELSE [t \in Sample |-> StageOf(t)][s]]
  BY Zenon, <1>1
<1>4. Ledger!Move(S, from, to)
  BY <1>2, <1>3 DEF Ledger!Move
<1> QED
  BY <1>1, <1>4

\* Where a sample is alone decides its stage.
LEMMA StageForm ==
  ASSUME NEW s, Once(s)
  PROVE  /\ InFresh(s) => ~InEgress(s) /\ ~InDiscarded(s) /\ \A c : ~InLost(s, c)
         /\ InEgress(s) => ~InDiscarded(s) /\ \A c : ~InLost(s, c)
         /\ InDiscarded(s) => \A c : ~InLost(s, c)
         /\ \A w : InShort(s, w) => ~InFresh(s) /\ ~InEgress(s) /\ ~InDiscarded(s) /\ \A c : ~InLost(s, c)
<1>1. PICK k, x, y : OnlyAt(s, k, x, y)
  BY Zenon DEF Once
<1> QED
  BY Zenon, <1>1 DEF OnlyAt, Alone

\* Stages in terms of the places of a sample, before and after a step.
LEMMA StageByPlace ==
  ASSUME NEW s
  PROVE  /\ StageOf(s) = IF InFresh(s) THEN "outside"
                         ELSE IF InEgress(s) THEN "sent"
                         ELSE IF InDiscarded(s) THEN "discarded"
                         ELSE IF \E c : InLost(s, c) THEN "lost"
                         ELSE "held"
         /\ StageOf(s)' = IF InFresh(s)' THEN "outside"
                          ELSE IF InEgress(s)' THEN "sent"
                          ELSE IF InDiscarded(s)' THEN "discarded"
                          ELSE IF \E c : InLost(s, c)' THEN "lost"
                          ELSE "held"
BY Zenon DEF StageOf, InFresh, InEgress, InDiscarded, InLost

\* The snapshots and the sender that fills them are left alone.
Unshared == Shared' = Shared /\ (snap'.phase = "ended" <=> snap.phase = "ended")

\* Steps that throw samples away, or do nothing to be seen from outside.
LEMMA LossStep ==
  ASSUME UNCHANGED <<fresh, egress, discarded>>, Unshared,
         \A c \in Counter : lost[c] \subseteq lost'[c]
  PROVE  Ledger!Next
<1>1. ASSUME NEW s \in Sample
      PROVE  StageOf(s)' = StageOf(s) \/ (StageOf(s) \in {"outside", "held"} /\ StageOf(s)' = "lost")
  BY Zenon DEF StageOf
<1>2. PICK S \in SUBSET Sample : Ledger!Move(S, {"outside", "held"}, "lost")
  BY Zenon, <1>1, Moved
<1>3. Ledger!Lose(S)
  BY Zenon, <1>2 DEF Ledger!Lose, Unshared, Shared
<1> QED
  BY Zenon, <1>3 DEF Ledger!Next
\* Samples come in, to the queue of a worker or in vain.
LEMMA ArrivalStep ==
  ASSUME AllOnce, UNCHANGED <<egress, discarded>>, Unshared,
         fresh' \subseteq fresh,
         \/ UNCHANGED lost
         \/ /\ \A s \in Sample : InFresh(s) => InFresh(s)' \/ \E c \in Counter : s \in lost'[c]
            /\ \A c \in Counter : lost[c] \subseteq lost'[c]
  PROVE  Ledger!Next
<1>0. \A s \in Sample : /\ InFresh(s)' => InFresh(s)
                        /\ InEgress(s)' <=> InEgress(s)
                        /\ InDiscarded(s)' <=> InDiscarded(s)
  BY Zenon DEF InFresh, InEgress, InDiscarded
<1>1. CASE UNCHANGED lost
  <2>1. ASSUME NEW s \in Sample
        PROVE  StageOf(s)' = StageOf(s) \/ (StageOf(s) \in {"outside"} /\ StageOf(s)' = "held")
    <3>1. \A c : InLost(s, c)' <=> InLost(s, c)
      BY Zenon, <1>1 DEF InLost
    <3>2. Once(s)
      BY Zenon DEF AllOnce
    <3> QED
      BY Zenon, <1>0, <3>1, <3>2, StageForm, StageByPlace
  <2>2. PICK S \in SUBSET Sample : Ledger!Move(S, {"outside"}, "held")
    BY Zenon, <2>1, Moved
  <2>3. Ledger!Accept(S)
    BY Zenon, <2>2 DEF Ledger!Accept, Unshared, Shared
  <2> QED
    BY Zenon, <2>3 DEF Ledger!Next
<1>2. CASE /\ \A s \in Sample : InFresh(s) => InFresh(s)' \/ \E c \in Counter : s \in lost'[c]
           /\ \A c \in Counter : lost[c] \subseteq lost'[c]
  <2>1. ASSUME NEW s \in Sample
        PROVE  StageOf(s)' = StageOf(s) \/ (StageOf(s) \in {"outside", "held"} /\ StageOf(s)' = "lost")
    <3>1. /\ \A c : InLost(s, c) => InLost(s, c)'
          /\ InFresh(s) => InFresh(s)' \/ \E c : InLost(s, c)'
      BY Zenon, <1>2 DEF InLost
    <3>2. Once(s)
      BY Zenon DEF AllOnce
    <3> QED
      BY Zenon, <1>0, <3>1, <3>2, StageForm, StageByPlace
  <2>2. PICK S \in SUBSET Sample : Ledger!Move(S, {"outside", "held"}, "lost")
    BY <2>1, Moved
  <2>3. Ledger!Lose(S)
    BY Zenon, <2>2 DEF Ledger!Lose, Unshared, Shared
  <2> QED
    BY Zenon, <2>3 DEF Ledger!Next
<1> QED
  BY <1>1, <1>2

\* A rotation leaves the node; ShareInv says it was shared.
LEMMA SettleStep ==
  ASSUME AllOnce', ShareInv', Unshared, UNCHANGED <<fresh, lost>>,
         egress \subseteq egress', discarded \subseteq discarded',
         UNCHANGED egress \/ UNCHANGED discarded
  PROVE  Ledger!Next
<1>0. ASSUME NEW s \in Sample
      PROVE  /\ InFresh(s)' <=> InFresh(s)
             /\ \A c : InLost(s, c)' <=> InLost(s, c)
             /\ InEgress(s) => InEgress(s)'
             /\ InDiscarded(s) => InDiscarded(s)'
  BY Zenon DEF InFresh, InLost, InEgress, InDiscarded
<1>1. ASSUME NEW s \in Sample, InEgress(s)' \/ InDiscarded(s)', snap.phase # "ended"
      PROVE  s \in Shared \cup Peer
  <2>1. ShareOK(s)' /\ Late(s)'
    BY Zenon, <1>1 DEF ShareInv, Late
  <2>2. s \in Shared' \cup Peer
    BY <1>1, <2>1 DEF ShareOK, Unshared
  <2> QED
    BY Zenon, <2>2 DEF Unshared
<1>2. ASSUME NEW s \in Sample
      PROVE  (InEgress(s)' => ~InDiscarded(s)' /\ ~InFresh(s)' /\ \A c : ~InLost(s, c)')
             /\ (InDiscarded(s)' => ~InFresh(s)' /\ \A c : ~InLost(s, c)')
  <2>1. PICK k, x, y : OnlyAt(s, k, x, y)'
    BY Zenon DEF AllOnce, Once
  <2> QED
    BY Zenon, <2>1 DEF OnlyAt, Alone
<1>3. ASSUME NEW exit \in {"sent", "discarded"},
             \A s \in Sample : StageOf(s)' = StageOf(s) \/ (StageOf(s) \in {"held"} /\ StageOf(s)' = exit)
      PROVE  \E S \in SUBSET Sample : Ledger!Settle(S, exit)
  <2>1. PICK S \in SUBSET Sample :
            Ledger!Move(S, {"held"}, exit) /\ \A s \in S : StageOf(s)' # StageOf(s)
    BY <1>3, Moved
  <2>2. ASSUME snap.phase # "ended", NEW s \in S PROVE s \in Shared \cup Peer
    <3>1. StageOf(s)' = exit
      BY Zenon, <1>3, <2>1
    <3>2. InEgress(s)' \/ InDiscarded(s)'
      BY Zenon, <1>3, <3>1 DEF StageOf, InEgress, InDiscarded
    <3> QED
      BY <1>1, <2>2, <3>2
  <2>3. Ledger!Settle(S, exit)
    BY Zenon, <2>1, <2>2 DEF Ledger!Settle, Unshared, Shared
  <2> QED
    BY Zenon, <2>3
<1>4. CASE UNCHANGED discarded
  <2>1. ASSUME NEW s \in Sample
        PROVE  StageOf(s)' = StageOf(s) \/ (StageOf(s) \in {"held"} /\ StageOf(s)' = "sent")
    <3>1. InDiscarded(s)' <=> InDiscarded(s)
      BY Zenon, <1>4 DEF InDiscarded
    <3> QED
      BY SMTT(30), <1>0, <1>2, <3>1, StageByPlace
  <2> QED
    BY Zenon, <1>3, <2>1 DEF Ledger!Next
<1>5. CASE UNCHANGED egress
  <2>1. ASSUME NEW s \in Sample
        PROVE  StageOf(s)' = StageOf(s) \/ (StageOf(s) \in {"held"} /\ StageOf(s)' = "discarded")
    <3>1. InEgress(s)' <=> InEgress(s)
      BY Zenon, <1>5 DEF InEgress
    <3> QED
      BY SMTT(30), <1>0, <1>2, <3>1, StageByPlace
  <2> QED
    BY <1>3, <2>1 DEF Ledger!Next
<1> QED
  BY <1>4, <1>5

\* TakeSnapshot shares all of the short cache, which nobody got before.
LEMMA ShareLedgerStep ==
  ASSUME TypeOK, AllOnce, ShareInv, NEW w \in Worker, Work(w), RunTakeSnapshot(w), snap.phase # "ended"
  PROVE  Ledger!Next
<1> DEFINE R == short[w] \ Merge(long[w], short[w])
<1>0. short[w] \in SUBSET Sample /\ lost \in [Counter -> SUBSET Sample]
  BY Zenon DEF TypeOK, RunnerTypeOK
<1>1. UNCHANGED <<fresh, egress, discarded, snap>> /\ lost' = Lose("AGG_ERRORS", R)
  BY Zenon DEF Work, RunTakeSnapshot, pipelineVars
<1>2. R \subseteq short[w]
  BY Zenon
<1> HIDE DEF R
<1>3. Shared' = Shared \cup short[w]
  BY Zenon, AnswerShared
<1>4. ASSUME NEW s \in short[w]
      PROVE  /\ s \in Sample /\ s \notin Shared /\ s \notin Peer
             /\ StageOf(s) = "held"
  <2>1. s \in Sample /\ InShort(s, w) /\ Cached(s)
    BY Zenon, <1>0 DEF InShort, Cached
  <2>2. ShareOK(s) /\ Once(s)
    BY Zenon, <2>1 DEF ShareInv, AllOnce
  <2>3. ~InFresh(s) /\ ~InEgress(s) /\ ~InDiscarded(s) /\ \A c : ~InLost(s, c)
    BY ZenonT(30), <2>1, <2>2, StageForm
  <2>4. StageOf(s) = "held"
    BY <2>3, StageByPlace
  <2> QED
    BY <2>1, <2>2, <2>4 DEF ShareOK
<1>5. ASSUME NEW s \in Sample
      PROVE  \/ StageOf(s)' = StageOf(s)
             \/ StageOf(s) \in {"held"} /\ StageOf(s)' = "lost" /\ s \in R
  <2>1. \A c : InLost(s, c)' <=> InLost(s, c) \/ (c = "AGG_ERRORS" /\ s \in R)
    BY SMTT(30), <1>0, <1>1, Counted, CounterNames
  <2>2. /\ InFresh(s)' <=> InFresh(s)
        /\ InEgress(s)' <=> InEgress(s)
        /\ InDiscarded(s)' <=> InDiscarded(s)
    BY Zenon, <1>1 DEF InFresh, InEgress, InDiscarded
  <2> QED
    BY SMTT(30), <2>1, <2>2, StageByPlace
<1>6. PICK C \in SUBSET Sample : Ledger!Move(C, {"held"}, "lost") /\ \A s \in C : StageOf(s)' # StageOf(s)
  BY Zenon, <1>5, Moved
<1>7. C \subseteq short[w]
  BY <1>2, <1>5, <1>6
<1>8. \A s \in short[w] : [t \in Sample |-> StageOf(t)][s] = "held"
  BY Zenon, <1>4
<1>9. short[w] \cap (Shared \cup Peer) = {}
  BY Zenon, <1>4
<1>10. Ledger!Share(short[w], C)
  BY SMTT(30), <1>1, <1>3, <1>6, <1>7, <1>8, <1>9 DEF Ledger!Share, Shared
<1> QED
  BY SMTT(30), <1>0, <1>7, <1>10 DEF Ledger!Next

\* The counters of lost samples never shrink.
LEMMA LossGrows ==
  ASSUME lost \in [Counter -> SUBSET Sample],
         UNCHANGED lost \/ \E c \in Counter : \E S : lost' = Lose(c, S)
  PROVE  \A c \in Counter : lost[c] \subseteq lost'[c]
BY Zenon DEF Lose
-----------------------------------------------------------------------------
(* One lemma per thread. *)

LEMMA ReceiveLedger ==
  ASSUME TypeOK, AllOnce, ReceiveText \/ ReceiveMetrics
  PROVE  Ledger!Next
<1>0. lost \in [Counter -> SUBSET Sample]
  BY Zenon DEF TypeOK, RunnerTypeOK
<1>1. UNCHANGED <<snap, snapRx, replicated>>
  BY Zenon, OtherTasks
<1>2. Unshared
  BY Zenon, <1>1 DEF Unshared, Shared
<1>3. CASE ReceiveText
  <2>1. PICK p \in Route, d \in Data : SendParse(p[2], p[1], d) /\ UNCHANGED pipelineVars
    BY Zenon, <1>3 DEF ReceiveText
  <2>2. /\ fresh' = fresh \ {d[i] : i \in DOMAIN d}
        /\ UNCHANGED <<egress, discarded>>
        /\ UNCHANGED lost \/ lost' = Lose("DROPS", Ends(d))
    BY Zenon, <2>1 DEF SendParse, pipelineVars
  <2>3. ASSUME lost' = Lose("DROPS", Ends(d)), NEW s \in Sample, InFresh(s), ~InFresh(s)'
        PROVE  \E c \in Counter : s \in lost'[c]
    <3>1. s \in Ends(d)
      BY Zenon, <2>2, <2>3 DEF InFresh, Ends
    <3>2. s \in lost'["DROPS"]
      BY SMTT(30), <1>0, <2>3, <3>1, CounterNames DEF Lose
    <3> QED
      BY Zenon, <3>2, CounterNames
  <2>4. \A c \in Counter : lost[c] \subseteq lost'[c]
    BY SMTT(30), <1>0, <2>2, LossGrows, CounterNames
  <2> QED
    BY Zenon, <1>2, <2>2, <2>3, <2>4, ArrivalStep
<1>4. CASE ReceiveMetrics
  <2>1. PICK w \in Worker, l \in List, k \in {"AddMetric", "AddMetrics", "AddSnapshot"} :
            SendMetrics(w, k, l) /\ UNCHANGED pipelineVars
    BY Zenon, <1>4 DEF ReceiveMetrics
  <2> DEFINE S == {l[i] : i \in DOMAIN l}
  <2>2. /\ fresh' = fresh \ {EndOf(l[i]) : i \in DOMAIN l}
        /\ UNCHANGED <<egress, discarded>>
        /\ UNCHANGED lost \/ lost' = Lose("uncounted", S)
    BY Zenon, <2>1 DEF SendMetrics, pipelineVars
  <2>3. ASSUME lost' = Lose("uncounted", S), NEW s \in Sample, InFresh(s), ~InFresh(s)'
        PROVE  \E c \in Counter : s \in lost'[c]
    <3>1. s \in S
      BY Zenon, <2>2, <2>3 DEF InFresh, EndOf
    <3> HIDE DEF S
    <3>2. s \in lost'["uncounted"]
      BY <1>0, <2>3, <3>1, CounterNames DEF Lose
    <3> QED
      BY <3>2, CounterNames
  <2> HIDE DEF S
  <2>4. \A c \in Counter : lost[c] \subseteq lost'[c]
    BY <1>0, <2>2, LossGrows, CounterNames
  <2> QED
    BY Zenon, <1>2, <2>2, <2>3, <2>4, ArrivalStep
<1> QED
  BY SMTT(30), <1>3, <1>4

LEMMA WorkLedger ==
  ASSUME TypeOK, AllOnce, ShareInv, NEW w \in Worker, Work(w)
  PROVE  Ledger!Next
<1>0. lost \in [Counter -> SUBSET Sample]
  BY Zenon DEF TypeOK, RunnerTypeOK
<1>1. UNCHANGED <<fresh, egress, discarded, snap, replicated>>
  BY Zenon DEF Work, Run, RunParse, RunAddMetrics, RunAddSnapshot, RunTakeSnapshot, RunRotate, RunAggregate,
     pipelineVars
<1>2. \A c \in Counter : lost[c] \subseteq lost'[c]
  <2>1. CASE RunParse(w)
    <3>1. \E B, R : lost' = [lost EXCEPT !["PARSE_ERRORS"] = @ \cup B, !["AGG_ERRORS"] = @ \cup R]
      BY Zenon, <2>1 DEF RunParse
    <3> QED
      BY Zenon, <1>0, <3>1
  <2>2. CASE ~RunParse(w)
    <3>1. UNCHANGED lost \/ \E S : lost' = Lose("AGG_ERRORS", S) \/ lost' = Lose("DROPS", S)
      BY Zenon, <2>2 DEF Work, Run, RunAddMetrics, RunAddSnapshot, RunTakeSnapshot, RunRotate, RunAggregate
    <3> QED
      BY SMTT(30), <1>0, <3>1, LossGrows, CounterNames
  <2> QED
    BY <2>1, <2>2
<1>3. CASE RunTakeSnapshot(w) /\ snap.phase # "ended"
  BY SMTT(30), <1>3, ShareLedgerStep
<1>4. CASE ~(RunTakeSnapshot(w) /\ snap.phase # "ended")
  <2>1. UNCHANGED snapRx
    <3>1. CASE RunTakeSnapshot(w)
      BY SMTT(30), <1>4, <3>1, Answer
    <3>2. CASE ~RunTakeSnapshot(w)
      BY Zenon, <3>2 DEF Work, Run, RunParse, RunAddMetrics, RunAddSnapshot, RunRotate, RunAggregate
    <3> QED
      BY SMTT(30), <3>1, <3>2
  <2>2. Unshared
    BY Zenon, <1>1, <2>1 DEF Unshared, Shared
  <2> QED
    BY SMTT(30), <1>1, <1>2, <2>2, LossStep
<1> QED
  BY Zenon, <1>3, <1>4

LEMMA PanicLedger ==
  ASSUME TypeOK, ShareInv, NEW w \in Worker, Panic(w)
  PROVE  Ledger!Next
<1>1. UNCHANGED <<fresh, egress, discarded, snap>> /\ \E S : lost' = Lose("uncounted", S)
  BY Zenon DEF Panic, Die, pipelineVars
<1>2. \A c \in Counter : lost[c] \subseteq lost'[c]
  BY Zenon, <1>1, LossGrows, CounterNames DEF TypeOK, RunnerTypeOK
<1>3. Unshared
  BY Zenon, <1>1, DieShares DEF Unshared
<1> QED
  BY SMTT(30), <1>1, <1>2, <1>3, LossStep

LEMMA SnapshotLedger ==
  ASSUME TypeOK, ShareInv, Snapshot
  PROVE  Ledger!Next
<1>1. UNCHANGED <<fresh, egress, discarded, lost>>
  BY Zenon DEF Snapshot, SnapTick, SnapJoin, SnapFail, SendTakeSnapshot
<1>2. CASE Unshared
  BY <1>1, <1>2, LossStep
<1>3. CASE Shared' \subseteq Shared /\ snap'.phase = "ended"
  <2>1. \A s \in Sample : StageOf(s)' = StageOf(s)
    BY Zenon, <1>1 DEF StageOf
  <2>2. [s \in Sample |-> StageOf(s)]' = [s \in Sample |-> StageOf(s)]
    BY Zenon, <2>1
  <2>3. Ledger!StopSharing
    BY Zenon, <1>3, <2>2 DEF Ledger!StopSharing, Shared
  <2> QED
    BY Zenon, <2>3 DEF Ledger!Next
<1> QED
  BY SMTT(30), <1>2, <1>3, SnapshotShares DEF Unshared

LEMMA CarbonLedger ==
  ASSUME TypeOK, AllOnce', ShareInv', NEW r \in Round, Carbon(r)
  PROVE  Ledger!Next
<1>0. lost \in [Counter -> SUBSET Sample]
  BY Zenon DEF TypeOK, RunnerTypeOK
<1>1. UNCHANGED fresh /\ UNCHANGED <<snap, snapRx, replicated>>
  BY Zenon, OtherTasks DEF Carbon, CarbonTick, StartRound, AbortRound, SendRotate, Fold, FinishFollower,
     AggregateSingle, AggregateCommon, AggregateSeparate, SendAggregate, Collect, runnerVars
<1>2. Unshared
  BY Zenon, <1>1 DEF Unshared, Shared
<1>3. \/ UNCHANGED <<egress, discarded>> /\ (UNCHANGED lost \/ \E c \in Counter : \E S : lost' = Lose(c, S))
      \/ UNCHANGED <<egress, lost>> /\ \E S : discarded' = discarded \cup S
      \/ UNCHANGED <<discarded, lost>> /\ \E S : egress' = egress \cup S
  <2>1. CASE Collect(r)
    BY Zenon, <2>1 DEF Collect
  <2>2. ASSUME NEW w \in Worker, Fold(r, w)
        PROVE  UNCHANGED egress /\ \/ UNCHANGED discarded /\ \E S : lost' = Lose("AGG_ERRORS", S)
                                   \/ UNCHANGED lost /\ \E S : discarded' = discarded \cup S
    BY Zenon, <2>2 DEF Fold
  <2>3. CASE AbortRound(r)
    <3>1. UNCHANGED egress /\ \/ UNCHANGED discarded /\ \E S : lost' = Lose("uncounted", S)
                              \/ UNCHANGED lost /\ \E S : discarded' = discarded \cup S
      BY Zenon, <2>3 DEF AbortRound
    <3> QED
      BY Zenon, <3>1, CounterNames
  <2>4. CASE ~Collect(r) /\ ~(\E w \in Worker : Fold(r, w)) /\ ~AbortRound(r)
    <3>1. UNCHANGED <<egress, discarded>>
      BY Zenon, <2>4 DEF Carbon, CarbonTick, StartRound, SendRotate, FinishFollower,
         AggregateSingle, AggregateCommon, AggregateSeparate, SendAggregate, runnerVars
    <3>2. UNCHANGED lost \/ \E S : lost' = Lose("uncounted", S) \/ lost' = Lose("DROPS", S)
      BY ZenonT(30), <2>4 DEF Carbon, CarbonTick, StartRound, SendRotate, FinishFollower,
         AggregateSingle, AggregateCommon, AggregateSeparate, SendAggregate, runnerVars
    <3> QED
      BY ZenonT(30), <3>1, <3>2, CounterNames
  <2> QED
    BY Zenon, <2>1, <2>2, <2>3, <2>4, CounterNames
<1>4. CASE UNCHANGED <<egress, discarded>> /\ (UNCHANGED lost \/ \E c \in Counter : \E S : lost' = Lose(c, S))
  BY SMTT(30), <1>0, <1>1, <1>2, <1>4, LossGrows, LossStep
<1>5. CASE UNCHANGED <<egress, lost>> /\ \E S : discarded' = discarded \cup S
  BY SMTT(30), <1>1, <1>2, <1>5, SettleStep
<1>6. CASE UNCHANGED <<discarded, lost>> /\ \E S : egress' = egress \cup S
  BY SMTT(30), <1>1, <1>2, <1>6, SettleStep
<1> QED
  BY SMTT(30), <1>3, <1>4, <1>5, <1>6

\* Every step of the node is a step of the ledger.
LEMMA LedgerStep ==
  ASSUME TypeOK, AllOnce, ShareInv, AllOnce', ShareInv', [Next]_vars
  PROVE  [Ledger!Next]_(Ledger!vars)
<1>1. CASE ReceiveText \/ ReceiveMetrics
  BY SMTT(30), <1>1, ReceiveLedger
<1>2. ASSUME NEW w \in Worker, Work(w) \/ Panic(w) PROVE Ledger!Next
  BY <1>2, WorkLedger, PanicLedger
<1>3. CASE Snapshot
  BY SMTT(30), <1>3, SnapshotLedger
<1>4. ASSUME NEW r \in Round, Carbon(r) PROVE Ledger!Next
  BY SMTT(30), <1>4, CarbonLedger
<1>5. CASE SetLeader \/ UNCHANGED vars
  <2>1. UNCHANGED <<fresh, egress, discarded, lost, snap, snapRx, replicated>>
    BY Zenon, <1>5 DEF SetLeader, vars, runnerVars, pipelineVars
  <2>2. Unshared
    BY Zenon, <2>1 DEF Unshared, Shared
  <2> QED
    BY SMTT(20), <2>1, <2>2, LossStep
<1> QED
  BY Zenon, <1>1, <1>2, <1>3, <1>4, <1>5 DEF Next

LEMMA LedgerInit ==
  ASSUME Init
  PROVE  Ledger!Init
<1>1. fresh = Piece /\ replicated = {} /\ snap.phase = "idle" /\ snapRx = [w \in Worker |-> Closed]
  BY Zenon DEF Init, RunnerInit
<1>2. \A s \in Sample : StageOf(s) = "outside"
  BY Zenon, <1>1 DEF StageOf, Piece
<1>3. Shared = {}
  BY Zenon, <1>1, ChannelFacts DEF Shared
<1>4. snap.phase # "ended"
  BY Zenon, <1>1
<1> QED
  BY <1>2, <1>3, <1>4 DEF Ledger!Init, Shared

-----------------------------------------------------------------------------
(* The theorems. *)

INSTANCE WellFoundedInduction

\* A set of numbers has a smallest one.
LEMMA Smallest ==
  ASSUME NEW I \in SUBSET Nat, I # {}
  PROVE  \E i \in I : \A j \in I : i <= j
<1> DEFINE R == OpToRel(<, Nat)
<1>1. PICK i \in I : \A j \in I : ~(<<j, i>> \in R)
  <2>1. IsWellFoundedOn(R, Nat)
    BY Zenon, NatLessThanWellFounded
  <2> HIDE DEF R
  <2> QED
    BY Zenon, <2>1, WFMin
<1>2. R = {ss \in Nat \X Nat : ss[1] < ss[2]}
  BY Zenon DEF OpToRel
<1> HIDE DEF R
<1>3. ASSUME NEW j \in I PROVE i <= j
  <2>1. j < i => <<j, i>> \in R
    BY Zenon, <1>2
  <2> QED
    BY SMTT(30), <1>1, <2>1
<1> QED
  BY Zenon, <1>3

LEMMA Least == HasLeast
BY Zenon, Smallest DEF HasLeast

\* Type correctness of the node's pipeline: whatever the number of workers,
\* carbon threads, samples and panics, channels carry tasks and caches of known
\* samples, every task names a slot of Round, and the age of kept text
\* stays below MaxTimes because Task::Rotate drops an entry in time.
THEOREM TypeCorrect == Spec => []TypeOK
<1>1. TypeOK /\ [Next]_vars => TypeOK'
  BY Zenon, Least, StepTypes
<1> QED
  BY <1>1, InitTypes, PTL DEF Spec

-----------------------------------------------------------------------------
(* Exactly one place. *)

LEMMA NextOnce == OnceInv /\ [Next]_vars => OnceInv'
BY Zenon, Least, StepOnce

\* The inductive invariant of the pipeline: besides the types and CountedOnce,
\* the text a worker keeps ends no line (what lets Parse count a line once),
\* and the reply channels and the accumulated cache of a carbon thread are
\* empty when its phase says so (what lets a cancelled or reused channel lose
\* nothing).
THEOREM Inductive == Spec => []IndInv
<1>1. OnceInv => IndInv
  BY Zenon, OnceForm DEF OnceInv, IndInv
<1> QED
  BY <1>1, InitOnce, NextOnce, PTL DEF Spec

\* A node counts every sample once: for any number of workers, overlapping
\* carbon threads, snapshots, panics and changes of the leader, in all three
\* aggregation modes, a sample is always in exactly one queue, cache, channel,
\* output or counter of lost samples.
THEOREM EverySampleOnce == Spec => []CountedOnce
<1>1. OnceInv => CountedOnce
  BY Zenon, OnceForm DEF OnceInv
<1> QED
  BY <1>1, InitOnce, NextOnce, PTL DEF Spec

-----------------------------------------------------------------------------
(* Types of metrics, and losses. *)

\* A cache never holds two types under one name (update_metric, the fold of
\* the Aggregator), however lists, snapshots of peers, merges and rotations
\* follow each other on any number of workers.
THEOREM OneType == Spec => []OneTypePerName
<1>1. Init => OneTypePerName
  <2> SUFFICES ASSUME Init PROVE OneTypePerName
    BY Zenon
  <2>1. \A w \in Worker : short[w] = {} /\ long[w] = {} /\ snapRx[w].val = {}
    BY Zenon DEF Init, RunnerInit, Closed
  <2>2. \A r \in Round : round[r].acc = {} /\ \A w \in Worker : rotRx[r][w].val = {}
    BY Zenon DEF Init, RunnerInit, Closed, FreeRound
  <2> QED
    BY Zenon, <2>1, <2>2 DEF OneTypePerName
<1>2. TypeOK /\ OneTypePerName /\ [Next]_vars => OneTypePerName'
  BY Zenon, Least, UniformStep
<1> QED
  BY <1>1, <1>2, TypeCorrect, PTL DEF Spec

\* As long as no worker died, and unless the mode is separate, every sample
\* that is lost is counted as a parse or aggregation error: no round is
\* aborted, and no cache that a worker answers with finds its receiver gone.
THEOREM LossesAreCounted ==
  ASSUME "separate" \notin Modes
  PROVE  Spec => []NoUncountedLoss
<1>1. Init => LossInv
  <2> SUFFICES ASSUME Init PROVE NoSilentLoss /\ AllLinks
    BY Zenon DEF LossInv
  <2>1. /\ queue = [w \in Worker |-> <<>>] /\ round = [r \in Round |-> FreeRound]
        /\ rotRx = [r \in Round |-> [w \in Worker |-> Closed]] /\ lost = [c \in Counter |-> {}]
    BY Zenon DEF Init, RunnerInit
  <2>2. NoSilentLoss
    BY Zenon, <2>1 DEF NoSilentLoss, Counter
  <2>3. ASSUME NEW r \in Round, NEW w \in Worker PROVE LinkOK(r, w)
    <3>1. Rotates(r, w) = {}
      BY <2>1 DEF Rotates
    <3>2. rotRx[r][w].st = "closed" /\ ~Unsent(r, w)
      BY Zenon, <2>1 DEF Closed, Unsent, FreeRound
    <3> QED
      BY Zenon, <3>1, <3>2 DEF LinkOK
  <2> QED
    BY Zenon, <2>2, <2>3 DEF AllLinks
<1>2. TypeOK /\ LossInv /\ [Next]_vars => LossInv'
  BY Zenon, LossesCounted
<1>3. LossInv => NoUncountedLoss
  BY Zenon DEF LossInv, NoSilentLoss, NoUncountedLoss
<1> QED
  BY <1>1, <1>2, <1>3, TypeCorrect, PTL DEF Spec

-----------------------------------------------------------------------------
(* Snapshots, and the ledger. *)

LedgerInv == OnceInv /\ ShareInv

\* The inductive invariant of the snapshots: which tasks may carry a sample of
\* a peer, that a sample in a snapshot has left queues and short caches, that
\* a sample drained from a short cache is in a snapshot while the sender runs,
\* and that one question at most is on its way to a worker.
THEOREM LedgerInductive == Spec => []LedgerInv
<1>1. Init => LedgerInv
  BY Zenon, InitOnce, InitShares DEF LedgerInv
<1>2. LedgerInv /\ [Next]_vars => LedgerInv'
  <2> SUFFICES ASSUME LedgerInv, [Next]_vars PROVE LedgerInv'
    BY Zenon
  <2>1. OnceInv'
    BY Zenon, NextOnce DEF LedgerInv
  <2>2. ShareInv'
    BY Zenon, ShareStep DEF LedgerInv, OnceInv
  <2> QED
    BY <2>1, <2>2 DEF LedgerInv
<1> QED
  BY <1>1, <1>2, PTL DEF Spec

\* Peers get a sample once and never one of theirs (Task::TakeSnapshot,
\* Task::AddSnapshot, NativeProtocolSnapshot): what is in a snapshot was in no
\* earlier one and in no other worker's part.
THEOREM SnapshotsOnce == Spec => []ReplicatedOnce
<1>1. LedgerInv => ReplicatedOnce
  BY Zenon DEF LedgerInv, ShareInv
<1> QED
  BY <1>1, LedgerInductive, PTL

\* As long as the snapshot sender runs, nothing is rotated, sent or discarded
\* before it is in a snapshot: TakeSnapshot copies the short cache in the same
\* task that drains it.
THEOREM SharedBeforeRotated == Spec => []ReplicatedBeforeRotated
<1>1. LedgerInv => ReplicatedBeforeRotated
  BY Zenon, SharedFirst DEF LedgerInv, OnceInv
<1> QED
  BY <1>1, LedgerInductive, PTL

\* The node keeps the promise of MetricLedger, for any number of workers,
\* overlapping carbon threads, samples, panics and aggregation modes: no
\* interleaving lets a sample out twice, back in, or out before it is shared.
THEOREM KeepsLedger == Spec => ImplementsLedger
<1>1. Init => Ledger!Init
  BY Zenon, LedgerInit
<1>2. LedgerInv /\ LedgerInv' /\ [Next]_vars => [Ledger!Next]_(Ledger!vars)
  BY Zenon, LedgerStep DEF LedgerInv, OnceInv
<1> QED
  BY <1>1, <1>2, LedgerInductive, PTL DEF Spec, ImplementsLedger, Ledger!Spec
=============================================================================
