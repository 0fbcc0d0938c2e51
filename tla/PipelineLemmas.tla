--------------------------- MODULE PipelineLemmas ---------------------------
(***************************************************************************)
(* Lemmas about the operators of Pipeline, the types of its variables      *)
(* after each of its actions, the invariants of its channels, the types of *)
(* the metrics in a cache, losses, the places where a sample can be, and   *)
(* where each action takes it.                                             *)
(*                                                                         *)
(* Places(s) holds the triples <<kind, where, where>> that the predicate   *)
(* At describes, and a sample is at exactly one of them.  A step either    *)
(* leaves the sample where it is, moves the tasks of one queue forward by  *)
(* one, or takes the sample from one triple to another.                    *)
(***************************************************************************)
EXTENDS Pipeline, TLAPS

-----------------------------------------------------------------------------
(* The parser. *)

LEMMA PieceEnds ==
  ASSUME NEW p \in Piece
  PROVE  /\ p.of \in Sample
         /\ p.part # "head" => p = EndOf(p.of)
         /\ \A s \in Sample : p = EndOf(s) => p.of = s /\ p.part # "head"
BY ConstantsAssumption DEF Piece, EndOf, HeadOf

-----------------------------------------------------------------------------
(* Caches. *)

LEMMA AdmittedSamples ==
  ASSUME NEW cache, NEW f, \A i \in DOMAIN f : f[i] \in Sample
  PROVE  /\ Admitted(cache, f) \subseteq Sample
         /\ Refused(cache, f) \subseteq Sample
         /\ Admitted(cache, f) \cup Refused(cache, f) = {f[i] : i \in DOMAIN f}
         /\ Admitted(cache, f) \cap Refused(cache, f) = {}
<1>1. Admitted(cache, f) \subseteq {f[i] : i \in DOMAIN f}
  BY Zenon DEF Admitted
<1> QED
  BY Zenon, <1>1 DEF Refused

LEMMA ParsedSamples ==
  ASSUME NEW buf \in Seq(Piece)
  PROVE  /\ \A i \in DOMAIN Parsed(buf) : Parsed(buf)[i] \in Sample
         /\ Broken(buf) \subseteq Sample
<1>1. \A i \in 1 .. Len(buf) : buf[i].of \in Sample
  BY PieceEnds
<1> QED
  BY Zenon, <1>1 DEF Parsed, Broken

-----------------------------------------------------------------------------
(* Types. *)

LEMMA TaskFields ==
  ASSUME NEW t \in Task
  PROVE  /\ t.kind = "Parse" => t.addr \in Addr /\ t.data \in Seq(Piece)
         /\ t.kind \in {"AddMetric", "AddMetrics", "AddSnapshot"} => t.list \in Seq(Sample)
         /\ t.kind = "Rotate" => t.round \in Round
         /\ t.kind = "Aggregate" => t.round \in Round /\ t.metric \subseteq Sample
BY Zenon DEF Task

LEMMA TakeTaskType ==
  ASSUME NEW w \in Worker, NEW kind, queue \in [Worker -> Seq(Task)], TakeTask(w, kind)
  PROVE  /\ queue' \in [Worker -> Seq(Task)]
         /\ Head(queue[w]) \in Task
         /\ Head(queue[w]).kind = kind
BY DEF TakeTask

LEMMA CounterNames ==
  "AGG_ERRORS" \in Counter /\ "PARSE_ERRORS" \in Counter /\ "DROPS" \in Counter /\ "uncounted" \in Counter
BY DEF Counter

LEMMA KeptType ==
  ASSUME RunnerTypeOK, NEW w \in Worker, NEW a \in Addr
  PROVE  Kept(w, a) \in Seq(Piece)
BY DEF RunnerTypeOK, Kept

LEMMA OneshotTypes ==
  /\ Closed \in Oneshot /\ Open \in Oneshot /\ Cancelled \in Oneshot
  /\ \A v \in SUBSET Sample : Full(v) \in Oneshot
  /\ \A rx \in Oneshot, v \in SUBSET Sample : Reply(rx, v) \in Oneshot
  /\ \A rx \in Oneshot : Cancel(rx) \in Oneshot /\ rx.val \in SUBSET Sample
BY Zenon DEF Oneshot, Closed, Open, Cancelled, Full, Reply, Cancel

LEMMA InitTypes == Init => TypeOK
<1> SUFFICES ASSUME Init PROVE TypeOK
  BY SMTT(30)
<1>1. RunnerTypeOK
  BY OneshotTypes DEF Init, RunnerInit, RunnerTypeOK
<1> QED
  BY Zenon, <1>1 DEF Init, TypeOK, FreeRound, RoundState

-----------------------------------------------------------------------------
(* The supporting invariants. *)

\* The part of RoundInv about one carbon thread.
RoundOK(r) ==
    /\ \A w \in Worker : /\ rotRx[r][w].st # "full" => rotRx[r][w].val = {}
                         /\ w \notin round[r].toFold => rotRx[r][w] = Closed
    /\ round[r].phase # "rotating" => round[r].toFold = {}
    /\ round[r].phase \in {"free", "spawned"} \/ ~round[r].leader => round[r].acc = {}

LEMMA ChannelFacts ==
  /\ Closed.st = "closed" /\ Closed.val = {} /\ Open.st = "open" /\ Open.val = {}
  /\ \A rx : /\ rx = Closed => Cancel(rx) = Closed /\ \A v : Reply(rx, v) = Closed
             /\ (rx.st # "full" => rx.val = {}) => (Cancel(rx).st # "full" => Cancel(rx).val = {})
             /\ (rx.st # "full" => rx.val = {}) => \A v : Reply(rx, v).st # "full" => Reply(rx, v).val = {}
BY DEF Closed, Open, Cancel, Cancelled, Reply, Full

\* Only workers and carbon threads touch channels and rounds.
LEMMA RoundsStep == TypeOK /\ RoundInv /\ [Next]_vars => RoundInv'
\* A carbon thread no step touches.
<1>RoundKept.
  ASSUME NEW r \in Round, RoundOK(r), round'[r] = round[r],
         \A w \in Worker : \/ rotRx'[r][w] = rotRx[r][w]
                           \/ rotRx'[r][w] = Cancel(rotRx[r][w])
                           \/ \E v : rotRx'[r][w] = Reply(rotRx[r][w], v)
  PROVE  RoundOK(r)'
  <2> USE <1>RoundKept
  <2>1. ASSUME NEW w \in Worker
        PROVE  /\ rotRx'[r][w].st # "full" => rotRx'[r][w].val = {}
               /\ w \notin round[r].toFold => rotRx'[r][w] = Closed
    <3>1. /\ rotRx[r][w].st # "full" => rotRx[r][w].val = {}
          /\ w \notin round[r].toFold => rotRx[r][w] = Closed
      BY Zenon DEF RoundOK
    <3>2. CASE rotRx'[r][w] = rotRx[r][w]
      BY Zenon, <3>1, <3>2
    <3>3. CASE rotRx'[r][w] = Cancel(rotRx[r][w])
      BY Zenon, <3>1, <3>3, ChannelFacts
    <3>4. ASSUME NEW v, rotRx'[r][w] = Reply(rotRx[r][w], v)
          PROVE  /\ rotRx'[r][w].st # "full" => rotRx'[r][w].val = {}
                 /\ w \notin round[r].toFold => rotRx'[r][w] = Closed
      BY <3>1, <3>4, ChannelFacts
    <3> QED
      BY Zenon, <3>2, <3>3, <3>4
  <2> QED
    BY Zenon, <2>1 DEF RoundOK
<1>WorkRounds.
  ASSUME TypeOK, RoundInv, NEW w \in Worker, Work(w) \/ Panic(w)
  PROVE  RoundInv'
  <2> USE <1>WorkRounds
  <2>0. rotRx \in [Round -> [Worker -> Oneshot]] /\ queue \in [Worker -> Seq(Task)]
    BY Zenon DEF TypeOK, RunnerTypeOK
  <2>1. UNCHANGED round
    BY Zenon DEF Work, Panic, pipelineVars
  <2>2. ASSUME NEW r \in Round, NEW v \in Worker
        PROVE  \/ rotRx'[r][v] = rotRx[r][v]
               \/ rotRx'[r][v] = Cancel(rotRx[r][v])
               \/ \E x : rotRx'[r][v] = Reply(rotRx[r][v], x)
    <3>1. CASE UNCHANGED rotRx
      BY Zenon, <3>1
    <3>2. CASE RunRotate(w)
      <4>1. Head(queue[w]).round \in Round
        BY Zenon, <2>0, <3>2, TakeTaskType, TaskFields DEF RunRotate
      <4>2. rotRx' = [rotRx EXCEPT ![Head(queue[w]).round][w] = Reply(@, long[w])]
        BY Zenon, <3>2 DEF RunRotate
      <4>3. rotRx'[r][v] = rotRx[r][v] \/ rotRx'[r][v] = Reply(rotRx[r][v], long[w])
        BY Zenon, <2>0, <4>1, <4>2
      <4> QED
        BY Zenon, <4>3
    <3>3. CASE Die(w)
      <4> DEFINE gone(q) == \E i \in Queued(w, "Rotate") : queue[w][i].round = q
      <4>1. rotRx' = [q \in Round |-> [rotRx[q] EXCEPT ![w] = IF gone(q) THEN Cancel(@) ELSE @]]
        BY Zenon, <3>3 DEF Die
      <4> HIDE DEF gone
      <4> QED
        BY Zenon, <2>0, <4>1
    <3> QED
      BY Zenon, <3>1, <3>2, <3>3 DEF Work, Panic, Run, RunParse, RunAddMetrics, RunAddSnapshot,
                              RunTakeSnapshot, RunAggregate
  <2>3. ASSUME NEW r \in Round PROVE RoundOK(r)'
    <3>1. RoundOK(r)
      BY Zenon DEF RoundInv, RoundOK
    <3> QED
      BY Zenon, <2>1, <2>2, <3>1, <1>RoundKept
  <2> QED
    BY Zenon, <2>3 DEF RoundInv, RoundOK
\* A carbon thread changes only its own state and channels.
<1>CarbonRounds.
  ASSUME TypeOK, RoundInv, NEW r \in Round, Carbon(r)
  PROVE  RoundInv'
  <2> USE <1>CarbonRounds
  <2>0. rotRx \in [Round -> [Worker -> Oneshot]] /\ round \in [Round -> RoundState]
    BY Zenon DEF TypeOK, RunnerTypeOK
  <2>1. \A q \in Round : RoundOK(q)
    BY Zenon DEF RoundInv, RoundOK
  <2>2. SUFFICES RoundOK(r)'
    <3>1. \A q \in Round : q # r => round'[q] = round[q] /\ rotRx'[q] = rotRx[q]
      BY Zenon, <2>0 DEF Carbon, CarbonTick, StartRound, AbortRound, SendRotate, Fold, FinishFollower,
                  AggregateSingle, AggregateCommon, AggregateSeparate, SendAggregate, Collect, runnerVars
    <3>2. ASSUME RoundOK(r)', NEW q \in Round PROVE RoundOK(q)'
      <4>1. CASE q = r
        BY <3>2, <4>1
      <4>2. CASE q # r
        BY Zenon, <2>1, <3>1, <4>2, <1>RoundKept
      <4> QED
        BY <4>1, <4>2
    <3> QED
      BY Zenon, <3>2 DEF RoundInv, RoundOK
  <2>3. /\ FreeRound.phase = "free" /\ FreeRound.toFold = {} /\ FreeRound.acc = {}
        /\ ~FreeRound.leader
    BY Zenon DEF FreeRound
  <2>4. CASE CarbonTick(r)
    <3>1. /\ round'[r].phase = "spawned" /\ round'[r].toFold = round[r].toFold
          /\ round'[r].acc = round[r].acc /\ round[r].phase = "free" /\ UNCHANGED rotRx
      BY Zenon, <2>0, <2>4 DEF CarbonTick, RoundState, runnerVars
    <3> QED
      BY Zenon, <2>1, <3>1 DEF RoundOK
  <2>5. CASE StartRound(r)
    <3>1. /\ round'[r].phase = "rotating" /\ round'[r].toFold = Worker
          /\ round'[r].acc = round[r].acc /\ round[r].phase = "spawned"
          /\ \A w \in Worker : rotRx'[r][w] = Open
      BY Zenon, <2>0, <2>5 DEF StartRound, RoundState
    <3> QED
      BY Zenon, <2>1, <3>1, ChannelFacts DEF RoundOK
  <2>6. CASE AbortRound(r)
    <3>1. round'[r] = FreeRound /\ \A w \in Worker : rotRx'[r][w] = Closed
      BY Zenon, <2>0, <2>6 DEF AbortRound
    <3> QED
      BY Zenon, <2>3, <3>1, ChannelFacts DEF RoundOK
  <2>7. ASSUME NEW w \in Worker, SendRotate(r, w) PROVE RoundOK(r)'
    <3>1. /\ round'[r].phase = round[r].phase /\ round'[r].toFold = round[r].toFold
          /\ round'[r].acc = round[r].acc /\ round'[r].leader = round[r].leader
      BY Zenon, <2>0, <2>7 DEF SendRotate, RoundState
    <3>2. \A v \in Worker : rotRx'[r][v] = rotRx[r][v] \/ rotRx'[r][v] = Cancel(rotRx[r][v])
      BY <2>0, <2>7 DEF SendRotate
    <3>3. ASSUME NEW v \in Worker
          PROVE  /\ rotRx'[r][v].st # "full" => rotRx'[r][v].val = {}
                 /\ v \notin round[r].toFold => rotRx'[r][v] = Closed
      <4>1. /\ rotRx[r][v].st # "full" => rotRx[r][v].val = {}
            /\ v \notin round[r].toFold => rotRx[r][v] = Closed
        BY Zenon, <2>1 DEF RoundOK
      <4> QED
        BY Zenon, <3>2, <4>1, ChannelFacts
    <3> QED
      BY Zenon, <2>1, <3>1, <3>3 DEF RoundOK
  <2>8. ASSUME NEW w \in Worker, Fold(r, w) PROVE RoundOK(r)'
    <3>1. /\ round'[r].phase = "rotating" /\ round'[r].toFold = round[r].toFold \ {w}
          /\ round'[r].leader = round[r].leader
      BY <2>0, <2>8 DEF Fold, RoundState
    <3>2. ~round[r].leader => round'[r].acc = round[r].acc
      BY Zenon, <2>0, <2>8 DEF Fold, RoundState
    <3>3. \A v \in Worker : rotRx'[r][v] = IF v = w THEN Closed ELSE rotRx[r][v]
      BY Zenon, <2>0, <2>8 DEF Fold
    <3>4. ASSUME NEW v \in Worker
          PROVE  /\ rotRx'[r][v].st # "full" => rotRx'[r][v].val = {}
                 /\ v \notin round[r].toFold \ {w} => rotRx'[r][v] = Closed
      <4>1. CASE v = w
        BY Zenon, <3>3, <4>1, ChannelFacts
      <4>2. CASE v # w
        BY <2>1, <3>3, <4>2 DEF RoundOK
      <4> QED
        BY Zenon, <4>1, <4>2
    <3> QED
      BY Zenon, <2>1, <3>1, <3>2, <3>4 DEF RoundOK
  <2>9. CASE FinishFollower(r)
    <3>1. round'[r] = FreeRound /\ UNCHANGED rotRx /\ round[r].toFold = {}
      BY Zenon, <2>0, <2>9 DEF FinishFollower, Rotated, runnerVars
    <3> QED
      BY Zenon, <2>1, <2>3, <3>1 DEF RoundOK
  <2>10. CASE AggregateSingle(r)
    <3>1. /\ round'[r].acc = {} /\ round'[r].toFold = {} /\ round[r].toFold = {}
          /\ UNCHANGED rotRx
      BY Zenon, <2>0, <2>10 DEF AggregateSingle, Rotated, RoundState
    <3> QED
      BY Zenon, <2>1, <3>1 DEF RoundOK
  <2>11. CASE AggregateCommon(r)
    <3>1. /\ round'[r].phase = "emitting" /\ round'[r].leader
          /\ round'[r].toFold = {} /\ round[r].toFold = {} /\ UNCHANGED rotRx
      BY Zenon, <2>0, <2>11 DEF AggregateCommon, Rotated, RoundState, runnerVars
    <3> QED
      BY Zenon, <2>1, <3>1 DEF RoundOK
  <2>12. CASE AggregateSeparate(r)
    <3>1. /\ \/ round'[r] = FreeRound
             \/ round'[r].phase = "emitting" /\ round'[r].leader /\ round'[r].toFold = {}
          /\ round[r].toFold = {} /\ UNCHANGED rotRx
      BY ZenonT(30), <2>0, <2>12 DEF AggregateSeparate, Rotated, RoundState
    <3> QED
      BY Zenon, <2>1, <2>3, <3>1 DEF RoundOK
  <2>13. ASSUME NEW t \in Sample, SendAggregate(r, t) PROVE RoundOK(r)'
    <3>1. /\ round'[r].phase = "emitting" /\ round[r].phase = "emitting"
          /\ round'[r].toFold = round[r].toFold /\ round'[r].leader = round[r].leader
          /\ round'[r].acc \subseteq round[r].acc
          /\ UNCHANGED rotRx
      BY Zenon, <2>0, <2>13 DEF SendAggregate, RoundState
    <3> QED
      BY Zenon, <2>1, <3>1 DEF RoundOK
  <2>14. CASE Collect(r)
    <3>1. round'[r] = FreeRound /\ UNCHANGED rotRx /\ round[r].phase = "emitting"
      BY Zenon, <2>0, <2>14 DEF Collect
    <3> QED
      BY Zenon, <2>1, <2>3, <3>1 DEF RoundOK
  <2> QED
    BY Zenon, <2>4, <2>5, <2>6, <2>7, <2>8, <2>9, <2>10, <2>11, <2>12, <2>13, <2>14 DEF Carbon
<1> SUFFICES ASSUME TypeOK, RoundInv, [Next]_vars PROVE RoundInv'
  BY Zenon
<1>1. CASE UNCHANGED <<rotRx, round>>
  BY Zenon, <1>1 DEF RoundInv
<1>2. ASSUME NEW w \in Worker, Work(w) \/ Panic(w) PROVE RoundInv'
  BY Zenon, <1>2, <1>WorkRounds
<1>3. ASSUME NEW r \in Round, Carbon(r) PROVE RoundInv'
  BY <1>3, <1>CarbonRounds
<1> QED
  BY ZenonT(30), <1>1, <1>2, <1>3 DEF Next, ReceiveText, ReceiveMetrics, SendParse, SendMetrics, Snapshot,
     SnapTick, SnapJoin, SnapFail, SendTakeSnapshot, SetLeader, vars, runnerVars, pipelineVars

\* The two conjuncts of TextInv.
KeptHeads ==
    \A w \in Worker, a \in Addr : \A i \in DOMAIN Kept(w, a) : Kept(w, a)[i].part = "head"

PiecesOnce ==
    \A w \in Worker : \A k \in Queued(w, "Parse") : \A i, j \in DOMAIN queue[w][k].data :
        queue[w][k].data[i] = queue[w][k].data[j] => i = j

Distinct(t) == t.kind = "Parse" => \A i, j \in DOMAIN t.data : t.data[i] = t.data[j] => i = j

LEMMA PiecesStep == TypeOK /\ PiecesOnce /\ Next => PiecesOnce'
<1>PiecesForm. PiecesOnce <=> \A w \in Worker : \A k \in DOMAIN queue[w] : Distinct(queue[w][k])
  BY Zenon DEF PiecesOnce, Queued, Distinct
\* Every task of a queue after the step was in it before, or has no piece twice.
<1>PiecesKept.
  ASSUME PiecesOnce,
         \A w \in Worker : \A k \in DOMAIN queue'[w] :
             Distinct(queue'[w][k]) \/ \E l \in DOMAIN queue[w] : queue'[w][k] = queue[w][l]
  PROVE  PiecesOnce'
  <2> USE <1>PiecesKept
  <2>1. \A w \in Worker : \A k \in DOMAIN queue'[w] : Distinct(queue'[w][k])
    BY Zenon, <1>PiecesForm
  <2> QED
    BY Zenon, <2>1 DEF PiecesOnce, Queued, Distinct
<1>PiecesSent.
  ASSUME PiecesOnce, queue \in [Worker -> Seq(Task)], NEW w \in Worker, NEW t \in Task, Distinct(t),
         queue' = Enqueue(w, t)
  PROVE  PiecesOnce'
  <2> USE <1>PiecesSent
  <2>1. ASSUME NEW v \in Worker, NEW k \in DOMAIN queue'[v]
        PROVE  Distinct(queue'[v][k]) \/ \E l \in DOMAIN queue[v] : queue'[v][k] = queue[v][l]
    <3>1. CASE v # w
      BY Zenon, <3>1 DEF Enqueue
    <3>2. CASE v = w
      <4>1. queue'[w] = Append(queue[w], t) /\ queue[w] \in Seq(Task)
        BY Zenon DEF Enqueue
      <4>2. k \in 1 .. Len(queue[w]) + 1
        BY <3>2, <4>1
      <4>3. queue'[w][k] = IF k <= Len(queue[w]) THEN queue[w][k] ELSE t
        BY <4>1, <4>2
      <4> QED
        BY <3>2, <4>1, <4>2, <4>3
    <3> QED
      BY Zenon, <3>1, <3>2
  <2> QED
    BY Zenon, <2>1, <1>PiecesKept
<1>PiecesTaken.
  ASSUME PiecesOnce, queue \in [Worker -> Seq(Task)], NEW w \in Worker, NEW kind, TakeTask(w, kind)
  PROVE  PiecesOnce'
  <2> USE <1>PiecesTaken
  <2>1. ASSUME NEW v \in Worker, NEW k \in DOMAIN queue'[v]
        PROVE  \E l \in DOMAIN queue[v] : queue'[v][k] = queue[v][l]
    <3>1. CASE v # w
      BY Zenon, <3>1 DEF TakeTask
    <3>2. CASE v = w
      <4>1. queue'[w] = Tail(queue[w]) /\ queue[w] \in Seq(Task) /\ queue[w] # <<>>
        BY Zenon DEF TakeTask
      <4>2. k \in 1 .. Len(queue[w]) - 1 /\ queue'[w][k] = queue[w][k + 1]
        BY <3>2, <4>1
      <4>3. k + 1 \in DOMAIN queue[w]
        BY <4>1, <4>2
      <4> QED
        BY Zenon, <3>2, <4>2, <4>3
    <3> QED
      BY Zenon, <3>1, <3>2
  <2> QED
    BY Zenon, <2>1, <1>PiecesKept
<1> SUFFICES ASSUME TypeOK, PiecesOnce, Next PROVE PiecesOnce'
  BY Zenon
<1>0. queue \in [Worker -> Seq(Task)] /\ round \in [Round -> RoundState]
  BY Zenon DEF TypeOK, RunnerTypeOK
<1>1. CASE UNCHANGED queue
  BY <1>1 DEF PiecesOnce, Queued
<1>2. CASE ReceiveText
  <2>1. PICK p \in Route, d \in Data : SendParse(p[2], p[1], d)
    BY Zenon, <1>2 DEF ReceiveText
  <2> DEFINE t == [kind |-> "Parse", addr |-> p[1], data |-> d]
  <2>2. p[2] \in Worker /\ t \in Task
    BY Zenon, PipelineAssumption DEF Task
  <2>3. Distinct(t)
    BY Zenon, <2>1 DEF SendParse, Distinct
  <2>4. UNCHANGED queue \/ queue' = Enqueue(p[2], t)
    BY Zenon, <2>1 DEF SendParse
  <2> HIDE DEF t
  <2> QED
    BY <1>0, <1>1, <2>2, <2>3, <2>4, <1>PiecesSent
<1>3. CASE ReceiveMetrics
  <2>1. PICK w \in Worker, l \in List, k \in {"AddMetric", "AddMetrics", "AddSnapshot"} : SendMetrics(w, k, l)
    BY Zenon, <1>3 DEF ReceiveMetrics
  <2> DEFINE t == [kind |-> k, list |-> l]
  <2>2. t \in Task /\ Distinct(t)
    BY Zenon, PipelineAssumption DEF Task, Distinct
  <2>3. UNCHANGED queue \/ queue' = Enqueue(w, t)
    BY Zenon, <2>1 DEF SendMetrics
  <2> HIDE DEF t
  <2> QED
    BY Zenon, <1>0, <1>1, <2>2, <2>3, <1>PiecesSent
<1>4. ASSUME NEW w \in Worker, Work(w) PROVE PiecesOnce'
  <2>1. PICK kind : TakeTask(w, kind)
    BY Zenon, <1>4 DEF Work, Run, RunParse, RunAddMetrics, RunAddSnapshot, RunTakeSnapshot, RunRotate, RunAggregate
  <2> QED
    BY Zenon, <1>0, <2>1, <1>PiecesTaken
<1>5. ASSUME NEW w \in Worker, Panic(w) PROVE PiecesOnce'
  <2>1. \A v \in Worker : queue'[v] = IF v = w THEN <<>> ELSE queue[v]
    BY Zenon, <1>0, <1>5 DEF Panic, Die
  <2> QED
    BY SMTT(20), <2>1, <1>PiecesKept
<1>6. CASE Snapshot
  <2>1. [kind |-> "TakeSnapshot"] \in Task /\ Distinct([kind |-> "TakeSnapshot"])
    BY Zenon DEF Task, Distinct
  <2>2. UNCHANGED queue \/ \E w \in Worker : queue' = Enqueue(w, [kind |-> "TakeSnapshot"])
    BY Zenon, <1>6 DEF Snapshot, SnapTick, SnapJoin, SnapFail, SendTakeSnapshot
  <2> QED
    BY Zenon, <1>0, <1>1, <2>1, <2>2, <1>PiecesSent
<1>7. ASSUME NEW r \in Round, Carbon(r) PROVE PiecesOnce'
  <2>1. ASSUME NEW w \in Worker, SendRotate(r, w) PROVE PiecesOnce'
    <3>1. [kind |-> "Rotate", round |-> r] \in Task /\ Distinct([kind |-> "Rotate", round |-> r])
      BY Zenon DEF Task, Distinct
    <3>2. UNCHANGED queue \/ queue' = Enqueue(w, [kind |-> "Rotate", round |-> r])
      BY Zenon, <2>1 DEF SendRotate
    <3> QED
      BY Zenon, <1>0, <1>1, <3>1, <3>2, <1>PiecesSent
  <2>2. ASSUME NEW s \in Sample, SendAggregate(r, s) PROVE PiecesOnce'
    <3> DEFINE w == round[r].num % W
               t == [kind |-> "Aggregate", round |-> r, metric |-> {u \in round[r].acc : SameName(s, u)}]
    <3>1. w \in Worker
      BY SMTT(30), <1>0, ConstantsAssumption DEF Worker, RoundState
    <3>2. t \in Task /\ Distinct(t)
      BY Zenon, <1>0 DEF Task, Distinct, RoundState
    <3>3. UNCHANGED queue \/ queue' = Enqueue(w, t)
      BY Zenon, <2>2 DEF SendAggregate
    <3> HIDE DEF t, w
    <3> QED
      BY <1>0, <1>1, <3>1, <3>2, <3>3, <1>PiecesSent
  <2> QED
    BY Zenon, <1>1, <1>7, <2>1, <2>2 DEF Carbon, CarbonTick, StartRound, AbortRound, Fold, FinishFollower,
       AggregateSingle, AggregateCommon, AggregateSeparate, Collect, runnerVars
<1>8. CASE SetLeader
  BY Zenon, <1>1, <1>8 DEF SetLeader, runnerVars
<1> QED
  BY <1>2, <1>3, <1>4, <1>5, <1>6, <1>7, <1>8 DEF Next

-----------------------------------------------------------------------------
(* Types. *)

\* No two samples of a cache have one name and different types.
Uniform(S) == \A s, t \in S : ~Conflict(s, t)

\* A set of numbers has a smallest one: a fact of the library, which the
\* lemmas about lists of samples take as a hypothesis.
HasLeast == \A I \in SUBSET Nat : I # {} => \E i \in I : \A j \in I : i <= j

UniformAt(w) == Uniform(short[w]) /\ Uniform(long[w]) /\ Uniform(snapRx[w].val)

UniformRound(r) == Uniform(round[r].acc) /\ \A w \in Worker : Uniform(rotRx[r][w].val)

\* No step mixes two types under a name.
LEMMA UniformStep == HasLeast /\ TypeOK /\ OneTypePerName /\ [Next]_vars => OneTypePerName'
\* The first sample of a name decides the type, or the cache does.
<1>AdmittedUniform.
  ASSUME HasLeast, NEW cache, Uniform(cache), NEW f, DOMAIN f \in SUBSET Nat
  PROVE  Uniform(cache \cup Admitted(cache, f))
  <2> USE <1>AdmittedUniform
  <2> DEFINE first(j) == \A k \in DOMAIN f : SameName(f[k], f[j]) => j <= k
             ok(i) == /\ \A c \in cache : ~Conflict(c, f[i])
                      /\ \/ \E c \in cache : SameName(c, f[i])
                         \/ \A j \in DOMAIN f : first(j) => ~Conflict(f[j], f[i])
  <2>1. \A s \in Admitted(cache, f) : \E i \in DOMAIN f : s = f[i] /\ ok(i)
    BY Zenon DEF Admitted
  <2>2. ASSUME NEW s \in Admitted(cache, f), NEW c \in cache PROVE ~Conflict(c, s) /\ ~Conflict(s, c)
    BY Zenon, <2>1, <2>2 DEF Conflict, SameName
  <2>3. ASSUME NEW s \in Admitted(cache, f), NEW t \in Admitted(cache, f), Conflict(s, t) PROVE FALSE
    <3>0. PICK i \in DOMAIN f, j \in DOMAIN f : s = f[i] /\ ok(i) /\ t = f[j] /\ ok(j)
      BY ZenonT(30), <2>1, <2>3
    <3>1. CASE \E c \in cache : SameName(c, s)
      BY Zenon, <2>2, <2>3, <3>1 DEF Conflict, SameName
    <3>2. CASE ~\E c \in cache : SameName(c, s)
      <4> DEFINE I == {k \in DOMAIN f : SameName(f[k], s)}
      <4>1. PICK m \in I : \A k \in I : m <= k
        <5>1. I \in SUBSET Nat /\ I # {}
          BY Zenon, <3>0 DEF SameName
        <5> HIDE DEF I
        <5> QED
          BY Zenon, <5>1 DEF HasLeast
      <4>2. m \in DOMAIN f /\ first(m)
        BY Zenon, <4>1 DEF SameName
      <4>3. ~\E c \in cache : SameName(c, t)
        BY Zenon, <2>3, <3>2 DEF Conflict, SameName
      <4>4. ~Conflict(f[m], s) /\ ~Conflict(f[m], t)
        BY ZenonT(30), <3>0, <3>2, <4>2, <4>3
      <4> QED
        BY Zenon, <2>3, <4>1, <4>4 DEF Conflict, SameName
    <3> QED
      BY Zenon, <3>1, <3>2
  <2> QED
    BY Zenon, <2>2, <2>3 DEF Uniform
<1>MergeUniform.
  ASSUME NEW cache, NEW other, Uniform(cache), Uniform(other)
  PROVE  Uniform(cache \cup Merge(cache, other))
  BY Zenon, <1>MergeUniform DEF Uniform, Merge, Conflict, SameName
<1>UniformSubset. \A S, T : S \subseteq T /\ Uniform(T) => Uniform(S)
  BY Zenon DEF Uniform
<1>AnswerValues.
  \A rx, v : /\ Reply(rx, v).val \in {rx.val, v}
            /\ Cancel(rx).val \in {rx.val, {}}
  BY Zenon DEF Reply, Cancel, Full, Cancelled
<1>UniformForm.
  OneTypePerName <=> (\A w \in Worker : UniformAt(w)) /\ (\A r \in Round : UniformRound(r))
  BY Zenon DEF OneTypePerName, UniformAt, UniformRound, Uniform
<1>UniformFormNext.
  OneTypePerName' <=> (\A w \in Worker : UniformAt(w)') /\ (\A r \in Round : UniformRound(r)')
  BY Zenon DEF OneTypePerName, UniformAt, UniformRound, Uniform
\* The caches of worker w after a list of samples was put into one of them.
<1>ListUniform.
  ASSUME HasLeast, TypeOK, OneTypePerName, NEW w \in Worker, NEW f, DOMAIN f \in SUBSET Nat,
         \/ short' = [short EXCEPT ![w] = @ \cup Admitted(@, f)] /\ UNCHANGED long
         \/ long' = [long EXCEPT ![w] = @ \cup Admitted(@, f)] /\ UNCHANGED short,
         UNCHANGED snapRx
  PROVE  \A v \in Worker : UniformAt(v)'
  <2> USE <1>ListUniform
  <2>0. short \in [Worker -> SUBSET Sample] /\ long \in [Worker -> SUBSET Sample]
    BY Zenon DEF TypeOK, RunnerTypeOK
  <2>1. \A v \in Worker : UniformAt(v)
    BY Zenon, <1>UniformForm
  <2>2. Uniform(short[w] \cup Admitted(short[w], f)) /\ Uniform(long[w] \cup Admitted(long[w], f))
    BY Zenon, <2>1, <1>AdmittedUniform DEF UniformAt
  <2> QED
    BY ZenonT(30), <2>0, <2>1, <2>2 DEF UniformAt
<1>WorkUniform.
  ASSUME HasLeast, TypeOK, OneTypePerName, NEW w \in Worker, Work(w) \/ Panic(w)
  PROVE  OneTypePerName'
  <2> USE <1>WorkUniform
  <2>0. /\ short \in [Worker -> SUBSET Sample] /\ long \in [Worker -> SUBSET Sample]
        /\ snapRx \in [Worker -> Oneshot] /\ rotRx \in [Round -> [Worker -> Oneshot]]
        /\ queue \in [Worker -> Seq(Task)]
    BY Zenon DEF TypeOK, RunnerTypeOK
  <2>1. (\A v \in Worker : UniformAt(v)) /\ (\A r \in Round : UniformRound(r))
    BY Zenon, <1>UniformForm
  <2>2. UNCHANGED round
    BY Zenon DEF Work, Panic, pipelineVars
  <2>3. UNCHANGED rotRx => \A r \in Round : UniformRound(r)'
    BY Zenon, <2>1, <2>2 DEF UniformRound
  <2>4. CASE RunParse(w)
    <3> DEFINE buf  == Kept(w, Head(queue[w]).addr) \o Head(queue[w]).data
               list == Parsed(buf)
    <3>1. buf \in Seq(Piece)
      <4>1. TakeTask(w, "Parse")
        BY Zenon, <2>4 DEF RunParse
      <4>2. Head(queue[w]).addr \in Addr /\ Head(queue[w]).data \in Seq(Piece)
        BY Zenon, <2>0, <4>1, TakeTaskType, TaskFields
      <4>3. Kept(w, Head(queue[w]).addr) \in Seq(Piece)
        BY Zenon, <4>2, KeptType DEF TypeOK
      <4> QED
        BY <4>2, <4>3
    <3>2. DOMAIN list \in SUBSET Nat
      <4> HIDE DEF buf
      <4> QED
        BY <3>1 DEF Parsed
    <3>3. /\ short' = [short EXCEPT ![w] = @ \cup Admitted(@, list)]
          /\ UNCHANGED <<long, snapRx, rotRx>>
      BY Zenon, <2>4 DEF RunParse
    <3> HIDE DEF list
    <3> QED
      BY ZenonT(30), <2>3, <3>2, <3>3, <1>ListUniform, <1>UniformFormNext
  <2>5. CASE RunAddMetrics(w) \/ RunAddSnapshot(w)
    <3> DEFINE list == Head(queue[w]).list
    <3>1. list \in Seq(Sample)
      <4>1. \E kind \in {"AddMetric", "AddMetrics", "AddSnapshot"} : TakeTask(w, kind)
        BY Zenon, <2>5 DEF RunAddMetrics, RunAddSnapshot
      <4> QED
        BY Zenon, <2>0, <4>1, TakeTaskType, TaskFields
    <3>2. DOMAIN list \in SUBSET Nat
      <4> HIDE DEF list
      <4> QED
        BY <3>1
    <3>3. /\ \/ short' = [short EXCEPT ![w] = @ \cup Admitted(@, list)] /\ UNCHANGED long
             \/ long' = [long EXCEPT ![w] = @ \cup Admitted(@, list)] /\ UNCHANGED short
          /\ UNCHANGED <<snapRx, rotRx>>
      BY Zenon, <2>5 DEF RunAddMetrics, RunAddSnapshot
    <3> HIDE DEF list
    <3> QED
      BY Zenon, <2>3, <3>2, <3>3, <1>ListUniform, <1>UniformFormNext
  <2>6. CASE RunTakeSnapshot(w)
    <3>1. /\ snapRx' = [snapRx EXCEPT ![w] = Reply(@, short[w])]
          /\ long' = [long EXCEPT ![w] = @ \cup Merge(@, short[w])]
          /\ short' = [short EXCEPT ![w] = {}]
          /\ UNCHANGED rotRx
      BY Zenon, <2>6 DEF RunTakeSnapshot
    <3>2. Uniform({}) /\ Uniform(long[w] \cup Merge(long[w], short[w]))
      BY Zenon, <2>1, <1>MergeUniform DEF UniformAt, Uniform
    <3>3. UniformAt(w)'
      <4>1. short'[w] = {} /\ long'[w] = long[w] \cup Merge(long[w], short[w])
        BY Zenon, <2>0, <3>1
      <4>2. snapRx'[w].val \in {snapRx[w].val, short[w]}
        BY Zenon, <2>0, <3>1, <1>AnswerValues
      <4> QED
        BY Zenon, <2>1, <3>2, <4>1, <4>2 DEF UniformAt
    <3>4. ASSUME NEW v \in Worker, v # w PROVE UniformAt(v)'
      BY Zenon, <2>0, <2>1, <3>1, <3>4 DEF UniformAt
    <3> QED
      BY Zenon, <2>3, <3>1, <3>3, <3>4, <1>UniformFormNext
  <2>7. CASE RunRotate(w)
    <3> DEFINE q == Head(queue[w]).round
    <3>1. /\ rotRx' = [rotRx EXCEPT ![q][w] = Reply(@, long[w])]
          /\ long' = [long EXCEPT ![w] = {}]
          /\ UNCHANGED <<short, snapRx>>
      BY Zenon, <2>7 DEF RunRotate
    <3> HIDE DEF q
    <3>2. ASSUME NEW v \in Worker PROVE UniformAt(v)'
      <4>1. long'[v] \in {long[v], {}}
        BY Zenon, <2>0, <3>1
      <4> QED
        BY Zenon, <2>1, <3>1, <4>1 DEF UniformAt, Uniform
    <3>3. ASSUME NEW r \in Round PROVE UniformRound(r)'
      <4>1. ASSUME NEW v \in Worker PROVE rotRx'[r][v].val \in {rotRx[r][v].val, long[w]}
        BY <2>0, <3>1, <1>AnswerValues
      <4> QED
        BY ZenonT(30), <2>1, <2>2, <4>1 DEF UniformRound, UniformAt
    <3> QED
      BY Zenon, <3>2, <3>3, <1>UniformFormNext
  <2>8. CASE RunAggregate(w)
    <3>1. UNCHANGED <<short, long, snapRx, rotRx>>
      BY Zenon, <2>8 DEF RunAggregate
    <3> QED
      BY Zenon, <2>1, <2>3, <3>1, <1>UniformFormNext DEF UniformAt
  <2>9. CASE Die(w)
    <3>1. /\ short' = [short EXCEPT ![w] = {}] /\ long' = [long EXCEPT ![w] = {}]
          /\ snapRx' = [snapRx EXCEPT ![w] = IF Queued(w, "TakeSnapshot") # {} THEN Cancel(@) ELSE @]
          /\ rotRx' = [r \in Round |-> [rotRx[r] EXCEPT ![w] =
                 IF \E i \in Queued(w, "Rotate") : queue[w][i].round = r THEN Cancel(@) ELSE @]]
      BY Zenon, <2>9 DEF Die
    <3>2. ASSUME NEW v \in Worker PROVE UniformAt(v)'
      <4>1. short'[v] \in {short[v], {}} /\ long'[v] \in {long[v], {}}
        BY Zenon, <2>0, <3>1
      <4>2. snapRx'[v].val \in {snapRx[v].val, {}}
        BY Zenon, <2>0, <3>1, <1>AnswerValues
      <4> QED
        BY Zenon, <2>1, <4>1, <4>2 DEF UniformAt, Uniform
    <3>3. ASSUME NEW r \in Round PROVE UniformRound(r)'
      <4>1. ASSUME NEW v \in Worker PROVE rotRx'[r][v].val \in {rotRx[r][v].val, {}}
        BY Zenon, <2>0, <3>1, <1>AnswerValues
      <4> QED
        BY Zenon, <2>1, <2>2, <4>1 DEF UniformRound, Uniform
    <3> QED
      BY Zenon, <3>2, <3>3, <1>UniformFormNext
  <2> QED
    BY ZenonT(30), <2>4, <2>5, <2>6, <2>7, <2>8, <2>9 DEF Work, Panic, Run
<1>CarbonUniform.
  ASSUME TypeOK, OneTypePerName, NEW r \in Round, Carbon(r)
  PROVE  OneTypePerName'
  <2> USE <1>CarbonUniform
  <2>0. rotRx \in [Round -> [Worker -> Oneshot]] /\ round \in [Round -> RoundState]
    BY Zenon DEF TypeOK, RunnerTypeOK
  <2>1. (\A v \in Worker : UniformAt(v)) /\ (\A q \in Round : UniformRound(q))
    BY Zenon, <1>UniformForm
  <2>2. UNCHANGED <<short, long, snapRx>>
    BY Zenon DEF Carbon, CarbonTick, StartRound, AbortRound, SendRotate, Fold, FinishFollower,
                AggregateSingle, AggregateCommon, AggregateSeparate, SendAggregate, Collect, runnerVars
  <2>3. \A q \in Round : q # r => round'[q] = round[q] /\ rotRx'[q] = rotRx[q]
    BY Zenon, <2>0 DEF Carbon, CarbonTick, StartRound, AbortRound, SendRotate, Fold, FinishFollower,
                AggregateSingle, AggregateCommon, AggregateSeparate, SendAggregate, Collect, runnerVars
  <2>4. \A w \in Worker : rotRx'[r][w].val \in {rotRx[r][w].val, {}}
    <3>1. CASE UNCHANGED rotRx
      BY Zenon, <3>1
    <3>2. CASE StartRound(r)
      BY Zenon, <2>0, <3>2 DEF StartRound, Open
    <3>3. CASE AbortRound(r)
      <4>1. rotRx' = [rotRx EXCEPT ![r] = [w \in Worker |-> Closed]]
        BY Zenon, <3>3 DEF AbortRound
      <4> QED
        BY Zenon, <2>0, <4>1 DEF Closed
    <3>4. ASSUME NEW v \in Worker, rotRx' = [rotRx EXCEPT ![r][v] = Cancel(@)]
          PROVE  \A w \in Worker : rotRx'[r][w].val \in {rotRx[r][w].val, {}}
      <4>1. \A w \in Worker : rotRx'[r][w] = IF w = v THEN Cancel(rotRx[r][v]) ELSE rotRx[r][w]
        BY Zenon, <2>0, <3>4
      <4> QED
        BY Zenon, <4>1, <1>AnswerValues
    <3>5. ASSUME NEW v \in Worker, Fold(r, v)
          PROVE  \A w \in Worker : rotRx'[r][w].val \in {rotRx[r][w].val, {}}
      <4>1. rotRx' = [rotRx EXCEPT ![r][v] = Closed]
        BY Zenon, <3>5 DEF Fold
      <4> QED
        BY Zenon, <2>0, <4>1 DEF Closed
    <3>6. ASSUME NEW v \in Worker, SendRotate(r, v)
          PROVE  UNCHANGED rotRx \/ rotRx' = [rotRx EXCEPT ![r][v] = Cancel(@)]
      BY Zenon, <3>6 DEF SendRotate
    <3> QED
      BY Zenon, <3>1, <3>2, <3>3, <3>4, <3>5, <3>6 DEF Carbon, CarbonTick, FinishFollower,
         AggregateSingle, AggregateCommon, AggregateSeparate, SendAggregate, Collect, runnerVars
  <2>5. Uniform(round'[r].acc)
    <3>0. Uniform(round[r].acc) /\ \A w \in Worker : Uniform(rotRx[r][w].val)
      BY Zenon, <2>1 DEF UniformRound
    <3>1. SUFFICES \/ round'[r].acc \subseteq round[r].acc
                   \/ \E w \in Worker : round'[r].acc = round[r].acc \cup Merge(round[r].acc, rotRx[r][w].val)
      BY Zenon, <3>0, <3>1, <1>UniformSubset, <1>MergeUniform
    <3>2. CASE CarbonTick(r) \/ AggregateCommon(r)
      <4>1. round' = [round EXCEPT ![r].phase = "spawned"] \/ round' = [round EXCEPT ![r].phase = "emitting"]
        BY Zenon, <3>2 DEF CarbonTick, AggregateCommon
      <4> QED
        BY ZenonT(30), <2>0, <4>1 DEF RoundState
    <3>3. CASE StartRound(r)
      BY Zenon, <2>0, <3>3 DEF StartRound, RoundState
    <3>4. CASE round' = [round EXCEPT ![r] = FreeRound]
      BY Zenon, <2>0, <3>4 DEF FreeRound
    <3>5. ASSUME NEW w \in Worker, SendRotate(r, w) PROVE round'[r].acc = round[r].acc
      <4>1. round' = [round EXCEPT ![r].toSend = @ \ {w}]
        BY Zenon, <3>5 DEF SendRotate
      <4> QED
        BY <2>0, <4>1
    <3>6. ASSUME NEW w \in Worker, Fold(r, w)
          PROVE  \/ round'[r].acc = round[r].acc
                 \/ round'[r].acc = round[r].acc \cup Merge(round[r].acc, rotRx[r][w].val)
      <4> DEFINE rotated == rotRx[r][w].val
      <4>1. \/ round' = [round EXCEPT ![r].toFold = @ \ {w}, ![r].acc = @ \cup Merge(@, rotated)]
            \/ round' = [round EXCEPT ![r].toFold = @ \ {w}]
        BY Zenon, <3>6 DEF Fold
      <4> HIDE DEF rotated
      <4>2. round'[r].acc = round[r].acc \/ round'[r].acc = round[r].acc \cup Merge(round[r].acc, rotated)
        BY <2>0, <4>1 DEF RoundState
      <4> QED
        BY Zenon, <4>2 DEF rotated
    <3>7. CASE AggregateSingle(r)
      <4>1. round' = [round EXCEPT ![r].phase = "emitting", ![r].acc = {}]
        BY Zenon, <3>7 DEF AggregateSingle
      <4> QED
        BY Zenon, <2>0, <4>1 DEF RoundState
    <3>8. ASSUME AggregateSeparate(r), round' # [round EXCEPT ![r] = FreeRound]
          PROVE  round'[r].acc = round[r].acc
      <4>1. round' = [round EXCEPT ![r].phase = "emitting"]
        BY Zenon, <3>8 DEF AggregateSeparate
      <4> QED
        BY <2>0, <4>1
    <3>9. ASSUME NEW s \in Sample, SendAggregate(r, s) PROVE round'[r].acc \subseteq round[r].acc
      <4> DEFINE metric == {t \in round[r].acc : SameName(s, t)}
      <4>1. round' = [round EXCEPT ![r].acc = @ \ metric, ![r].num = @ + 1]
        BY Zenon, <3>9 DEF SendAggregate
      <4> HIDE DEF metric
      <4> QED
        BY Zenon, <2>0, <4>1 DEF RoundState
    <3> QED
      BY Zenon, <3>2, <3>3, <3>4, <3>5, <3>6, <3>7, <3>8, <3>9
         DEF Carbon, AbortRound, FinishFollower, Collect
  <2>6. \A v \in Worker : UniformAt(v)'
    BY Zenon, <2>1, <2>2 DEF UniformAt
  <2>7. ASSUME NEW q \in Round PROVE UniformRound(q)'
    <3>1. CASE q = r
      BY Zenon, <2>1, <2>4, <2>5, <3>1 DEF UniformRound, Uniform
    <3>2. CASE q # r
      BY Zenon, <2>1, <2>3, <3>2 DEF UniformRound
    <3> QED
      BY Zenon, <3>1, <3>2
  <2> QED
    BY ZenonT(30), <2>6, <2>7, <1>UniformFormNext
<1>OtherUniform.
  ASSUME TypeOK, OneTypePerName,
         ReceiveText \/ ReceiveMetrics \/ Snapshot \/ SetLeader \/ UNCHANGED vars
  PROVE  OneTypePerName'
  <2> USE <1>OtherUniform
  <2>0. snapRx \in [Worker -> Oneshot]
    BY Zenon DEF TypeOK, RunnerTypeOK
  <2>1. (\A v \in Worker : UniformAt(v)) /\ (\A q \in Round : UniformRound(q))
    BY Zenon, <1>UniformForm
  <2>2. UNCHANGED <<short, long, rotRx, round>>
    BY Zenon DEF ReceiveText, ReceiveMetrics, SendParse, SendMetrics, Snapshot, SnapTick, SnapJoin,
       SnapFail, SendTakeSnapshot, SetLeader, vars, runnerVars, pipelineVars
  <2>3. \A v \in Worker : snapRx'[v].val \in {snapRx[v].val, {}}
    <3>1. CASE UNCHANGED snapRx
      BY Zenon, <3>1
    <3>2. CASE SnapTick \/ SnapJoin \/ SnapFail
      <4>1. snapRx' = [w \in Worker |-> Open] \/ snapRx' = [w \in Worker |-> Closed]
        BY Zenon, <3>2 DEF SnapTick, SnapJoin, SnapFail
      <4> QED
        BY Zenon, <4>1, ChannelFacts
    <3>3. ASSUME NEW w \in Worker, SendTakeSnapshot(w)
          PROVE  UNCHANGED snapRx \/ snapRx' = [snapRx EXCEPT ![w] = Cancel(@)]
      BY Zenon, <3>3 DEF SendTakeSnapshot
    <3>4. ASSUME NEW w \in Worker, snapRx' = [snapRx EXCEPT ![w] = Cancel(@)]
          PROVE  \A v \in Worker : snapRx'[v].val \in {snapRx[v].val, {}}
      BY Zenon, <2>0, <3>4, <1>AnswerValues
    <3> QED
      BY ZenonT(30), <3>1, <3>2, <3>3, <3>4 DEF ReceiveText, ReceiveMetrics, SendParse, SendMetrics, Snapshot,
         SetLeader, vars, runnerVars
  <2> QED
    BY Zenon, <2>1, <2>2, <2>3, <1>UniformFormNext DEF UniformAt, UniformRound, Uniform
<1> QED
  BY Zenon, <1>WorkUniform, <1>CarbonUniform, <1>OtherUniform DEF Next

-----------------------------------------------------------------------------
(* Losses. *)

\* The Rotate tasks of carbon thread r in the queue of worker w.
Rotates(r, w) == {i \in DOMAIN queue[w] : queue[w][i].kind = "Rotate" /\ queue[w][i].round = r}

\* Carbon thread r has not asked worker w yet; it has not got its answer yet.
Unsent(r, w) == round[r].phase = "rotating" /\ w \in round[r].toSend

Awaits(r, w) == round[r].phase = "rotating" /\ w \in round[r].toFold

\* No channel is cancelled, and a Rotate task is in a queue, once, only while
\* its carbon thread waits for the answer.
LinkOK(r, w) ==
  /\ rotRx[r][w].st # "cancelled"
  /\ Unsent(r, w) => rotRx[r][w].st = "open" /\ Awaits(r, w) /\ Rotates(r, w) = {}
  /\ \A i, j \in Rotates(r, w) : i = j /\ rotRx[r][w].st = "open" /\ Awaits(r, w)

NoSilentLoss == lost["uncounted"] = {} /\ lost["DROPS"] = {}

AllLinks == \A r \in Round, w \in Worker : LinkOK(r, w)

LossInv == dead = {} => NoSilentLoss /\ AllLinks

LEMMA LossesCounted ==
  ASSUME "separate" \notin Modes
  PROVE  TypeOK /\ LossInv /\ [Next]_vars => LossInv'
<1>RotatesSent.
  ASSUME queue \in [Worker -> Seq(Task)], NEW w \in Worker, NEW t \in Task, queue' = Enqueue(w, t),
         NEW r \in Round, NEW v \in Worker
  PROVE  /\ v # w \/ t.kind # "Rotate" \/ t.round # r => Rotates(r, v)' = Rotates(r, v)
         /\ \A i \in Rotates(r, v)' : i \in Rotates(r, v) \/ i = Len(queue[w]) + 1
  <2> USE <1>RotatesSent
  <2>1. queue[v] \in Seq(Task) /\ queue[w] \in Seq(Task)
    BY Zenon
  <2>2. CASE v # w
    <3>1. queue'[v] = queue[v]
      BY Zenon, <2>2 DEF Enqueue
    <3> QED
      BY Zenon, <2>2, <3>1 DEF Rotates
  <2>3. CASE v = w
    <3>1. /\ DOMAIN queue[v] = 1 .. Len(queue[w]) /\ DOMAIN queue'[v] = 1 .. Len(queue[w]) + 1
          /\ \A i \in 1 .. Len(queue[w]) : queue'[v][i] = queue[v][i]
          /\ queue'[v][Len(queue[w]) + 1] = t
          /\ Len(queue[w]) \in Nat
      BY <2>1, <2>3 DEF Enqueue
    <3> QED
      BY <2>3, <3>1 DEF Rotates
  <2> QED
    BY Zenon, <2>2, <2>3
<1>RotatesTaken.
  ASSUME queue \in [Worker -> Seq(Task)], NEW w \in Worker, NEW kind, TakeTask(w, kind), NEW r \in Round
  PROVE  /\ \A v \in Worker : v # w => Rotates(r, v)' = Rotates(r, v)
         /\ \A i \in Rotates(r, w)' : i \in Nat \ {0} /\ i + 1 \in Rotates(r, w)
         /\ kind = "Rotate" /\ Head(queue[w]).round = r => 1 \in Rotates(r, w)
  <2> USE <1>RotatesTaken
  <2>1. /\ queue' = [queue EXCEPT ![w] = Tail(queue[w])]
        /\ queue[w] \in Seq(Task) /\ queue[w] # <<>> /\ Head(queue[w]).kind = kind
    BY Zenon DEF TakeTask
  <2>2. /\ Len(queue[w]) \in Nat \ {0}
        /\ DOMAIN queue[w] = 1 .. Len(queue[w])
        /\ Head(queue[w]) = queue[w][1]
        /\ DOMAIN Tail(queue[w]) = 1 .. Len(queue[w]) - 1
        /\ \A i \in 1 .. Len(queue[w]) - 1 : Tail(queue[w])[i] = queue[w][i + 1]
    BY <2>1
  <2>3. queue'[w] = Tail(queue[w]) /\ \A v \in Worker : v # w => queue'[v] = queue[v]
    BY Zenon, <2>1
  <2>4. \A v \in Worker : v # w => Rotates(r, v)' = Rotates(r, v)
    BY Zenon, <2>3 DEF Rotates
  <2>5. ASSUME NEW i \in Rotates(r, w)'
        PROVE  i \in Nat \ {0} /\ i + 1 \in Rotates(r, w)
    BY <2>2, <2>3 DEF Rotates
  <2>6. kind = "Rotate" /\ Head(queue[w]).round = r => 1 \in Rotates(r, w)
    BY <2>1, <2>2 DEF Rotates
  <2> QED
    BY Zenon, <2>4, <2>5, <2>6
\* A channel no step asks or answers.
<1>LinkKept.
  ASSUME NEW r \in Round, NEW w \in Worker, LinkOK(r, w), rotRx'[r][w] = rotRx[r][w],
         Unsent(r, w)' => Unsent(r, w),
         Awaits(r, w) => Awaits(r, w)' \/ (Rotates(r, w) = {} /\ ~Unsent(r, w)'),
         \/ Rotates(r, w)' = Rotates(r, w)
         \/ \A i \in Rotates(r, w)' : i \in Nat /\ i + 1 \in Rotates(r, w)
  PROVE  LinkOK(r, w)'
  <2> USE <1>LinkKept
  <2> DEFINE Q == Rotates(r, w)
             R == Rotates(r, w)'
  <2>1. /\ Q = {} => R = {}
        /\ (\A i, j \in Q : i = j) => \A i, j \in R : i = j
    BY DEF Q, R
  <2> HIDE DEF Q, R
  <2>2. /\ rotRx[r][w].st # "cancelled"
        /\ Unsent(r, w) => rotRx[r][w].st = "open" /\ Awaits(r, w) /\ Q = {}
        /\ \A i, j \in Q : i = j /\ rotRx[r][w].st = "open" /\ Awaits(r, w)
    BY Zenon DEF LinkOK, Q
  <2>3. /\ rotRx'[r][w].st # "cancelled"
        /\ Unsent(r, w)' => rotRx'[r][w].st = "open" /\ Awaits(r, w)' /\ R = {}
    BY Zenon, <2>1, <2>2
  <2>4. R # {} => rotRx'[r][w].st = "open" /\ Awaits(r, w)'
    BY Zenon, <2>1, <2>2 DEF Q
  <2>5. \A i, j \in R : i = j
    BY Zenon, <2>1, <2>2
  <2> QED
    BY ZenonT(30), <2>3, <2>4, <2>5 DEF LinkOK, R
<1>LinkUnasked.
  ASSUME TypeOK, NEW r \in Round, NEW v \in Worker, LinkOK(r, v), UNCHANGED <<rotRx, round>>,
         \/ UNCHANGED queue
         \/ \E w \in Worker, t \in Task : t.kind # "Rotate" /\ queue' = Enqueue(w, t)
         \/ \E w \in Worker : \E kind : TakeTask(w, kind)
  PROVE  LinkOK(r, v)'
  <2> USE <1>LinkUnasked
  <2>0. queue \in [Worker -> Seq(Task)]
    BY Zenon DEF TypeOK, RunnerTypeOK
  <2>1. \/ Rotates(r, v)' = Rotates(r, v)
        \/ \A i \in Rotates(r, v)' : i \in Nat /\ i + 1 \in Rotates(r, v)
    <3>1. CASE UNCHANGED queue
      BY Zenon, <3>1 DEF Rotates
    <3>2. ASSUME NEW w \in Worker, NEW t \in Task, t.kind # "Rotate", queue' = Enqueue(w, t)
          PROVE  Rotates(r, v)' = Rotates(r, v)
      BY ZenonT(30), <2>0, <3>2, <1>RotatesSent
    <3>3. ASSUME NEW w \in Worker, NEW kind, TakeTask(w, kind)
          PROVE  \/ Rotates(r, v)' = Rotates(r, v)
                 \/ \A i \in Rotates(r, v)' : i \in Nat /\ i + 1 \in Rotates(r, v)
      BY Zenon, <2>0, <3>3, <1>RotatesTaken
    <3> QED
      BY Zenon, <3>1, <3>2, <3>3
  <2>2. rotRx'[r][v] = rotRx[r][v] /\ Unsent(r, v)' = Unsent(r, v) /\ Awaits(r, v)' = Awaits(r, v)
    BY Zenon DEF Unsent, Awaits
  <2> QED
    BY Zenon, <2>1, <2>2, <1>LinkKept
\* Parse and aggregation errors are counted.
<1>CountedKept.
  ASSUME TypeOK, NoSilentLoss,
         \/ UNCHANGED lost
         \/ \E S : lost' = Lose("AGG_ERRORS", S)
         \/ \E S, T : lost' = [lost EXCEPT !["PARSE_ERRORS"] = @ \cup S, !["AGG_ERRORS"] = @ \cup T]
  PROVE  NoSilentLoss'
  <2> USE <1>CountedKept
  <2>0. lost \in [Counter -> SUBSET Sample]
    BY Zenon DEF TypeOK, RunnerTypeOK
  <2> QED
    BY Zenon, <2>0 DEF NoSilentLoss, Lose, Counter
<1>ReceiveLosses.
  ASSUME TypeOK, dead = {}, NoSilentLoss, AllLinks, ReceiveText \/ ReceiveMetrics
  PROVE  NoSilentLoss' /\ AllLinks'
  <2> USE <1>ReceiveLosses
  <2>1. UNCHANGED <<rotRx, round>>
    BY Zenon DEF ReceiveText, ReceiveMetrics, SendParse, SendMetrics, pipelineVars
  <2>2. CASE ReceiveText
    <3>1. PICK p \in Route, d \in Data : SendParse(p[2], p[1], d)
      BY Zenon, <2>2 DEF ReceiveText
    <3> DEFINE t == [kind |-> "Parse", addr |-> p[1], data |-> d]
    <3>2. UNCHANGED lost /\ queue' = Enqueue(p[2], t)
      BY ZenonT(30), <3>1 DEF SendParse
    <3>3. p[2] \in Worker /\ t \in Task /\ t.kind # "Rotate"
      BY Zenon, PipelineAssumption DEF Task
    <3> HIDE DEF t
    <3>4. AllLinks'
      BY Zenon, <2>1, <3>2, <3>3, <1>LinkUnasked DEF AllLinks
    <3> QED
      BY Zenon, <3>2, <3>4, <1>CountedKept
  <2>3. CASE ReceiveMetrics
    <3>1. PICK w \in Worker, l \in List, k \in {"AddMetric", "AddMetrics", "AddSnapshot"} : SendMetrics(w, k, l)
      BY Zenon, <2>3 DEF ReceiveMetrics
    <3> DEFINE t == [kind |-> k, list |-> l]
    <3>2. UNCHANGED lost /\ queue' = Enqueue(w, t)
      BY Zenon, <3>1 DEF SendMetrics
    <3>3. t \in Task /\ t.kind # "Rotate"
      BY Zenon, PipelineAssumption DEF Task
    <3> HIDE DEF t
    <3>4. AllLinks'
      BY ZenonT(30), <2>1, <3>2, <3>3, <1>LinkUnasked DEF AllLinks
    <3> QED
      BY Zenon, <3>2, <3>4, <1>CountedKept
  <2> QED
    BY Zenon, <2>2, <2>3
<1>WorkLosses.
  ASSUME TypeOK, NoSilentLoss, AllLinks, NEW w \in Worker, Work(w)
  PROVE  NoSilentLoss' /\ AllLinks'
  <2> USE <1>WorkLosses
  <2>0. /\ queue \in [Worker -> Seq(Task)] /\ rotRx \in [Round -> [Worker -> Oneshot]]
        /\ lost \in [Counter -> SUBSET Sample]
    BY Zenon DEF TypeOK, RunnerTypeOK
  <2>1. UNCHANGED round
    BY Zenon DEF Work, pipelineVars
  <2>2. CASE RunRotate(w)
    <3>0. TakeTask(w, "Rotate")
      BY Zenon, <2>2 DEF RunRotate
    <3>2. PICK q \in Round : q = Head(queue[w]).round
      BY Zenon, <2>0, <3>0, TakeTaskType, TaskFields
    <3>1. /\ TakeTask(w, "Rotate")
          /\ rotRx' = [rotRx EXCEPT ![q][w] = Reply(@, long[w])]
          /\ lost' = Lose("DROPS", IF rotRx[q][w].st = "open" THEN {} ELSE long[w])
      BY Zenon, <2>2, <3>2 DEF RunRotate
    <3>3. 1 \in Rotates(q, w)
      BY Zenon, <2>0, <3>1, <3>2, <1>RotatesTaken
    <3>4. LinkOK(q, w) /\ rotRx[q][w].st = "open" /\ \A i \in Rotates(q, w) : i = 1
      <4>1. LinkOK(q, w)
        BY ZenonT(30), <3>2 DEF AllLinks
      <4> QED
        BY Zenon, <3>3, <4>1 DEF LinkOK
    <3>5. NoSilentLoss'
      BY Zenon, <2>0, <3>1, <3>4 DEF NoSilentLoss, Lose, Counter
    <3>6. LinkOK(q, w)'
      <4>0. \A i \in Rotates(q, w)' : i \in Nat \ {0} /\ i + 1 \in Rotates(q, w)
        BY ZenonT(30), <2>0, <3>1, <3>2, <1>RotatesTaken
      <4>1. Rotates(q, w)' = {}
        BY SMTT(20), <3>4, <4>0
      <4>2. rotRx'[q][w].st = "full"
        BY Zenon, <2>0, <3>1, <3>2, <3>4 DEF Reply, Full
      <4>3. ~Unsent(q, w)
        BY Zenon, <3>3, <3>4 DEF LinkOK
      <4>4. ~Unsent(q, w)'
        BY ZenonT(30), <2>1, <4>3 DEF Unsent
      <4> QED
        BY ZenonT(30), <4>1, <4>2, <4>4 DEF LinkOK
    <3>7. ASSUME NEW r \in Round, NEW v \in Worker, r # q \/ v # w PROVE LinkOK(r, v)'
      <4>1. rotRx'[r][v] = rotRx[r][v]
        BY Zenon, <2>0, <3>1, <3>7
      <4>2. \/ Rotates(r, v)' = Rotates(r, v)
            \/ \A i \in Rotates(r, v)' : i \in Nat /\ i + 1 \in Rotates(r, v)
        BY Zenon, <2>0, <3>1, <1>RotatesTaken
      <4>3. Unsent(r, v)' = Unsent(r, v) /\ Awaits(r, v)' = Awaits(r, v)
        BY Zenon, <2>1 DEF Unsent, Awaits
      <4>4. LinkOK(r, v)
        BY Zenon DEF AllLinks
      <4> QED
        BY Zenon, <4>1, <4>2, <4>3, <4>4, <1>LinkKept
    <3> QED
      BY Zenon, <3>5, <3>6, <3>7 DEF AllLinks
  <2>3. ASSUME UNCHANGED rotRx, \E kind : TakeTask(w, kind) PROVE AllLinks'
    BY ZenonT(30), <2>1, <2>3, <1>LinkUnasked DEF AllLinks
  <2>4. CASE RunParse(w)
    BY Zenon, <2>3, <2>4, <1>CountedKept DEF RunParse
  <2>5. CASE RunAddMetrics(w) \/ RunAddSnapshot(w) \/ RunTakeSnapshot(w)
    BY ZenonT(30), <2>3, <2>5, <1>CountedKept DEF RunAddMetrics, RunAddSnapshot, RunTakeSnapshot
  <2>6. CASE RunAggregate(w)
    BY Zenon, <2>3, <2>6, <1>CountedKept DEF RunAggregate
  <2> QED
    BY ZenonT(30), <2>2, <2>4, <2>5, <2>6 DEF Work, Run
<1>SnapshotLosses.
  ASSUME TypeOK, NoSilentLoss, AllLinks, Snapshot \/ SetLeader \/ UNCHANGED vars
  PROVE  NoSilentLoss' /\ AllLinks'
  <2> USE <1>SnapshotLosses
  <2>1. UNCHANGED <<lost, rotRx, round>>
    BY Zenon DEF Snapshot, SnapTick, SnapJoin, SnapFail, SendTakeSnapshot, SetLeader, vars, runnerVars, pipelineVars
  <2>2. [kind |-> "TakeSnapshot"] \in Task /\ [kind |-> "TakeSnapshot"].kind # "Rotate"
    BY Zenon DEF Task
  <2>3. \/ UNCHANGED queue
        \/ \E w \in Worker : queue' = Enqueue(w, [kind |-> "TakeSnapshot"])
    BY Zenon DEF Snapshot, SnapTick, SnapJoin, SnapFail, SendTakeSnapshot, SetLeader, vars, runnerVars
  <2>4. AllLinks'
    BY Zenon, <2>1, <2>2, <2>3, <1>LinkUnasked DEF AllLinks
  <2> QED
    BY Zenon, <2>1, <2>4, <1>CountedKept
\* A step of carbon thread r leaves the others alone.
<1>OtherLinks.
  ASSUME AllLinks, NEW r \in Round, \A w \in Worker : LinkOK(r, w)',
         \A q \in Round \ {r} : /\ round'[q] = round[q] /\ rotRx'[q] = rotRx[q]
                               /\ \A w \in Worker : Rotates(q, w)' = Rotates(q, w)
  PROVE  AllLinks'
  <2> USE <1>OtherLinks
  <2>1. ASSUME NEW q \in Round, NEW w \in Worker, q # r PROVE LinkOK(q, w)'
    <3>1. /\ rotRx'[q][w] = rotRx[q][w] /\ round'[q] = round[q]
          /\ Rotates(q, w)' = Rotates(q, w) /\ LinkOK(q, w)
      BY Zenon, <2>1 DEF AllLinks
    <3>2. Unsent(q, w)' = Unsent(q, w) /\ Awaits(q, w)' = Awaits(q, w)
      BY Zenon, <3>1 DEF Unsent, Awaits
    <3> QED
      BY Zenon, <3>1, <3>2, <1>LinkKept
  <2> QED
    BY Zenon, <2>1 DEF AllLinks
<1>CarbonLosses.
  ASSUME TypeOK, dead = {}, NoSilentLoss, AllLinks, "separate" \notin Modes, NEW r \in Round, Carbon(r)
  PROVE  NoSilentLoss' /\ AllLinks'
  <2> USE <1>CarbonLosses
  <2>0. /\ queue \in [Worker -> Seq(Task)] /\ rotRx \in [Round -> [Worker -> Oneshot]]
        /\ round \in [Round -> RoundState] /\ lost \in [Counter -> SUBSET Sample]
        /\ mode # "separate" /\ round[r].toFold \subseteq Worker
    BY Zenon DEF TypeOK, RunnerTypeOK, RoundState
  <2>1. \A w \in Worker : LinkOK(r, w)
    BY Zenon DEF AllLinks
  \* Steps that touch neither the queues nor the channels.
  <2>2. ASSUME UNCHANGED <<queue, rotRx>>, \A q \in Round \ {r} : round'[q] = round[q],
               \A w \in Worker : (Unsent(r, w)' => Unsent(r, w)) /\ (Awaits(r, w) => Awaits(r, w)')
        PROVE  AllLinks'
    <3>1. \A q \in Round, w \in Worker : Rotates(q, w)' = Rotates(q, w)
      BY Zenon, <2>2 DEF Rotates
    <3>2. ASSUME NEW w \in Worker PROVE LinkOK(r, w)'
      <4>1. LinkOK(r, w) /\ rotRx'[r][w] = rotRx[r][w] /\ Rotates(r, w)' = Rotates(r, w)
        BY Zenon, <2>1, <2>2, <3>1
      <4>2. (Unsent(r, w)' => Unsent(r, w)) /\ (Awaits(r, w) => Awaits(r, w)')
        BY Zenon, <2>2
      <4> QED
        BY Zenon, <4>1, <4>2, <1>LinkKept
    <3> QED
      BY Zenon, <2>2, <3>1, <3>2, <1>OtherLinks
  <2>3. CASE CarbonTick(r)
    <3>1. /\ UNCHANGED <<queue, rotRx, lost>> /\ round[r].phase = "free"
          /\ round' = [round EXCEPT ![r].phase = "spawned"]
      BY Zenon, <2>3 DEF CarbonTick, runnerVars
    <3>2. \A w \in Worker : ~Unsent(r, w)' /\ ~Awaits(r, w)
      BY Zenon, <2>0, <3>1 DEF Unsent, Awaits, RoundState
    <3>3. \A q \in Round \ {r} : round'[q] = round[q]
      BY Zenon, <2>0, <3>1
    <3> QED
      BY ZenonT(30), <2>2, <3>1, <3>2, <3>3, <1>CountedKept
  <2>4. CASE Rotated(r) /\ UNCHANGED <<queue, rotRx, lost>> /\ round'[r].phase # "rotating"
             /\ \A q \in Round \ {r} : round'[q] = round[q]
    <3>1. \A w \in Worker : ~Unsent(r, w)' /\ ~Awaits(r, w)
      BY Zenon, <2>4 DEF Unsent, Awaits, Rotated
    <3> QED
      BY ZenonT(30), <2>2, <2>4, <3>1, <1>CountedKept
  <2>5. CASE FinishFollower(r) \/ AggregateSingle(r) \/ AggregateCommon(r)
    <3>1. Rotated(r) /\ UNCHANGED <<queue, rotRx, lost>>
      BY Zenon, <2>5 DEF FinishFollower, AggregateSingle, AggregateCommon, runnerVars
    <3>2. round'[r].phase # "rotating" /\ \A q \in Round \ {r} : round'[q] = round[q]
      BY <2>0, <2>5 DEF FinishFollower, AggregateSingle, AggregateCommon, FreeRound, RoundState
    <3> QED
      BY Zenon, <2>4, <3>1, <3>2
  <2>6. CASE Collect(r)
    <3>1. /\ UNCHANGED <<queue, rotRx, lost>> /\ round[r].phase = "emitting"
          /\ round' = [round EXCEPT ![r] = FreeRound]
      BY Zenon, <2>6 DEF Collect
    <3>2. \A w \in Worker : ~Unsent(r, w)' /\ ~Awaits(r, w)
      BY Zenon, <2>0, <3>1 DEF Unsent, Awaits, FreeRound
    <3>3. \A q \in Round \ {r} : round'[q] = round[q]
      BY Zenon, <2>0, <3>1
    <3> QED
      BY ZenonT(30), <2>2, <3>1, <3>2, <3>3, <1>CountedKept
  <2>7. CASE AggregateSeparate(r) \/ AbortRound(r)
    <3>1. ~AggregateSeparate(r)
      BY Zenon, <2>0 DEF AggregateSeparate
    <3>2. ~AbortRound(r)
      BY Zenon, <2>0, <2>1 DEF AbortRound, LinkOK
    <3> QED
      BY ZenonT(30), <2>7, <3>1, <3>2
  <2>8. ASSUME NEW s \in Sample, SendAggregate(r, s) PROVE NoSilentLoss' /\ AllLinks'
    <3> DEFINE w == round[r].num % W
               metric == {t \in round[r].acc : SameName(s, t)}
    <3>1. /\ round[r].phase = "emitting" /\ UNCHANGED <<rotRx, lost>>
          /\ round' = [round EXCEPT ![r].acc = @ \ metric, ![r].num = @ + 1]
      BY Zenon, <2>8 DEF SendAggregate
    <3>2. PICK v \in Worker, t \in Task : t.kind # "Rotate" /\ queue' = Enqueue(v, t)
      <4>1. w \in Worker
        BY <2>0, ConstantsAssumption DEF RoundState, Worker
      <4> DEFINE t == [kind |-> "Aggregate", round |-> r, metric |-> metric]
      <4>2. metric \in SUBSET Sample
        BY Zenon, <2>0 DEF RoundState
      <4>3. queue' = Enqueue(w, t)
        BY Zenon, <2>8 DEF SendAggregate
      <4> HIDE DEF metric
      <4>4. t \in Task /\ t.kind # "Rotate"
        BY Zenon, <4>2 DEF Task
      <4> HIDE DEF t, w
      <4> QED
        BY ZenonT(30), <4>1, <4>3, <4>4
    <3>3. \A q \in Round, v2 \in Worker : Rotates(q, v2)' = Rotates(q, v2)
      BY ZenonT(30), <2>0, <3>2, <1>RotatesSent
    <3>4. \A v2 \in Worker : ~Unsent(r, v2)' /\ ~Awaits(r, v2)
      BY Zenon, <2>0, <3>1 DEF Unsent, Awaits, RoundState
    <3>5. \A q \in Round \ {r} : round'[q] = round[q]
      BY Zenon, <2>0, <3>1
    <3>6. \A v2 \in Worker : LinkOK(r, v2)'
      BY ZenonT(30), <2>1, <3>1, <3>3, <3>4, <1>LinkKept
    <3>7. AllLinks'
      BY ZenonT(30), <3>1, <3>3, <3>5, <3>6, <1>OtherLinks
    <3> QED
      BY Zenon, <3>1, <3>7, <1>CountedKept
  <2>9. CASE StartRound(r)
    <3>1. /\ UNCHANGED <<queue, lost>> /\ round[r].phase = "spawned"
          /\ round' = [round EXCEPT ![r] = [@ EXCEPT !.phase = "rotating", !.leader = isLeader,
                                                     !.toSend = Worker, !.toFold = Worker]]
          /\ rotRx' = [rotRx EXCEPT ![r] = [w \in Worker |-> Open]]
      BY Zenon, <2>9 DEF StartRound
    <3>2. \A q \in Round, w \in Worker : Rotates(q, w)' = Rotates(q, w)
      BY Zenon, <3>1 DEF Rotates
    <3>3. \A q \in Round \ {r} : round'[q] = round[q] /\ rotRx'[q] = rotRx[q]
      BY Zenon, <2>0, <3>1
    <3>4. ASSUME NEW w \in Worker PROVE LinkOK(r, w)'
      <4>1. ~Awaits(r, w) /\ LinkOK(r, w)
        BY Zenon, <2>1, <3>1 DEF Awaits
      <4>2. Rotates(r, w)' = {}
        BY Zenon, <3>2, <4>1 DEF LinkOK
      <4>3. rotRx'[r][w].st = "open"
        BY Zenon, <2>0, <3>1 DEF Open
      <4>4. Awaits(r, w)'
        BY Zenon, <2>0, <3>1 DEF Awaits, RoundState
      <4> QED
        BY ZenonT(30), <4>2, <4>3, <4>4 DEF LinkOK
    <3>5. AllLinks'
      BY ZenonT(30), <3>2, <3>3, <3>4, <1>OtherLinks
    <3> QED
      BY ZenonT(30), <3>1, <3>5, <1>CountedKept
  <2>10. ASSUME NEW w \in Worker, SendRotate(r, w) PROVE NoSilentLoss' /\ AllLinks'
    <3> DEFINE t == [kind |-> "Rotate", round |-> r]
    <3>1. /\ UNCHANGED <<rotRx, lost>> /\ queue' = Enqueue(w, t)
          /\ round' = [round EXCEPT ![r].toSend = @ \ {w}]
          /\ round[r].phase = "rotating" /\ w \in round[r].toSend
      BY Zenon, <2>10 DEF SendRotate
    <3>2. t \in Task /\ t.round = r
      BY Zenon DEF Task
    <3> HIDE DEF t
    <3>3. /\ \A q \in Round, v \in Worker : v # w \/ r # q => Rotates(q, v)' = Rotates(q, v)
          /\ \A i \in Rotates(r, w)' : i \in Rotates(r, w) \/ i = Len(queue[w]) + 1
      BY Zenon, <2>0, <3>1, <3>2, <1>RotatesSent
    <3>4. /\ \A q \in Round \ {r} : round'[q] = round[q] /\ rotRx'[q] = rotRx[q]
          /\ round'[r].phase = "rotating" /\ round'[r].toFold = round[r].toFold
          /\ round'[r].toSend = round[r].toSend \ {w}
      BY Zenon, <2>0, <3>1 DEF RoundState
    <3>5. LinkOK(r, w)'
      <4>1. Unsent(r, w) /\ LinkOK(r, w)
        BY Zenon, <2>1, <3>1 DEF Unsent
      <4>2. rotRx'[r][w].st = "open" /\ Awaits(r, w) /\ Rotates(r, w) = {}
        BY Zenon, <3>1, <4>1 DEF LinkOK
      <4>3. ~Unsent(r, w)' /\ Awaits(r, w)'
        BY Zenon, <3>4, <4>2 DEF Unsent, Awaits
      <4>4. \A i, j \in Rotates(r, w)' : i = j
        BY Zenon, <3>3, <4>2
      <4> QED
        BY ZenonT(30), <4>2, <4>3, <4>4 DEF LinkOK
    <3>6. ASSUME NEW v \in Worker, v # w PROVE LinkOK(r, v)'
      <4>1. Rotates(r, v)' = Rotates(r, v) /\ rotRx'[r][v] = rotRx[r][v] /\ LinkOK(r, v)
        BY ZenonT(30), <2>1, <3>1, <3>3, <3>6
      <4>2. (Unsent(r, v)' => Unsent(r, v)) /\ (Awaits(r, v) => Awaits(r, v)')
        BY Zenon, <3>1, <3>4 DEF Unsent, Awaits
      <4> QED
        BY Zenon, <4>1, <4>2, <1>LinkKept
    <3>7. AllLinks'
      BY ZenonT(30), <3>3, <3>4, <3>5, <3>6, <1>OtherLinks
    <3> QED
      BY ZenonT(30), <3>1, <3>7, <1>CountedKept
  <2>11. ASSUME NEW w \in Worker, Fold(r, w) PROVE NoSilentLoss' /\ AllLinks'
    <3>1. /\ UNCHANGED queue /\ rotRx' = [rotRx EXCEPT ![r][w] = Closed]
          /\ round[r].phase = "rotating" /\ w \in round[r].toFold /\ rotRx[r][w].st = "full"
          /\ UNCHANGED lost \/ \E S : lost' = Lose("AGG_ERRORS", S)
      BY Zenon, <2>11 DEF Fold
    <3>2. /\ \A q \in Round \ {r} : round'[q] = round[q] /\ rotRx'[q] = rotRx[q]
          /\ round'[r].phase = "rotating" /\ round'[r].toFold = round[r].toFold \ {w}
          /\ round'[r].toSend = round[r].toSend
      <4>1. \/ \E S : round' = [round EXCEPT ![r].toFold = @ \ {w}, ![r].acc = S]
            \/ round' = [round EXCEPT ![r].toFold = @ \ {w}]
        BY Zenon, <2>11 DEF Fold
      <4>2. \A q \in Round \ {r} : round'[q] = round[q] /\ rotRx'[q] = rotRx[q]
        BY Zenon, <2>0, <3>1, <4>1
      <4> QED
        BY <2>0, <3>1, <4>1, <4>2 DEF RoundState
    <3>3. \A q \in Round, v \in Worker : Rotates(q, v)' = Rotates(q, v)
      BY Zenon, <3>1 DEF Rotates
    <3>4. LinkOK(r, w)'
      <4>1. rotRx[r][w].st # "open" /\ LinkOK(r, w)
        BY Zenon, <2>1, <3>1
      <4>2. ~Unsent(r, w) /\ Rotates(r, w) = {}
        BY Zenon, <4>1 DEF LinkOK
      <4>3. ~Unsent(r, w)'
        BY ZenonT(30), <3>1, <3>2, <4>2 DEF Unsent
      <4>4. rotRx'[r][w].st = "closed"
        BY Zenon, <2>0, <3>1 DEF Closed
      <4> QED
        BY Zenon, <3>3, <4>2, <4>3, <4>4 DEF LinkOK
    <3>5. ASSUME NEW v \in Worker, v # w PROVE LinkOK(r, v)'
      <4>1. rotRx'[r][v] = rotRx[r][v]
        BY Zenon, <2>0, <3>1, <3>5
      <4>2. (Unsent(r, v)' => Unsent(r, v)) /\ (Awaits(r, v) => Awaits(r, v)')
        BY Zenon, <3>1, <3>2, <3>5 DEF Unsent, Awaits
      <4> QED
        BY Zenon, <2>1, <3>3, <4>1, <4>2, <1>LinkKept
    <3>6. AllLinks'
      BY ZenonT(30), <3>2, <3>3, <3>4, <3>5, <1>OtherLinks
    <3> QED
      BY ZenonT(30), <3>1, <3>6, <1>CountedKept
  <2> QED
    BY ZenonT(30), <2>3, <2>5, <2>6, <2>7, <2>8, <2>9, <2>10, <2>11 DEF Carbon
<1> SUFFICES ASSUME TypeOK, LossInv, [Next]_vars, dead' = {} PROVE NoSilentLoss' /\ AllLinks'
  BY Zenon DEF LossInv
<1>1. ASSUME NEW w \in Worker PROVE ~Panic(w)
  BY Zenon DEF Panic, Die
<1>2. dead = {}
  <2>1. ASSUME NEW w \in Worker, Work(w) PROVE UNCHANGED dead
    BY Zenon, <2>1 DEF Work, Run, RunParse, RunAddMetrics, RunAddSnapshot, RunTakeSnapshot, RunRotate, RunAggregate
  <2>2. ASSUME ReceiveText \/ ReceiveMetrics PROVE UNCHANGED dead
    BY Zenon, <2>2 DEF ReceiveText, ReceiveMetrics, SendParse, SendMetrics
  <2>3. ASSUME Snapshot \/ SetLeader \/ UNCHANGED vars PROVE UNCHANGED dead
    BY Zenon, <2>3 DEF Snapshot, SnapTick, SnapJoin, SnapFail, SendTakeSnapshot, SetLeader, vars, runnerVars
  <2>4. ASSUME NEW r \in Round, Carbon(r) PROVE UNCHANGED dead
    BY Zenon, <2>4 DEF Carbon, CarbonTick, StartRound, AbortRound, SendRotate, Fold, FinishFollower,
       AggregateSingle, AggregateCommon, AggregateSeparate, SendAggregate, Collect, runnerVars
  <2> QED
    BY ZenonT(30), <1>1, <2>1, <2>2, <2>3, <2>4 DEF Next
<1>3. NoSilentLoss /\ AllLinks
  BY Zenon, <1>2 DEF LossInv
<1> QED
  BY ZenonT(30), <1>1, <1>2, <1>3, <1>ReceiveLosses, <1>WorkLosses, <1>SnapshotLosses, <1>CarbonLosses DEF Next

-----------------------------------------------------------------------------
(* Where a sample is: one predicate per kind of place.  A sample is at exactly *)
(* one triple <<kind, where, where>>.                                          *)

InFresh(s) == EndOf(s) \in fresh
InQueue(s, w, i) == w \in Worker /\ i \in DOMAIN queue[w] /\ Carries(queue[w][i], s)
InShort(s, w) == w \in Worker /\ s \in short[w]
InLong(s, w) == w \in Worker /\ s \in long[w]
InRotated(s, r, w) == r \in Round /\ w \in Worker /\ s \in rotRx[r][w].val
InAcc(s, r) == r \in Round /\ s \in round[r].acc
InOut(s, r) == r \in Round /\ s \in out[r]
InEgress(s) == s \in egress
InDiscarded(s) == s \in discarded
InLost(s, c) == c \in Counter /\ s \in lost[c]

\* Sample s is at the triple <<k, x, y>>.
At(s, k, x, y) ==
    \/ k = "fresh" /\ x = 0 /\ y = 0 /\ InFresh(s)
    \/ k = "queue" /\ InQueue(s, x, y)
    \/ k = "short" /\ y = 0 /\ InShort(s, x)
    \/ k = "long" /\ y = 0 /\ InLong(s, x)
    \/ k = "rotated" /\ InRotated(s, x, y)
    \/ k = "acc" /\ y = 0 /\ InAcc(s, x)
    \/ k = "out" /\ y = 0 /\ InOut(s, x)
    \/ k = "egress" /\ x = 0 /\ y = 0 /\ InEgress(s)
    \/ k = "discarded" /\ x = 0 /\ y = 0 /\ InDiscarded(s)
    \/ k = "lost" /\ y = 0 /\ InLost(s, x)

\* Sample s is at no other triple.
Alone(s, k, x, y) ==
    /\ InFresh(s) => k = "fresh" /\ x = 0 /\ y = 0
    /\ \A w, i : InQueue(s, w, i) => k = "queue" /\ x = w /\ y = i
    /\ \A w : InShort(s, w) => k = "short" /\ x = w /\ y = 0
    /\ \A w : InLong(s, w) => k = "long" /\ x = w /\ y = 0
    /\ \A r, w : InRotated(s, r, w) => k = "rotated" /\ x = r /\ y = w
    /\ \A r : InAcc(s, r) => k = "acc" /\ x = r /\ y = 0
    /\ \A r : InOut(s, r) => k = "out" /\ x = r /\ y = 0
    /\ InEgress(s) => k = "egress" /\ x = 0 /\ y = 0
    /\ InDiscarded(s) => k = "discarded" /\ x = 0 /\ y = 0
    /\ \A c : InLost(s, c) => k = "lost" /\ x = c /\ y = 0

OnlyAt(s, k, x, y) == At(s, k, x, y) /\ Alone(s, k, x, y)

Once(s) == \E k, x, y : OnlyAt(s, k, x, y)

AllOnce == \A s \in Sample : Once(s)

\* A counter of lost samples gets what is lost now, and the others keep theirs.
LEMMA Counted ==
  ASSUME lost \in [Counter -> SUBSET Sample], NEW c \in Counter, NEW S, lost' = Lose(c, S), NEW s
  PROVE  \A d : InLost(s, d)' <=> InLost(s, d) \/ (d = c /\ s \in S)
BY Zenon DEF Lose, InLost

LEMMA AloneForm ==
  ASSUME NEW s, NEW k, NEW x, NEW y
  PROVE  Alone(s, k, x, y) <=> \A l, u, v : At(s, l, u, v) => l = k /\ u = x /\ v = y
<1>1. ASSUME Alone(s, k, x, y), NEW l, NEW u, NEW v, At(s, l, u, v) PROVE l = k /\ u = x /\ v = y
  BY Zenon, <1>1 DEF Alone, At
<1>2. ASSUME \A l, u, v : At(s, l, u, v) => l = k /\ u = x /\ v = y PROVE Alone(s, k, x, y)
  <2>1. InFresh(s) => At(s, "fresh", 0, 0)
    BY Zenon DEF At
  <2>2. \A w, i : InQueue(s, w, i) => At(s, "queue", w, i)
    BY Zenon DEF At
  <2>3. \A w : InShort(s, w) => At(s, "short", w, 0)
    BY Zenon DEF At
  <2>4. \A w : InLong(s, w) => At(s, "long", w, 0)
    BY Zenon DEF At
  <2>5. \A r, w : InRotated(s, r, w) => At(s, "rotated", r, w)
    BY Zenon DEF At
  <2>6. \A r : InAcc(s, r) => At(s, "acc", r, 0)
    BY Zenon DEF At
  <2>7. \A r : InOut(s, r) => At(s, "out", r, 0)
    BY Zenon DEF At
  <2>8. InEgress(s) => At(s, "egress", 0, 0)
    BY Zenon DEF At
  <2>9. InDiscarded(s) => At(s, "discarded", 0, 0)
    BY Zenon DEF At
  <2>10. \A c : InLost(s, c) => At(s, "lost", c, 0)
    BY Zenon DEF At
  <2> QED
    BY <1>2, <2>1, <2>2, <2>3, <2>4, <2>5, <2>6, <2>7, <2>8, <2>9, <2>10 DEF Alone
<1> QED
  BY Zenon, <1>1, <1>2

LEMMA Unmoved ==
  ASSUME NEW s
  PROVE  /\ UNCHANGED fresh => (InFresh(s)' <=> InFresh(s))
         /\ UNCHANGED queue => \A w, i : InQueue(s, w, i)' <=> InQueue(s, w, i)
         /\ UNCHANGED short => \A w : InShort(s, w)' <=> InShort(s, w)
         /\ UNCHANGED long => \A w : InLong(s, w)' <=> InLong(s, w)
         /\ UNCHANGED rotRx => \A r, w : InRotated(s, r, w)' <=> InRotated(s, r, w)
         /\ UNCHANGED round => \A r : InAcc(s, r)' <=> InAcc(s, r)
         /\ UNCHANGED out => \A r : InOut(s, r)' <=> InOut(s, r)
         /\ UNCHANGED egress => (InEgress(s)' <=> InEgress(s))
         /\ UNCHANGED discarded => (InDiscarded(s)' <=> InDiscarded(s))
         /\ UNCHANGED lost => \A c : InLost(s, c)' <=> InLost(s, c)
BY Zenon DEF InFresh, InQueue, InShort, InLong, InRotated, InAcc, InOut, InEgress, InDiscarded, InLost

\* A task goes to the end of the queue of worker w.
LEMMA Appended ==
  ASSUME queue \in [Worker -> Seq(Task)], NEW w \in Worker, NEW t \in Task, NEW s,
         queue' = Enqueue(w, t)
  PROVE  \A v, i : InQueue(s, v, i)' <=>
             InQueue(s, v, i) \/ (v = w /\ i = Len(queue[w]) + 1 /\ Carries(t, s))
<1>1. queue' = [queue EXCEPT ![w] = Append(queue[w], t)]
  BY Zenon DEF Enqueue
<1>2. ASSUME NEW v, NEW i
      PROVE  InQueue(s, v, i)' <=>
                 InQueue(s, v, i) \/ (v = w /\ i = Len(queue[w]) + 1 /\ Carries(t, s))
  <2>1. CASE v = w
    <3>1. queue'[w] = Append(queue[w], t)
      BY Zenon, <1>1
    <3>2. /\ DOMAIN queue[w] = 1 .. Len(queue[w])
          /\ DOMAIN queue'[w] = 1 .. Len(queue[w]) + 1
          /\ \A j \in 1 .. Len(queue[w]) : queue'[w][j] = queue[w][j]
          /\ queue'[w][Len(queue[w]) + 1] = t
          /\ Len(queue[w]) \in Nat
      BY <3>1
    <3> QED
      BY <2>1, <3>2 DEF InQueue
  <2>2. CASE v # w
    BY Zenon, <1>1, <2>2 DEF InQueue
  <2> QED
    BY Zenon, <2>1, <2>2
<1> QED
  BY Zenon, <1>2

\* Worker w takes the first task: the others move forward by one.
LEMMA Popped ==
  ASSUME queue \in [Worker -> Seq(Task)], NEW w \in Worker, NEW kind, NEW s, TakeTask(w, kind)
  PROVE  /\ \A i : InQueue(s, w, i)' <=> i \in Nat \ {0} /\ InQueue(s, w, i + 1)
         /\ \A v, i : v # w => (InQueue(s, v, i)' <=> InQueue(s, v, i))
         /\ \A i : InQueue(s, w, i) => i \in Nat \ {0}
         /\ InQueue(s, w, 1) <=> Carries(Head(queue[w]), s)
<1>1. /\ queue' = [queue EXCEPT ![w] = Tail(queue[w])]
      /\ queue[w] \in Seq(Task) /\ queue[w] # <<>>
  BY Zenon DEF TakeTask
<1>2. /\ Len(queue[w]) \in Nat \ {0}
      /\ DOMAIN queue[w] = 1 .. Len(queue[w])
      /\ Head(queue[w]) = queue[w][1]
      /\ DOMAIN Tail(queue[w]) = 1 .. Len(queue[w]) - 1
      /\ \A i \in 1 .. Len(queue[w]) - 1 : Tail(queue[w])[i] = queue[w][i + 1]
  BY <1>1
<1>3. queue'[w] = Tail(queue[w]) /\ \A v \in Worker : v # w => queue'[v] = queue[v]
  BY Zenon, <1>1
<1>4. ASSUME NEW i PROVE InQueue(s, w, i)' <=> i \in Nat \ {0} /\ InQueue(s, w, i + 1)
  <2>1. InQueue(s, w, i)' <=> i \in 1 .. Len(queue[w]) - 1 /\ Carries(Tail(queue[w])[i], s)
    BY Zenon, <1>2, <1>3 DEF InQueue
  <2>2. InQueue(s, w, i + 1) <=> i + 1 \in 1 .. Len(queue[w]) /\ Carries(queue[w][i + 1], s)
    BY Zenon, <1>2 DEF InQueue
  <2> QED
    BY <1>2, <2>1, <2>2
<1> QED
  BY <1>2, <1>3, <1>4 DEF InQueue

LEMMA OnlyHere ==
  ASSUME NEW s, NEW k, NEW x, NEW y, Once(s), At(s, k, x, y)
  PROVE  OnlyAt(s, k, x, y)
<1>1. PICK l, u, v : OnlyAt(s, l, u, v)
  BY Zenon DEF Once
<1>2. l = k /\ u = x /\ v = y
  BY Zenon, <1>1, AloneForm DEF OnlyAt
<1> QED
  BY Zenon, <1>1, <1>2

-----------------------------------------------------------------------------
(* Types, and the text a worker keeps. *)

\* What the parser leaves is text, and no line ends in it: the pieces of an
\* unfinished line are counted.
LEMMA UnparsedHeads ==
  ASSUME HasLeast, NEW buf \in Seq(Piece)
  PROVE  /\ Unparsed(buf) \in Seq(Piece)
         /\ \A i \in DOMAIN Unparsed(buf) : Unparsed(buf)[i].part = "head"
<1> DEFINE len   == Len(buf)
           open  == {k \in 1 .. len + 1 : \A i \in k .. len : ~EndsLine(buf, i)}
           first == CHOOSE k \in open : \A j \in open : k <= j
           left  == SubSeq(buf, first, len)
<1>1. len \in Nat /\ buf \in [1 .. len -> Piece]
  OBVIOUS
<1>2. first \in open
  <2>1. open \in SUBSET Nat /\ open # {}
    <3>1. len + 1 \in open
      BY <1>1
    <3> QED
      BY <1>1, <3>1
  <2>2. \E k \in open : \A j \in open : k <= j
    <3> HIDE DEF open
    <3> QED
      BY Zenon, <2>1 DEF HasLeast
  <2> HIDE DEF open
  <2> QED
    BY Zenon, <2>2
<1>3. first \in 1 .. len + 1 /\ \A i \in first .. len : buf[i].part = "head"
  <2> HIDE DEF first
  <2> QED
    BY <1>1, <1>2 DEF EndsLine
<1>4. Unparsed(buf) \in {<<>>, left}
  BY Zenon DEF Unparsed
<1> HIDE DEF first
<1>5. Len(left) = len - first + 1 /\ \A i \in 1 .. len - first + 1 : left[i] = buf[first + i - 1]
  BY <1>1, <1>3
<1>6. left \in Seq(Piece)
  BY <1>1, <1>3, <1>5
<1>7. \A i \in DOMAIN left : left[i].part = "head"
  <2>1. DOMAIN left = 1 .. len - first + 1
    BY <1>5, <1>6
  <2>2. \A i \in 1 .. len - first + 1 : first + i - 1 \in first .. len
    BY <1>1, <1>3
  <2> HIDE DEF left, len
  <2> QED
    BY Zenon, <1>3, <1>5, <2>1, <2>2
<1>8. <<>> \in Seq(Piece) /\ DOMAIN <<>> = {}
  OBVIOUS
<1> HIDE DEF left
<1> QED
  BY Zenon, <1>4, <1>6, <1>7, <1>8

LEMMA StepTypes == HasLeast /\ TypeOK /\ [Next]_vars => TypeOK'
<1>EnqueueType.
  ASSUME NEW w \in Worker, NEW t \in Task, queue \in [Worker -> Seq(Task)]
  PROVE  Enqueue(w, t) \in [Worker -> Seq(Task)]
  BY <1>EnqueueType DEF Enqueue
<1>LoseType.
  ASSUME NEW c \in Counter, NEW S \in SUBSET Sample, lost \in [Counter -> SUBSET Sample]
  PROVE  Lose(c, S) \in [Counter -> SUBSET Sample]
  BY Zenon, <1>LoseType DEF Lose
\* The form `lost' takes in the actions that look whether a worker is alive.
<1>MayLoseType.
  ASSUME NEW c \in Counter, NEW S \in SUBSET Sample, lost \in [Counter -> SUBSET Sample],
         lost' = lost \/ lost' = Lose(c, S)
  PROVE  lost' \in [Counter -> SUBSET Sample]
  <2> USE <1>MayLoseType
  <2>1. CASE lost' = lost
    BY <2>1
  <2>2. CASE lost' = Lose(c, S)
    BY Zenon, <2>2, <1>LoseType
  <2> QED
    BY <2>1, <2>2
\* All tasks but Parse.
<1>OtherTaskTypes.
  ASSUME RunnerTypeOK, NEW w \in Worker, Run(w), ~RunParse(w)
  PROVE  RunnerTypeOK'
  <2> USE <1>OtherTaskTypes
  <2> USE ConstantsAssumption
  <2>1. CASE RunAddMetrics(w)
    <3> DEFINE list == Head(queue[w]).list
    <3>1. queue' \in [Worker -> Seq(Task)] /\ list \in Seq(Sample)
      BY Zenon, <2>1, TakeTaskType, TaskFields DEF RunAddMetrics, RunnerTypeOK
    <3>2. Admitted(short[w], list) \in SUBSET Sample /\ Refused(short[w], list) \in SUBSET Sample
      <4> HIDE DEF list
      <4>1. \A i \in DOMAIN list : list[i] \in Sample
        BY <3>1
      <4> QED
        BY Zenon, <4>1, AdmittedSamples
    <3>3. lost' \in [Counter -> SUBSET Sample]
      BY Zenon, <2>1, <3>2, <1>LoseType DEF RunAddMetrics, RunnerTypeOK, Counter
    <3>4. short' \in [Worker -> SUBSET Sample]
      BY Zenon, <2>1, <3>2 DEF RunAddMetrics, RunnerTypeOK
    <3> QED
      BY Zenon, <2>1, <3>1, <3>3, <3>4 DEF RunAddMetrics, RunnerTypeOK
  <2>2. CASE RunAddSnapshot(w)
    <3> DEFINE list == Head(queue[w]).list
    <3>1. queue' \in [Worker -> Seq(Task)] /\ list \in Seq(Sample)
      BY Zenon, <2>2, TakeTaskType, TaskFields DEF RunAddSnapshot, RunnerTypeOK
    <3>2. Admitted(long[w], list) \in SUBSET Sample /\ Refused(long[w], list) \in SUBSET Sample
      <4> HIDE DEF list
      <4>1. \A i \in DOMAIN list : list[i] \in Sample
        BY <3>1
      <4> QED
        BY Zenon, <4>1, AdmittedSamples
    <3>3. lost' \in [Counter -> SUBSET Sample]
      BY Zenon, <2>2, <3>2, <1>LoseType DEF RunAddSnapshot, RunnerTypeOK, Counter
    <3>4. long' \in [Worker -> SUBSET Sample]
      BY Zenon, <2>2, <3>2 DEF RunAddSnapshot, RunnerTypeOK
    <3> QED
      BY Zenon, <2>2, <3>1, <3>3, <3>4 DEF RunAddSnapshot, RunnerTypeOK
  <2>3. CASE RunTakeSnapshot(w)
    <3>1. queue' \in [Worker -> Seq(Task)]
      BY Zenon, <2>3, TakeTaskType DEF RunTakeSnapshot, RunnerTypeOK
    <3>2. lost' \in [Counter -> SUBSET Sample]
      BY Zenon, <2>3, <1>LoseType DEF RunTakeSnapshot, RunnerTypeOK, Counter
    <3> QED
      BY Zenon, <2>3, <3>1, <3>2, OneshotTypes DEF RunTakeSnapshot, RunnerTypeOK, Merge
  <2>4. CASE RunRotate(w)
    <3>1. queue' \in [Worker -> Seq(Task)] /\ Head(queue[w]).round \in Round
      BY Zenon, <2>4, TakeTaskType, TaskFields DEF RunRotate, RunnerTypeOK
    <3>2. lost' \in [Counter -> SUBSET Sample]
      BY Zenon, <2>4, <1>LoseType DEF RunRotate, RunnerTypeOK, Counter
    <3>3. rotRx' \in [Round -> [Worker -> Oneshot]]
      BY Zenon, <2>4, <3>1, OneshotTypes DEF RunRotate, RunnerTypeOK
    <3>4. buffers' \in [Worker -> [Addr -> [times : 0 .. MaxTimes - 1, data : Seq(Piece)] \cup {NoBuffer}]]
      <4>1. \A b \in [times : 0 .. MaxTimes - 1, data : Seq(Piece)] \cup {NoBuffer} :
                Retain(b) \in [times : 0 .. MaxTimes - 1, data : Seq(Piece)] \cup {NoBuffer}
        BY DEF Retain
      <4> QED
        BY Zenon, <2>4, <4>1 DEF RunRotate, RunnerTypeOK
    <3> QED
      BY Zenon, <2>4, <3>1, <3>2, <3>3, <3>4 DEF RunRotate, RunnerTypeOK
  <2>5. CASE RunAggregate(w)
    <3>1. /\ queue' \in [Worker -> Seq(Task)]
          /\ Head(queue[w]).round \in Round
          /\ Head(queue[w]).metric \subseteq Sample
      BY Zenon, <2>5, TakeTaskType, TaskFields DEF RunAggregate, RunnerTypeOK
    <3> QED
      BY Zenon, <2>5, <3>1 DEF RunAggregate, RunnerTypeOK
  <2> QED
    BY Zenon, <2>1, <2>2, <2>3, <2>4, <2>5 DEF Run
<1>ArrivalTypes.
  ASSUME RunnerTypeOK
  PROVE  /\ \A p \in Route, d \in Data : SendParse(p[2], p[1], d) => RunnerTypeOK'
         /\ \A w \in Worker, l \in List, k \in {"AddMetric", "AddMetrics", "AddSnapshot"} :
                SendMetrics(w, k, l) => RunnerTypeOK'
  <2> USE <1>ArrivalTypes
  <2>1. ASSUME NEW p \in Route, NEW d \in Data, SendParse(p[2], p[1], d) PROVE RunnerTypeOK'
    <3>1. p[2] \in Worker /\ p[1] \in Addr /\ d \in Seq(Piece)
      BY Zenon, PipelineAssumption
    <3>2. [kind |-> "Parse", addr |-> p[1], data |-> d] \in Task
      BY Zenon, <3>1 DEF Task
    <3>3. queue' \in [Worker -> Seq(Task)]
      BY <2>1, <3>1, <3>2, <1>EnqueueType DEF SendParse, RunnerTypeOK
    <3>4. lost' \in [Counter -> SUBSET Sample]
      <4>1. lost' = lost \/ lost' = Lose("DROPS", Ends(d))
        BY Zenon, <2>1 DEF SendParse
      <4>2. Ends(d) \in SUBSET Sample
        BY Zenon DEF Ends
      <4> QED
        BY Zenon, <4>1, <4>2, <1>MayLoseType, CounterNames DEF RunnerTypeOK
    <3> QED
      BY Zenon, <2>1, <3>3, <3>4 DEF SendParse, RunnerTypeOK
  <2>2. ASSUME NEW w \in Worker, NEW l \in List, NEW k \in {"AddMetric", "AddMetrics", "AddSnapshot"},
               SendMetrics(w, k, l)
        PROVE  RunnerTypeOK'
    <3>1. l \in Seq(Sample)
      BY Zenon, PipelineAssumption
    <3>2. [kind |-> k, list |-> l] \in Task
      BY Zenon, <3>1 DEF Task
    <3>3. queue' \in [Worker -> Seq(Task)]
      BY <2>2, <3>2, <1>EnqueueType DEF SendMetrics, RunnerTypeOK
    <3>4. lost' \in [Counter -> SUBSET Sample]
      <4>1. {l[i] : i \in DOMAIN l} \in SUBSET Sample
        BY <3>1
      <4>2. lost' = lost \/ lost' = Lose("uncounted", {l[i] : i \in DOMAIN l})
        BY Zenon, <2>2 DEF SendMetrics
      <4> QED
        BY Zenon, <4>1, <4>2, <1>MayLoseType, CounterNames DEF RunnerTypeOK
    <3> QED
      BY Zenon, <2>2, <3>3, <3>4 DEF SendMetrics, RunnerTypeOK
  <2> QED
    BY Zenon, <2>1, <2>2
<1>DieTypes.
  ASSUME RunnerTypeOK, NEW w \in Worker, Die(w)
  PROVE  RunnerTypeOK'
  <2> USE <1>DieTypes
  <2>1. queue' \in [Worker -> Seq(Task)]
    BY DEF Die, RunnerTypeOK
  <2>2. snapRx' \in [Worker -> Oneshot] /\ rotRx' \in [Round -> [Worker -> Oneshot]]
    BY Zenon, OneshotTypes DEF Die, RunnerTypeOK
  <2>3. lost' \in [Counter -> SUBSET Sample]
    BY Zenon, <1>LoseType DEF Die, RunnerTypeOK, Counter
  <2>4. buffers' \in [Worker -> [Addr -> [times : 0 .. MaxTimes - 1, data : Seq(Piece)] \cup {NoBuffer}]]
    BY Zenon DEF Die, RunnerTypeOK
  <2> QED
    BY Zenon, <2>1, <2>2, <2>3, <2>4 DEF Die, RunnerTypeOK
<1>SnapshotTypes.
  ASSUME TypeOK, Snapshot
  PROVE  TypeOK'
  <2> USE <1>SnapshotTypes
  <2>1. CASE SnapTick
    BY Zenon, <2>1, OneshotTypes DEF SnapTick, TypeOK, RunnerTypeOK
  <2>2. CASE SnapJoin
    <3>1. replicated' \subseteq Sample
      BY <2>2, OneshotTypes DEF SnapJoin, TypeOK, RunnerTypeOK
    <3>2. snap' \in [phase : {"idle", "joining", "ended"}, toSend : SUBSET Worker]
      BY Zenon, <2>2 DEF SnapJoin, TypeOK
    <3> QED
      BY Zenon, <2>2, <3>1, <3>2, OneshotTypes DEF SnapJoin, TypeOK, RunnerTypeOK
  <2>3. CASE SnapFail
    <3>1. snap' \in [phase : {"idle", "joining", "ended"}, toSend : SUBSET Worker]
      BY Zenon, <2>3 DEF SnapFail, TypeOK
    <3> QED
      BY Zenon, <2>3, <3>1, OneshotTypes DEF SnapFail, TypeOK, RunnerTypeOK
  <2>4. ASSUME NEW w \in Worker, SendTakeSnapshot(w) PROVE TypeOK'
    <3>1. [kind |-> "TakeSnapshot"] \in Task
      BY Zenon DEF Task
    <3>2. queue' \in [Worker -> Seq(Task)]
      BY <2>4, <3>1, <1>EnqueueType DEF SendTakeSnapshot, TypeOK, RunnerTypeOK
    <3>3. snapRx' \in [Worker -> Oneshot]
      <4>1. snapRx' = snapRx \/ snapRx' = [snapRx EXCEPT ![w] = Cancel(@)]
        BY Zenon, <2>4 DEF SendTakeSnapshot
      <4>2. CASE snapRx' = snapRx
        BY Zenon, <4>2 DEF TypeOK, RunnerTypeOK
      <4>3. CASE snapRx' = [snapRx EXCEPT ![w] = Cancel(@)]
        BY Zenon, <4>3, OneshotTypes DEF TypeOK, RunnerTypeOK
      <4> QED
        BY Zenon, <4>1, <4>2, <4>3
    <3>4. snap' \in [phase : {"idle", "joining", "ended"}, toSend : SUBSET Worker]
      BY Zenon, <2>4 DEF SendTakeSnapshot, TypeOK
    <3> QED
      BY Zenon, <2>4, <3>2, <3>3, <3>4 DEF SendTakeSnapshot, TypeOK, RunnerTypeOK
  <2> QED
    BY <2>1, <2>2, <2>3, <2>4 DEF Snapshot
<1>CarbonTypes.
  ASSUME TypeOK, NEW r \in Round, Carbon(r)
  PROVE  TypeOK'
  <2> USE <1>CarbonTypes
  <2> USE DEF RoundState
  <2>0. round \in [Round -> RoundState] /\ FreeRound \in RoundState
    BY Zenon DEF TypeOK, FreeRound
  <2>1. CASE CarbonTick(r)
    BY Zenon, <2>0, <2>1 DEF CarbonTick, TypeOK, RunnerTypeOK, runnerVars
  <2>2. CASE StartRound(r)
    <3>1. round' \in [Round -> RoundState]
      BY Zenon, <2>0, <2>2 DEF StartRound, TypeOK
    <3>2. rotRx' \in [Round -> [Worker -> Oneshot]]
      BY Zenon, <2>2, OneshotTypes DEF StartRound, TypeOK, RunnerTypeOK
    <3> QED
      BY Zenon, <2>2, <3>1, <3>2 DEF StartRound, TypeOK, RunnerTypeOK
  <2>3. CASE AbortRound(r)
    <3>1. round' \in [Round -> RoundState]
      BY Zenon, <2>0, <2>3 DEF AbortRound
    <3>2. rotRx' \in [Round -> [Worker -> Oneshot]]
      BY Zenon, <2>3, OneshotTypes DEF AbortRound, TypeOK, RunnerTypeOK
    <3>3. round[r].acc \cup UNION {rotRx[r][w].val : w \in Worker} \in SUBSET Sample
      BY OneshotTypes DEF TypeOK, RunnerTypeOK
    <3>4. lost' \in [Counter -> SUBSET Sample] /\ discarded' \subseteq Sample
      <4> DEFINE held == round[r].acc \cup UNION {rotRx[r][w].val : w \in Worker}
      <4>1. /\ lost' = lost \/ lost' = Lose("uncounted", held)
            /\ discarded' = discarded \/ discarded' = discarded \cup held
        BY Zenon, <2>3 DEF AbortRound
      <4>2. held \in SUBSET Sample
        BY Zenon, <3>3
      <4> HIDE DEF held
      <4> QED
        BY Zenon, <4>1, <4>2, <1>MayLoseType, CounterNames DEF TypeOK, RunnerTypeOK
    <3> QED
      BY Zenon, <2>3, <3>1, <3>2, <3>4 DEF AbortRound, TypeOK, RunnerTypeOK
  <2>4. ASSUME NEW w \in Worker, SendRotate(r, w) PROVE TypeOK'
    <3>1. [kind |-> "Rotate", round |-> r] \in Task
      BY Zenon DEF Task
    <3>2. queue' \in [Worker -> Seq(Task)]
      BY <2>4, <3>1, <1>EnqueueType DEF SendRotate, TypeOK, RunnerTypeOK
    <3>3. rotRx' \in [Round -> [Worker -> Oneshot]]
      <4>1. rotRx' = rotRx \/ rotRx' = [rotRx EXCEPT ![r][w] = Cancel(@)]
        BY Zenon, <2>4 DEF SendRotate
      <4>2. CASE rotRx' = rotRx
        BY Zenon, <4>2 DEF TypeOK, RunnerTypeOK
      <4>3. CASE rotRx' = [rotRx EXCEPT ![r][w] = Cancel(@)]
        BY <4>3, OneshotTypes DEF TypeOK, RunnerTypeOK
      <4> QED
        BY Zenon, <4>1, <4>2, <4>3
    <3>4. round' \in [Round -> RoundState]
      BY Zenon, <2>0, <2>4 DEF SendRotate
    <3> QED
      BY Zenon, <2>4, <3>2, <3>3, <3>4 DEF SendRotate, TypeOK, RunnerTypeOK
  <2>5. ASSUME NEW w \in Worker, Fold(r, w) PROVE TypeOK'
    <3>1. rotRx[r][w].val \in SUBSET Sample /\ Merge(round[r].acc, rotRx[r][w].val) \in SUBSET Sample
      BY OneshotTypes DEF TypeOK, RunnerTypeOK, Merge
    <3>2. rotRx' \in [Round -> [Worker -> Oneshot]]
      BY Zenon, <2>5, OneshotTypes DEF Fold, TypeOK, RunnerTypeOK
    <3>3. round' \in [Round -> RoundState]
      BY <2>0, <2>5, <3>1 DEF Fold
    <3>4. lost' \in [Counter -> SUBSET Sample] /\ discarded' \subseteq Sample
      <4> DEFINE rotated == rotRx[r][w].val
                 refused == rotated \ Merge(round[r].acc, rotated)
      <4>1. /\ lost' = lost \/ lost' = Lose("AGG_ERRORS", refused)
            /\ discarded' = discarded \/ discarded' = discarded \cup rotated
        BY Zenon, <2>5 DEF Fold
      <4>2. refused \in SUBSET Sample /\ rotated \in SUBSET Sample
        BY Zenon, <3>1
      <4> HIDE DEF refused, rotated
      <4> QED
        BY Zenon, <4>1, <4>2, <1>MayLoseType, CounterNames DEF TypeOK, RunnerTypeOK
    <3> QED
      BY Zenon, <2>5, <3>2, <3>3, <3>4 DEF Fold, TypeOK, RunnerTypeOK
  <2>6. CASE FinishFollower(r)
    BY Zenon, <2>0, <2>6 DEF FinishFollower, TypeOK, RunnerTypeOK, runnerVars
  <2>7. CASE AggregateSingle(r)
    BY ZenonT(30), <2>0, <2>7 DEF AggregateSingle, TypeOK, RunnerTypeOK
  <2>8. CASE AggregateCommon(r)
    BY Zenon, <2>0, <2>8 DEF AggregateCommon, TypeOK, RunnerTypeOK, runnerVars
  <2>9. CASE AggregateSeparate(r)
    <3>1. lost' \in [Counter -> SUBSET Sample]
      <4>1. lost' = lost \/ lost' = Lose("uncounted", round[r].acc)
        BY Zenon, <2>9 DEF AggregateSeparate
      <4>2. round[r].acc \in SUBSET Sample
        BY Zenon, <2>0
      <4> QED
        BY Zenon, <4>1, <4>2, <1>MayLoseType, CounterNames DEF TypeOK, RunnerTypeOK
    <3>2. round' \in [Round -> RoundState]
      BY <2>0, <2>9 DEF AggregateSeparate
    <3> QED
      BY Zenon, <2>9, <3>1, <3>2 DEF AggregateSeparate, TypeOK, RunnerTypeOK
  <2>10. ASSUME NEW s \in Sample, SendAggregate(r, s) PROVE TypeOK'
    <3> DEFINE w      == round[r].num % W
               metric == {t \in round[r].acc : SameName(s, t)}
    <3>1. w \in Worker
      BY <2>0, ConstantsAssumption DEF Worker
    <3>2. metric \in SUBSET Sample
      BY Zenon, <2>0
    <3>3. [kind |-> "Aggregate", round |-> r, metric |-> metric] \in Task
      BY Zenon, <3>2 DEF Task
    <3>4. queue' \in [Worker -> Seq(Task)]
      BY <2>10, <3>1, <3>3, <1>EnqueueType DEF SendAggregate, TypeOK, RunnerTypeOK
    <3>5. lost' \in [Counter -> SUBSET Sample]
      <4>1. lost' = lost \/ lost' = Lose("DROPS", metric)
        BY Zenon, <2>10 DEF SendAggregate
      <4> HIDE DEF metric
      <4> QED
        BY Zenon, <3>2, <4>1, <1>MayLoseType, CounterNames DEF TypeOK, RunnerTypeOK
    <3>6. round' \in [Round -> RoundState]
      <4>1. round' = [round EXCEPT ![r].acc = @ \ metric, ![r].num = @ + 1]
        BY Zenon, <2>10 DEF SendAggregate
      <4> HIDE DEF metric
      <4> QED
        BY <2>0, <4>1
    <3> QED
      BY Zenon, <2>10, <3>4, <3>5, <3>6 DEF SendAggregate, TypeOK, RunnerTypeOK
  <2>11. CASE Collect(r)
    BY Zenon, <2>0, <2>11 DEF Collect, TypeOK, RunnerTypeOK
  <2> QED
    BY <2>1, <2>2, <2>3, <2>4, <2>5, <2>6, <2>7, <2>8, <2>9, <2>10, <2>11 DEF Carbon
<1>ParseTypes.
  ASSUME HasLeast, RunnerTypeOK, NEW w \in Worker, RunParse(w)
  PROVE  RunnerTypeOK'
  <2> USE <1>ParseTypes
  <2> USE ConstantsAssumption
  <2> DEFINE a    == Head(queue[w]).addr
             buf  == Kept(w, a) \o Head(queue[w]).data
             list == Parsed(buf)
  <2>1. queue' \in [Worker -> Seq(Task)] /\ a \in Addr /\ Head(queue[w]).data \in Seq(Piece)
    BY Zenon, TakeTaskType, TaskFields DEF RunParse, RunnerTypeOK
  <2>2. buf \in Seq(Piece)
    BY <2>1, KeptType
  <2> HIDE DEF buf, a
  <2>3. /\ Unparsed(buf) \in Seq(Piece)
        /\ Broken(buf) \in SUBSET Sample
        /\ Admitted(short[w], list) \in SUBSET Sample
        /\ Refused(short[w], list) \in SUBSET Sample
    BY <2>2, UnparsedHeads, ParsedSamples, AdmittedSamples
  <2>4. /\ buffers' = [buffers EXCEPT ![w][a] = [times |-> 0, data |-> Unparsed(buf)]]
        /\ short' = [short EXCEPT ![w] = @ \cup Admitted(@, list)]
        /\ lost' = [lost EXCEPT !["PARSE_ERRORS"] = @ \cup Broken(buf),
                                !["AGG_ERRORS"] = @ \cup Refused(short[w], list)]
        /\ UNCHANGED <<fresh, long, dead, snapRx, rotRx, out>>
    BY Zenon DEF RunParse, buf, a
  <2> HIDE DEF list
  <2>5. short' \in [Worker -> SUBSET Sample]
    BY Zenon, <2>3, <2>4 DEF RunnerTypeOK
  <2>6. buffers' \in [Worker -> [Addr -> [times : 0 .. MaxTimes - 1, data : Seq(Piece)] \cup {NoBuffer}]]
    <3>1. [times |-> 0, data |-> Unparsed(buf)] \in [times : 0 .. MaxTimes - 1, data : Seq(Piece)]
      BY <2>3
    <3> QED
      BY Zenon, <2>1, <2>4, <3>1 DEF RunnerTypeOK
  <2>7. lost' \in [Counter -> SUBSET Sample]
    BY Zenon, <2>3, <2>4 DEF RunnerTypeOK, Counter
  <2> QED
    BY ZenonT(30), <2>1, <2>4, <2>5, <2>6, <2>7 DEF RunnerTypeOK
<1> SUFFICES ASSUME HasLeast, TypeOK, [Next]_vars PROVE TypeOK'
  BY Zenon
<1>1. CASE ReceiveText
  BY <1>1, <1>ArrivalTypes DEF ReceiveText, TypeOK, pipelineVars
<1>2. CASE ReceiveMetrics
  BY <1>2, <1>ArrivalTypes DEF ReceiveMetrics, TypeOK, pipelineVars
<1>3. ASSUME NEW w \in Worker, Work(w) PROVE TypeOK'
  BY <1>3, <1>ParseTypes, <1>OtherTaskTypes DEF Work, TypeOK, pipelineVars
<1>4. ASSUME NEW w \in Worker, Panic(w) PROVE TypeOK'
  BY <1>4, <1>DieTypes DEF Panic, TypeOK, pipelineVars
<1>5. CASE Snapshot
  BY <1>5, <1>SnapshotTypes
<1>6. ASSUME NEW r \in Round, Carbon(r) PROVE TypeOK'
  BY <1>6, <1>CarbonTypes
<1>7. CASE SetLeader
  BY Zenon, <1>7 DEF SetLeader, TypeOK, RunnerTypeOK, runnerVars
<1>8. CASE UNCHANGED vars
  BY Zenon, <1>8 DEF vars, runnerVars, pipelineVars, TypeOK, RunnerTypeOK
<1> QED
  BY SMTT(30), <1>1, <1>2, <1>3, <1>4, <1>5, <1>6, <1>7, <1>8 DEF Next

\* Parse leaves an unfinished line, Rotate drops or keeps one, and no other
\* step writes to `buffers'.
LEMMA HeadsStep ==
  ASSUME HasLeast, TypeOK, KeptHeads, Next
  PROVE  KeptHeads'
<1> DEFINE Buffer == [times : 0 .. MaxTimes - 1, data : Seq(Piece)]
<1>0. buffers \in [Worker -> [Addr -> Buffer \cup {NoBuffer}]] /\ queue \in [Worker -> Seq(Task)]
  BY Zenon DEF TypeOK, RunnerTypeOK
<1>1. CASE UNCHANGED buffers
  BY Zenon, <1>1 DEF KeptHeads, Kept
<1>2. ASSUME NEW w \in Worker, RunParse(w) PROVE KeptHeads'
  <2> DEFINE a == Head(queue[w]).addr
             buf == Kept(w, a) \o Head(queue[w]).data
  <2>1. a \in Addr /\ Head(queue[w]).data \in Seq(Piece)
    BY Zenon, <1>0, <1>2, TakeTaskType, TaskFields DEF RunParse
  <2>2. buf \in Seq(Piece)
    BY <2>1, KeptType DEF TypeOK
  <2>3. buffers' = [buffers EXCEPT ![w][a] = [times |-> 0, data |-> Unparsed(buf)]]
    BY Zenon, <1>2 DEF RunParse
  <2> HIDE DEF a, buf
  <2>4. \A i \in DOMAIN Unparsed(buf) : Unparsed(buf)[i].part = "head"
    BY <2>2, UnparsedHeads
  <2>5. ASSUME NEW v \in Worker, NEW b \in Addr
        PROVE  \A i \in DOMAIN Kept(v, b)' : Kept(v, b)'[i].part = "head"
    <3>1. CASE v = w /\ b = a
      <4>1. buffers'[v][b] = [times |-> 0, data |-> Unparsed(buf)]
        BY SMTT(30), <1>0, <2>1, <2>3, <3>1
      <4>2. Kept(v, b)' = <<>> \/ Kept(v, b)' = Unparsed(buf)
        BY <4>1 DEF Kept
      <4> QED
        BY <2>4, <4>2
    <3>2. CASE ~(v = w /\ b = a)
      <4>1. buffers'[v][b] = buffers[v][b]
        BY SMTT(30), <1>0, <2>1, <2>3, <3>2
      <4>2. Kept(v, b)' = Kept(v, b)
        BY Zenon, <4>1 DEF Kept
      <4> QED
        BY Zenon, <4>2 DEF KeptHeads
    <3> QED
      BY Zenon, <3>1, <3>2
  <2> QED
    BY Zenon, <2>5 DEF KeptHeads
<1>3. ASSUME NEW w \in Worker, RunRotate(w) \/ Die(w) PROVE KeptHeads'
  <2>1. ASSUME NEW v \in Worker, NEW b \in Addr
        PROVE  buffers'[v][b] \in {buffers[v][b], NoBuffer, Retain(buffers[v][b])}
    <3>1. CASE RunRotate(w)
      <4>1. buffers' = [buffers EXCEPT ![w] = [a \in Addr |-> Retain(@[a])]]
        BY Zenon, <3>1 DEF RunRotate
      <4> QED
        BY Zenon, <1>0, <4>1
    <3>2. CASE Die(w)
      <4>1. buffers' = [buffers EXCEPT ![w] = [a \in Addr |-> NoBuffer]]
        BY Zenon, <3>2 DEF Die
      <4> QED
        BY Zenon, <1>0, <4>1
    <3> QED
      BY ZenonT(30), <1>3, <3>1, <3>2
  <2>2. ASSUME NEW v \in Worker, NEW b \in Addr PROVE Kept(v, b)' = <<>> \/ Kept(v, b)' = Kept(v, b)
    <3>1. buffers[v][b] \in Buffer \cup {NoBuffer}
      BY Zenon, <1>0
    <3>2. Retain(buffers[v][b]) = NoBuffer
            \/ (buffers[v][b] # NoBuffer /\ Retain(buffers[v][b]).data = buffers[v][b].data)
      BY Zenon, <3>1 DEF Retain
    <3> QED
      BY Zenon, <2>1, <3>2 DEF Kept
  <2> QED
    BY <2>2 DEF KeptHeads
<1>4. CASE ReceiveText \/ ReceiveMetrics
  BY ZenonT(30), <1>1, <1>4 DEF ReceiveText, ReceiveMetrics, SendParse, SendMetrics
<1>5. ASSUME NEW w \in Worker, Work(w) \/ Panic(w) PROVE KeptHeads'
  BY ZenonT(30), <1>1, <1>2, <1>3, <1>5 DEF Work, Panic, Run, RunAddMetrics, RunAddSnapshot, RunTakeSnapshot, RunAggregate
<1>6. CASE Snapshot \/ SetLeader
  BY Zenon, <1>1, <1>6 DEF Snapshot, SnapTick, SnapJoin, SnapFail, SendTakeSnapshot, SetLeader, runnerVars
<1>7. ASSUME NEW r \in Round, Carbon(r) PROVE KeptHeads'
  BY Zenon, <1>1, <1>7 DEF Carbon, CarbonTick, StartRound, AbortRound, SendRotate, Fold, FinishFollower,
     AggregateSingle, AggregateCommon, AggregateSeparate, SendAggregate, Collect, runnerVars
<1> QED
  BY ZenonT(30), <1>4, <1>5, <1>6, <1>7 DEF Next

-----------------------------------------------------------------------------
(* Places and triples. *)

LEMMA OnceForm == CountedOnce <=> AllOnce
<1>PlacesAreTriples.
  ASSUME NEW s
  PROVE  /\ \A k, x, y : <<k, x, y>> \in Places(s) <=> At(s, k, x, y)
         /\ \A p \in Places(s) : \E k, x, y : p = <<k, x, y>>
  <2> USE <1>PlacesAreTriples
  <2> DEFINE
        fr == {<<"fresh", 0, 0>> : i \in {j \in {0} : EndOf(s) \in fresh}}
        qu == UNION {{<<"queue", w, i>> : i \in {j \in DOMAIN queue[w] : Carries(queue[w][j], s)}} : w \in Worker}
        sh == {<<"short", w, 0>> : w \in {v \in Worker : s \in short[v]}}
        lo == {<<"long", w, 0>> : w \in {v \in Worker : s \in long[v]}}
        ro == UNION {{<<"rotated", r, w>> : w \in {v \in Worker : s \in rotRx[r][v].val}} : r \in Round}
        ac == {<<"acc", r, 0>> : r \in {q \in Round : s \in round[q].acc}}
        ou == {<<"out", r, 0>> : r \in {q \in Round : s \in out[q]}}
        eg == {<<"egress", 0, 0>> : i \in {j \in {0} : s \in egress}}
        di == {<<"discarded", 0, 0>> : i \in {j \in {0} : s \in discarded}}
        ls == {<<"lost", c, 0>> : c \in {d \in Counter : s \in lost[d]}}
  <2>1. Places(s) = fr \cup qu \cup sh \cup lo \cup ro \cup ac \cup ou \cup eg \cup di \cup ls
    BY Zenon DEF Places
  <2>2. \A p : p \in fr <=> p = <<"fresh", 0, 0>> /\ InFresh(s)
    BY Zenon DEF InFresh
  <2>3. \A p : p \in qu <=> \E w, i : p = <<"queue", w, i>> /\ InQueue(s, w, i)
    BY DEF InQueue
  <2>4. \A p : p \in sh <=> \E w : p = <<"short", w, 0>> /\ InShort(s, w)
    BY Zenon DEF InShort
  <2>5. \A p : p \in lo <=> \E w : p = <<"long", w, 0>> /\ InLong(s, w)
    BY Zenon DEF InLong
  <2>6. \A p : p \in ro <=> \E r, w : p = <<"rotated", r, w>> /\ InRotated(s, r, w)
    BY DEF InRotated
  <2>7. \A p : p \in ac <=> \E r : p = <<"acc", r, 0>> /\ InAcc(s, r)
    BY Zenon DEF InAcc
  <2>8. \A p : p \in ou <=> \E r : p = <<"out", r, 0>> /\ InOut(s, r)
    BY Zenon DEF InOut
  <2>9. \A p : p \in eg <=> p = <<"egress", 0, 0>> /\ InEgress(s)
    BY Zenon DEF InEgress
  <2>10. \A p : p \in di <=> p = <<"discarded", 0, 0>> /\ InDiscarded(s)
    BY Zenon DEF InDiscarded
  <2>11. \A p : p \in ls <=> \E c : p = <<"lost", c, 0>> /\ InLost(s, c)
    BY Zenon DEF InLost
  <2> HIDE DEF fr, qu, sh, lo, ro, ac, ou, eg, di, ls
  <2>12. ASSUME NEW p \in Places(s) PROVE \E k, x, y : p = <<k, x, y>>
    BY <2>1, <2>2, <2>3, <2>4, <2>5, <2>6, <2>7, <2>8, <2>9, <2>10, <2>11
  <2>13. ASSUME NEW k, NEW x, NEW y PROVE <<k, x, y>> \in Places(s) <=> At(s, k, x, y)
    <3> DEFINE p == <<k, x, y>>
    <3>0. \A l, u, v : p = <<l, u, v>> <=> k = l /\ x = u /\ y = v
      BY Zenon
    <3> HIDE DEF p
    <3>1. p \in fr <=> k = "fresh" /\ x = 0 /\ y = 0 /\ InFresh(s)
      BY <2>2, <3>0
    <3>2. p \in qu <=> k = "queue" /\ InQueue(s, x, y)
      BY <2>3, <3>0
    <3>3. p \in sh <=> k = "short" /\ y = 0 /\ InShort(s, x)
      BY <2>4, <3>0
    <3>4. p \in lo <=> k = "long" /\ y = 0 /\ InLong(s, x)
      BY <2>5, <3>0
    <3>5. p \in ro <=> k = "rotated" /\ InRotated(s, x, y)
      BY <2>6, <3>0
    <3>6. p \in ac <=> k = "acc" /\ y = 0 /\ InAcc(s, x)
      BY <2>7, <3>0
    <3>7. p \in ou <=> k = "out" /\ y = 0 /\ InOut(s, x)
      BY <2>8, <3>0
    <3>8. p \in eg <=> k = "egress" /\ x = 0 /\ y = 0 /\ InEgress(s)
      BY <2>9, <3>0
    <3>9. p \in di <=> k = "discarded" /\ x = 0 /\ y = 0 /\ InDiscarded(s)
      BY <2>10, <3>0
    <3>10. p \in ls <=> k = "lost" /\ y = 0 /\ InLost(s, x)
      BY <2>11, <3>0
    <3>11. p \in Places(s) <=> At(s, k, x, y)
      BY Zenon, <2>1, <3>1, <3>2, <3>3, <3>4, <3>5, <3>6, <3>7, <3>8, <3>9, <3>10 DEF At
    <3> QED
      BY Zenon, <3>11 DEF p
  <2> QED
    BY Zenon, <2>12, <2>13
<1>1. ASSUME NEW s PROVE (\E p \in Places(s) : Places(s) = {p}) <=> Once(s)
  <2>1. ASSUME NEW p \in Places(s), Places(s) = {p} PROVE Once(s)
    <3>1. PICK k, x, y : p = <<k, x, y>>
      BY Zenon, <1>PlacesAreTriples
    <3>2. ASSUME NEW l, NEW u, NEW v PROVE At(s, l, u, v) <=> l = k /\ u = x /\ v = y
      <4>1. At(s, l, u, v) <=> <<l, u, v>> \in {p}
        BY Zenon, <2>1, <1>PlacesAreTriples
      <4> QED
        BY Zenon, <3>1, <4>1
    <3> QED
      BY <3>2, AloneForm DEF Once, OnlyAt
  <2>2. ASSUME Once(s) PROVE \E p \in Places(s) : Places(s) = {p}
    <3>1. PICK k, x, y : OnlyAt(s, k, x, y)
      BY Zenon, <2>2 DEF Once
    <3>2. <<k, x, y>> \in Places(s)
      BY Zenon, <3>1, <1>PlacesAreTriples DEF OnlyAt
    <3>3. ASSUME NEW p \in Places(s) PROVE p = <<k, x, y>>
      <4>1. PICK l, u, v : p = <<l, u, v>>
        BY Zenon, <1>PlacesAreTriples
      <4> QED
        BY <3>1, <4>1, <1>PlacesAreTriples, AloneForm DEF OnlyAt
    <3> QED
      BY Zenon, <3>2, <3>3
  <2> QED
    BY Zenon, <2>1, <2>2
<1> QED
  BY Zenon, <1>1 DEF CountedOnce, AllOnce

-----------------------------------------------------------------------------
(* The inductive invariant. *)

OnceInv == TypeOK /\ TextInv /\ RoundInv /\ AllOnce

LEMMA InitOnce == Init => OnceInv
<1> SUFFICES ASSUME Init PROVE OnceInv
  BY Zenon
<1>1. TypeOK
  BY Zenon, InitTypes
<1>2. TextInv
  BY DEF Init, RunnerInit, TextInv, Kept, Queued
<1>3. RoundInv
  BY Zenon DEF Init, RunnerInit, RoundInv, FreeRound, Closed
<1>4. ASSUME NEW s \in Sample PROVE Once(s)
  <2>1. InFresh(s)
    BY Zenon DEF Init, RunnerInit, InFresh, Piece
  <2>2. /\ \A w, i : ~InQueue(s, w, i)
        /\ \A w : ~InShort(s, w) /\ ~InLong(s, w)
        /\ \A r, w : ~InRotated(s, r, w)
        /\ \A r : ~InAcc(s, r) /\ ~InOut(s, r)
        /\ ~InEgress(s) /\ ~InDiscarded(s)
        /\ \A c : ~InLost(s, c)
    <3>1. \A w, i : ~InQueue(s, w, i)
      BY DEF Init, RunnerInit, InQueue
    <3>2. \A w : ~InShort(s, w) /\ ~InLong(s, w)
      BY Zenon DEF Init, RunnerInit, InShort, InLong
    <3>3. \A r, w : ~InRotated(s, r, w)
      BY Zenon DEF Init, RunnerInit, InRotated, Closed
    <3>4. \A r : ~InAcc(s, r) /\ ~InOut(s, r)
      BY Zenon DEF Init, RunnerInit, InAcc, InOut, FreeRound
    <3>5. ~InEgress(s) /\ ~InDiscarded(s) /\ \A c : ~InLost(s, c)
      BY Zenon DEF Init, RunnerInit, InEgress, InDiscarded, InLost
    <3> QED
      BY Zenon, <3>1, <3>2, <3>3, <3>4, <3>5
  <2>3. OnlyAt(s, "fresh", 0, 0)
    BY Zenon, <2>1, <2>2 DEF OnlyAt, At, Alone
  <2> QED
    BY Zenon, <2>3 DEF Once
<1> QED
  BY SMTT(30), <1>1, <1>2, <1>3, <1>4 DEF OnceInv, AllOnce

LEMMA StepOnce == HasLeast /\ OnceInv /\ [Next]_vars => OnceInv'

(* How a step moves a sample. *)
\* Sample s stays where it is.
<1>Stays.
  ASSUME NEW s, Once(s),
         InFresh(s)' <=> InFresh(s),
         \A w, i : InQueue(s, w, i)' <=> InQueue(s, w, i),
         \A w : InShort(s, w)' <=> InShort(s, w),
         \A w : InLong(s, w)' <=> InLong(s, w),
         \A r, w : InRotated(s, r, w)' <=> InRotated(s, r, w),
         \A r : InAcc(s, r)' <=> InAcc(s, r),
         \A r : InOut(s, r)' <=> InOut(s, r),
         InEgress(s)' <=> InEgress(s),
         InDiscarded(s)' <=> InDiscarded(s),
         \A c : InLost(s, c)' <=> InLost(s, c)
  PROVE  Once(s)'
  <2> USE <1>Stays
  <2>1. PICK k, x, y : OnlyAt(s, k, x, y)
    BY Zenon DEF Once
  <2>2. At(s, k, x, y)'
    BY Zenon, <2>1 DEF OnlyAt, At
  <2>3. Alone(s, k, x, y)'
    BY Zenon, <2>1 DEF OnlyAt, Alone
  <2> QED
    BY Zenon, <2>2, <2>3 DEF Once, OnlyAt
\* Sample s is not in the task worker w takes, and stays where it is.
<1>StaysWhenTaken.
  ASSUME queue \in [Worker -> Seq(Task)], NEW w \in Worker, NEW kind, NEW s, TakeTask(w, kind),
         Once(s), ~Carries(Head(queue[w]), s),
         InFresh(s)' <=> InFresh(s),
         \A v : InShort(s, v)' <=> InShort(s, v),
         \A v : InLong(s, v)' <=> InLong(s, v),
         \A r, v : InRotated(s, r, v)' <=> InRotated(s, r, v),
         \A r : InAcc(s, r)' <=> InAcc(s, r),
         \A r : InOut(s, r)' <=> InOut(s, r),
         InEgress(s)' <=> InEgress(s),
         InDiscarded(s)' <=> InDiscarded(s),
         \A c : InLost(s, c)' <=> InLost(s, c)
  PROVE  Once(s)'
  <2> USE <1>StaysWhenTaken
  <2>1. PICK k, x, y : OnlyAt(s, k, x, y)
    BY Zenon DEF Once
  <2>2. /\ \A i : InQueue(s, w, i)' <=> i \in Nat \ {0} /\ InQueue(s, w, i + 1)
        /\ \A v, i : v # w => (InQueue(s, v, i)' <=> InQueue(s, v, i))
        /\ \A i : InQueue(s, w, i) => i \in Nat \ {0}
        /\ ~InQueue(s, w, 1)
    BY Zenon, Popped
  <2>3. CASE k = "queue" /\ x = w
    <3>1. InQueue(s, w, y) /\ y \in Nat /\ y > 1
      BY <2>1, <2>2, <2>3 DEF OnlyAt, At
    <3>2. At(s, "queue", w, y - 1)'
      BY <2>2, <3>1 DEF At
    <3>3. \A v, i : InQueue(s, v, i)' => v = w /\ i = y - 1
      BY <2>1, <2>2, <2>3, <3>1 DEF OnlyAt, Alone
    <3>4. Alone(s, "queue", w, y - 1)'
      BY Zenon, <2>1, <2>3, <3>3 DEF OnlyAt, Alone
    <3> QED
      BY Zenon, <3>2, <3>4 DEF Once, OnlyAt
  <2>4. CASE ~(k = "queue" /\ x = w)
    <3>1. \A v, i : InQueue(s, v, i)' <=> InQueue(s, v, i)
      BY Zenon, <2>1, <2>2, <2>4 DEF OnlyAt, Alone
    <3> QED
      BY Zenon, <3>1, <1>Stays
  <2> QED
    BY Zenon, <2>3, <2>4
\* A sample in the task worker w takes is in no queue afterwards.
<1>TakenAway.
  ASSUME queue \in [Worker -> Seq(Task)], NEW w \in Worker, NEW kind, NEW s, TakeTask(w, kind),
         Once(s), Carries(Head(queue[w]), s)
  PROVE  OnlyAt(s, "queue", w, 1) /\ \A v, i : ~InQueue(s, v, i)'
  <2> USE <1>TakenAway
  <2>1. /\ \A i : InQueue(s, w, i)' <=> i \in Nat \ {0} /\ InQueue(s, w, i + 1)
        /\ \A v, i : v # w => (InQueue(s, v, i)' <=> InQueue(s, v, i))
        /\ InQueue(s, w, 1)
    BY Zenon, Popped
  <2>2. OnlyAt(s, "queue", w, 1)
    BY Zenon, <2>1, OnlyHere DEF At
  <2>3. \A v, i : InQueue(s, v, i) => v = w /\ i = 1
    BY Zenon, <2>2 DEF OnlyAt, Alone
  <2>4. ASSUME NEW v, NEW i, InQueue(s, v, i)' PROVE FALSE
    BY <2>1, <2>3, <2>4
  <2> QED
    BY Zenon, <2>2, <2>4
\* Taking a task brings no sample into a queue.
<1>NotQueued.
  ASSUME queue \in [Worker -> Seq(Task)], NEW w \in Worker, NEW kind, NEW s, TakeTask(w, kind),
         \A v, i : ~InQueue(s, v, i)
  PROVE  \A v, i : ~InQueue(s, v, i)'
  <2> USE <1>NotQueued
  <2>1. /\ \A i : InQueue(s, w, i)' => InQueue(s, w, i + 1)
        /\ \A v, i : v # w => (InQueue(s, v, i)' <=> InQueue(s, v, i))
    BY Zenon, Popped
  <2>2. ASSUME NEW v, NEW i, InQueue(s, v, i)' PROVE FALSE
    BY Zenon, <2>1, <2>2
  <2> QED
    BY Zenon, <2>2

(* Workers. *)
\* A list of metrics in a task ends in the cache or is counted.
<1>AddMetricsOnce.
  ASSUME TypeOK, NEW w \in Worker, Work(w), RunAddMetrics(w), NEW s \in Sample, Once(s)
  PROVE  Once(s)'
  <2> USE <1>AddMetricsOnce
  <2> DEFINE list == Head(queue[w]).list
             A == Admitted(short[w], list)
             R == Refused(short[w], list)
  <2>0. queue \in [Worker -> Seq(Task)] /\ lost \in [Counter -> SUBSET Sample] /\ short \in [Worker -> SUBSET Sample]
    BY Zenon DEF TypeOK, RunnerTypeOK
  <2>1. PICK kind \in {"AddMetric", "AddMetrics"} : TakeTask(w, kind)
    BY Zenon DEF RunAddMetrics
  <2>2. Head(queue[w]) \in Task /\ Head(queue[w]).kind = kind
    BY Zenon, <2>0, <2>1, TakeTaskType
  <2>3. list \in Seq(Sample) /\ (Carries(Head(queue[w]), s) <=> \E i \in DOMAIN list : list[i] = s)
    BY Zenon, <2>1, <2>2, TaskFields DEF Carries
  <2>4. /\ short' = [short EXCEPT ![w] = @ \cup A]
        /\ lost' = Lose("AGG_ERRORS", R)
        /\ UNCHANGED <<fresh, long, rotRx, out, round, egress, discarded>>
    BY Zenon DEF RunAddMetrics, Work, pipelineVars
  <2>5. (s \in A \/ s \in R <=> Carries(Head(queue[w]), s)) /\ ~(s \in A /\ s \in R)
    <3> HIDE DEF list
    <3>1. \A i \in DOMAIN list : list[i] \in Sample
      BY <2>3
    <3>2. A \cup R = {list[i] : i \in DOMAIN list} /\ A \cap R = {}
      BY Zenon, <3>1, AdmittedSamples
    <3> QED
      BY Zenon, <2>3, <3>2
  <2> HIDE DEF A, R, list
  <2>6. \A v : InShort(s, v)' <=> InShort(s, v) \/ (v = w /\ s \in A)
    BY Zenon, <2>0, <2>4 DEF InShort
  <2>7. \A d : InLost(s, d)' <=> InLost(s, d) \/ (d = "AGG_ERRORS" /\ s \in R)
    BY Zenon, <2>0, <2>4, Counted, CounterNames
  <2>8. CASE ~Carries(Head(queue[w]), s)
    BY Zenon, <2>0, <2>1, <2>4, <2>5, <2>6, <2>7, <2>8, Unmoved, <1>StaysWhenTaken
  <2>9. CASE Carries(Head(queue[w]), s)
    <3>1. OnlyAt(s, "queue", w, 1) /\ \A v, i : ~InQueue(s, v, i)'
      BY Zenon, <2>0, <2>1, <2>9, <1>TakenAway
    <3>2. CASE s \in A
      <4>1. OnlyAt(s, "short", w, 0)'
        BY Zenon, <2>4, <2>5, <2>6, <2>7, <3>1, <3>2, Unmoved DEF OnlyAt, At, Alone
      <4> QED
        BY Zenon, <4>1 DEF Once
    <3>3. CASE s \in R
      <4>1. OnlyAt(s, "lost", "AGG_ERRORS", 0)'
        BY Zenon, <2>4, <2>5, <2>6, <2>7, <3>1, <3>3, Unmoved, CounterNames DEF OnlyAt, At, Alone
      <4> QED
        BY Zenon, <4>1 DEF Once
    <3> QED
      BY Zenon, <2>5, <2>9, <3>2, <3>3
  <2> QED
    BY Zenon, <2>8, <2>9
\* So does a snapshot of a peer.
<1>AddSnapshotOnce.
  ASSUME TypeOK, NEW w \in Worker, Work(w), RunAddSnapshot(w), NEW s \in Sample, Once(s)
  PROVE  Once(s)'
  <2> USE <1>AddSnapshotOnce
  <2> DEFINE list == Head(queue[w]).list
             A == Admitted(long[w], list)
             R == Refused(long[w], list)
  <2>0. queue \in [Worker -> Seq(Task)] /\ lost \in [Counter -> SUBSET Sample] /\ long \in [Worker -> SUBSET Sample]
    BY Zenon DEF TypeOK, RunnerTypeOK
  <2>1. TakeTask(w, "AddSnapshot")
    BY Zenon DEF RunAddSnapshot
  <2>2. Head(queue[w]) \in Task /\ Head(queue[w]).kind = "AddSnapshot"
    BY Zenon, <2>0, <2>1, TakeTaskType
  <2>3. list \in Seq(Sample) /\ (Carries(Head(queue[w]), s) <=> \E i \in DOMAIN list : list[i] = s)
    BY Zenon, <2>1, <2>2, TaskFields DEF Carries
  <2>4. /\ long' = [long EXCEPT ![w] = @ \cup A]
        /\ lost' = Lose("AGG_ERRORS", R)
        /\ UNCHANGED <<fresh, short, rotRx, out, round, egress, discarded>>
    BY Zenon DEF RunAddSnapshot, Work, pipelineVars
  <2>5. (s \in A \/ s \in R <=> Carries(Head(queue[w]), s)) /\ ~(s \in A /\ s \in R)
    <3> HIDE DEF list
    <3>1. \A i \in DOMAIN list : list[i] \in Sample
      BY <2>3
    <3>2. A \cup R = {list[i] : i \in DOMAIN list} /\ A \cap R = {}
      BY Zenon, <3>1, AdmittedSamples
    <3> QED
      BY Zenon, <2>3, <3>2
  <2> HIDE DEF A, R, list
  <2>6. \A v : InLong(s, v)' <=> InLong(s, v) \/ (v = w /\ s \in A)
    BY Zenon, <2>0, <2>4 DEF InLong
  <2>7. \A d : InLost(s, d)' <=> InLost(s, d) \/ (d = "AGG_ERRORS" /\ s \in R)
    BY Zenon, <2>0, <2>4, Counted, CounterNames
  <2>8. CASE ~Carries(Head(queue[w]), s)
    BY Zenon, <2>0, <2>1, <2>4, <2>5, <2>6, <2>7, <2>8, Unmoved, <1>StaysWhenTaken
  <2>9. CASE Carries(Head(queue[w]), s)
    <3>1. OnlyAt(s, "queue", w, 1) /\ \A v, i : ~InQueue(s, v, i)'
      BY Zenon, <2>0, <2>1, <2>9, <1>TakenAway
    <3>2. CASE s \in A
      <4>1. OnlyAt(s, "long", w, 0)'
        BY Zenon, <2>4, <2>5, <2>6, <2>7, <3>1, <3>2, Unmoved DEF OnlyAt, At, Alone
      <4> QED
        BY Zenon, <4>1 DEF Once
    <3>3. CASE s \in R
      <4>1. OnlyAt(s, "lost", "AGG_ERRORS", 0)'
        BY Zenon, <2>4, <2>5, <2>6, <2>7, <3>1, <3>3, Unmoved, CounterNames DEF OnlyAt, At, Alone
      <4> QED
        BY Zenon, <4>1 DEF Once
    <3> QED
      BY Zenon, <2>5, <2>9, <3>2, <3>3
  <2> QED
    BY Zenon, <2>8, <2>9
\* TakeSnapshot moves short to long, or counts a mismatch.
<1>TakeSnapshotOnce.
  ASSUME TypeOK, NEW w \in Worker, Work(w), RunTakeSnapshot(w), NEW s \in Sample, Once(s)
  PROVE  Once(s)'
  <2> USE <1>TakeSnapshotOnce
  <2> DEFINE A == Merge(long[w], short[w])
             R == short[w] \ A
  <2>0. /\ queue \in [Worker -> Seq(Task)] /\ lost \in [Counter -> SUBSET Sample]
        /\ short \in [Worker -> SUBSET Sample] /\ long \in [Worker -> SUBSET Sample]
    BY Zenon DEF TypeOK, RunnerTypeOK
  <2>1. TakeTask(w, "TakeSnapshot")
    BY Zenon DEF RunTakeSnapshot
  <2>2. ~Carries(Head(queue[w]), s)
    BY <2>0, <2>1, TakeTaskType DEF Carries
  <2>3. /\ short' = [short EXCEPT ![w] = {}]
        /\ long' = [long EXCEPT ![w] = @ \cup A]
        /\ lost' = Lose("AGG_ERRORS", R)
        /\ UNCHANGED <<fresh, rotRx, out, round, egress, discarded>>
    BY Zenon DEF RunTakeSnapshot, Work, pipelineVars
  <2>4. (s \in A \/ s \in R <=> s \in short[w]) /\ ~(s \in A /\ s \in R)
    BY Zenon DEF Merge
  <2> HIDE DEF A, R
  <2>5. \A v : InShort(s, v)' <=> InShort(s, v) /\ v # w
    BY Zenon, <2>0, <2>3 DEF InShort
  <2>6. \A v : InLong(s, v)' <=> InLong(s, v) \/ (v = w /\ s \in A)
    BY Zenon, <2>0, <2>3 DEF InLong
  <2>7. \A d : InLost(s, d)' <=> InLost(s, d) \/ (d = "AGG_ERRORS" /\ s \in R)
    BY Zenon, <2>0, <2>3, Counted, CounterNames
  <2>8. CASE s \notin short[w]
    <3>1. \A v : InShort(s, v)' <=> InShort(s, v)
      BY Zenon, <2>5, <2>8 DEF InShort
    <3>2. (\A v : InLong(s, v)' <=> InLong(s, v)) /\ (\A d : InLost(s, d)' <=> InLost(s, d))
      BY Zenon, <2>4, <2>6, <2>7, <2>8
    <3> QED
      BY Zenon, <2>0, <2>1, <2>2, <2>3, <3>1, <3>2, Unmoved, <1>StaysWhenTaken
  <2>9. CASE s \in short[w]
    <3>1. OnlyAt(s, "short", w, 0)
      BY Zenon, <2>9, OnlyHere DEF At, InShort
    <3>2. \A v, i : ~InQueue(s, v, i)'
      BY Zenon, <2>0, <2>1, <3>1, <1>NotQueued DEF OnlyAt, Alone
    <3>3. CASE s \in A
      <4>1. OnlyAt(s, "long", w, 0)'
        BY Zenon, <2>3, <2>4, <2>5, <2>6, <2>7, <3>1, <3>2, <3>3, Unmoved DEF OnlyAt, At, Alone
      <4> QED
        BY Zenon, <4>1 DEF Once
    <3>4. CASE s \in R
      <4>1. OnlyAt(s, "lost", "AGG_ERRORS", 0)'
        BY Zenon, <2>3, <2>4, <2>5, <2>6, <2>7, <3>1, <3>2, <3>4, Unmoved, CounterNames DEF OnlyAt, At, Alone
      <4> QED
        BY Zenon, <4>1 DEF Once
    <3> QED
      BY Zenon, <2>4, <2>9, <3>3, <3>4
  <2> QED
    BY Zenon, <2>8, <2>9
\* Rotate gives long to the carbon thread, or counts it as dropped.
<1>RotateOnce.
  ASSUME TypeOK, RoundInv, NEW w \in Worker, Work(w), RunRotate(w), NEW s \in Sample, Once(s)
  PROVE  Once(s)'
  <2> USE <1>RotateOnce
  <2>0. /\ queue \in [Worker -> Seq(Task)] /\ lost \in [Counter -> SUBSET Sample]
        /\ long \in [Worker -> SUBSET Sample] /\ rotRx \in [Round -> [Worker -> Oneshot]]
    BY Zenon DEF TypeOK, RunnerTypeOK
  <2>1. TakeTask(w, "Rotate")
    BY Zenon DEF RunRotate
  <2>2. ~Carries(Head(queue[w]), s) /\ Head(queue[w]).round \in Round
    BY <2>0, <2>1, TakeTaskType, TaskFields DEF Carries
  <2> PICK r \in Round : r = Head(queue[w]).round
    BY Zenon, <2>2
  <2> DEFINE open == rotRx[r][w].st = "open"
             D == IF open THEN {} ELSE long[w]
  <2>3. /\ rotRx' = [rotRx EXCEPT ![r][w] = Reply(@, long[w])]
        /\ long' = [long EXCEPT ![w] = {}]
        /\ lost' = Lose("DROPS", D)
        /\ UNCHANGED <<fresh, short, out, round, egress, discarded>>
    BY Zenon DEF RunRotate, Work, pipelineVars
  <2>4. s \in D <=> ~open /\ s \in long[w]
    BY Zenon
  <2>5. open => rotRx[r][w].val = {}
    BY Zenon DEF RoundInv
  <2> HIDE DEF D
  <2>6. \A q, v : InRotated(s, q, v)' <=>
            InRotated(s, q, v) \/ (q = r /\ v = w /\ open /\ s \in long[w])
    <3>1. ASSUME NEW q \in Round, NEW v \in Worker, ~(q = r /\ v = w)
          PROVE  rotRx'[q][v] = rotRx[q][v]
      BY Zenon, <2>0, <2>2, <2>3, <3>1
    <3>2. rotRx'[r][w] = Reply(rotRx[r][w], long[w])
      BY ZenonT(30), <2>0, <2>2, <2>3
    <3>3. s \in rotRx'[r][w].val <=> s \in rotRx[r][w].val \/ (open /\ s \in long[w])
      <4>1. CASE open
        <5>0. ASSUME NEW rx, NEW v, rx.st = "open" PROVE Reply(rx, v).val = v
          BY Zenon, <5>0 DEF Reply, Full
        <5>1. rotRx'[r][w].val = long[w]
          BY Zenon, <3>2, <4>1, <5>0
        <5> QED
          BY Zenon, <2>5, <4>1, <5>1
      <4>2. CASE ~open
        BY Zenon, <3>2, <4>2 DEF Reply
      <4> QED
        BY Zenon, <4>1, <4>2
    <3> QED
      BY Zenon, <2>2, <3>1, <3>3 DEF InRotated
  <2> HIDE DEF open
  <2>7. \A v : InLong(s, v)' <=> InLong(s, v) /\ v # w
    BY Zenon, <2>0, <2>3 DEF InLong
  <2>8. \A d : InLost(s, d)' <=> InLost(s, d) \/ (d = "DROPS" /\ s \in D)
    BY Zenon, <2>0, <2>3, Counted, CounterNames
  <2>9. CASE s \notin long[w]
    <3>1. \A v : InLong(s, v)' <=> InLong(s, v)
      BY Zenon, <2>7, <2>9 DEF InLong
    <3>2. (\A q, v : InRotated(s, q, v)' <=> InRotated(s, q, v)) /\ (\A d : InLost(s, d)' <=> InLost(s, d))
      BY Zenon, <2>4, <2>6, <2>8, <2>9
    <3> QED
      BY Zenon, <2>0, <2>1, <2>2, <2>3, <3>1, <3>2, Unmoved, <1>StaysWhenTaken
  <2>10. CASE s \in long[w]
    <3>1. OnlyAt(s, "long", w, 0)
      BY Zenon, <2>10, OnlyHere DEF At, InLong
    <3>2. \A v, i : ~InQueue(s, v, i)'
      BY Zenon, <2>0, <2>1, <3>1, <1>NotQueued DEF OnlyAt, Alone
    <3>3. CASE open
      <4>1. OnlyAt(s, "rotated", r, w)'
        BY Zenon, <2>3, <2>4, <2>6, <2>7, <2>8, <2>10, <3>1, <3>2, <3>3, Unmoved DEF OnlyAt, At, Alone
      <4> QED
        BY ZenonT(30), <4>1 DEF Once
    <3>4. CASE ~open
      <4>1. OnlyAt(s, "lost", "DROPS", 0)'
        BY ZenonT(30), <2>3, <2>4, <2>6, <2>7, <2>8, <2>10, <3>1, <3>2, <3>4, Unmoved, CounterNames DEF OnlyAt, At, Alone
      <4> QED
        BY ZenonT(30), <4>1 DEF Once
    <3> QED
      BY Zenon, <3>3, <3>4
  <2> QED
    BY Zenon, <2>9, <2>10
\* aggregate_task on a worker hands the metric to the carbon thread.
<1>AggregateOnce.
  ASSUME TypeOK, NEW w \in Worker, Work(w), RunAggregate(w), NEW s \in Sample, Once(s)
  PROVE  Once(s)'
  <2> USE <1>AggregateOnce
  <2> DEFINE metric == Head(queue[w]).metric
  <2>0. queue \in [Worker -> Seq(Task)] /\ out \in [Round -> SUBSET Sample]
    BY Zenon DEF TypeOK, RunnerTypeOK
  <2>1. TakeTask(w, "Aggregate")
    BY Zenon DEF RunAggregate
  <2>2. Head(queue[w]).round \in Round /\ (Carries(Head(queue[w]), s) <=> s \in metric)
    BY <2>0, <2>1, TakeTaskType, TaskFields DEF Carries
  <2> PICK r \in Round : r = Head(queue[w]).round
    BY Zenon, <2>2
  <2>3. /\ out' = [out EXCEPT ![r] = @ \cup metric]
        /\ UNCHANGED <<fresh, short, long, rotRx, lost, round, egress, discarded>>
    BY Zenon DEF RunAggregate, Work, pipelineVars
  <2> HIDE DEF metric
  <2>4. \A q : InOut(s, q)' <=> InOut(s, q) \/ (q = r /\ s \in metric)
    BY Zenon, <2>0, <2>2, <2>3 DEF InOut
  <2>5. CASE s \notin metric
    BY Zenon, <2>0, <2>1, <2>2, <2>3, <2>4, <2>5, Unmoved, <1>StaysWhenTaken
  <2>6. CASE s \in metric
    <3>1. OnlyAt(s, "queue", w, 1) /\ \A v, i : ~InQueue(s, v, i)'
      BY ZenonT(30), <2>0, <2>1, <2>2, <2>6, <1>TakenAway
    <3>2. OnlyAt(s, "out", r, 0)'
      BY Zenon, <2>3, <2>4, <2>6, <3>1, Unmoved DEF OnlyAt, At, Alone
    <3> QED
      BY Zenon, <3>2 DEF Once
  <2> QED
    BY Zenon, <2>5, <2>6
\* A sample whose line ends once in the text is yielded by the parser or is on
\* a broken line, and not both.
<1>ParsedOrBroken.
  ASSUME NEW buf \in Seq(Piece), NEW s \in Sample,
         \A i, j \in DOMAIN buf : buf[i] = EndOf(s) /\ buf[j] = EndOf(s) => i = j
  PROVE  LET P == {Parsed(buf)[i] : i \in DOMAIN Parsed(buf)}
         IN  /\ s \in P \/ s \in Broken(buf) <=> \E i \in DOMAIN buf : buf[i] = EndOf(s)
             /\ ~(s \in P /\ s \in Broken(buf))
  <2> USE <1>ParsedOrBroken
  <2>1. DOMAIN buf = 1 .. Len(buf)
    OBVIOUS
  <2>2. \A i \in 1 .. Len(buf) : EndsLine(buf, i) /\ buf[i].of = s <=> buf[i] = EndOf(s)
    BY SMTT(30), <2>1, PieceEnds DEF EndsLine
  <2>3. \A i \in 1 .. Len(buf) : Parses(buf, i) => EndsLine(buf, i)
    BY Zenon DEF Parses, EndsLine
  <2>4. s \in {Parsed(buf)[i] : i \in DOMAIN Parsed(buf)}
          <=> \E i \in 1 .. Len(buf) : Parses(buf, i) /\ buf[i].of = s
    BY Zenon DEF Parsed
  <2>5. s \in Broken(buf) <=> \E i \in 1 .. Len(buf) : EndsLine(buf, i) /\ ~Parses(buf, i) /\ buf[i].of = s
    BY Zenon DEF Broken
  <2> QED
    BY Zenon, <2>1, <2>2, <2>3, <2>4, <2>5
\* The samples whose lines end in a Parse task end in short or are counted;
\* the text kept from before ends no line.
<1>ParseOnce.
  ASSUME TypeOK, TextInv, NEW w \in Worker, Work(w), RunParse(w), NEW s \in Sample, Once(s)
  PROVE  Once(s)'
  <2> USE <1>ParseOnce
  <2> DEFINE t == Head(queue[w])
             kept == Kept(w, t.addr)
             buf == kept \o t.data
             list == Parsed(buf)
             A == Admitted(short[w], list)
             R == Refused(short[w], list)
             B == Broken(buf)
  <2>0. /\ queue \in [Worker -> Seq(Task)] /\ lost \in [Counter -> SUBSET Sample]
        /\ short \in [Worker -> SUBSET Sample]
    BY Zenon DEF TypeOK, RunnerTypeOK
  <2>1. TakeTask(w, "Parse")
    BY Zenon DEF RunParse
  <2>2. t \in Task /\ t.kind = "Parse"
    BY Zenon, <2>0, <2>1, TakeTaskType
  <2>3. t.addr \in Addr /\ t.data \in Seq(Piece) /\ kept \in Seq(Piece)
    BY Zenon, <2>2, TaskFields, KeptType DEF TypeOK
  <2>4. Carries(t, s) <=> \E i \in DOMAIN t.data : t.data[i] = EndOf(s)
    BY Zenon, <2>2 DEF Carries
  <2>5. /\ \A i \in DOMAIN kept : kept[i].part = "head"
        /\ \A i, j \in DOMAIN t.data : t.data[i] = t.data[j] => i = j
    <3>1. 1 \in Queued(w, "Parse") /\ queue[w][1] = t
      BY <2>0, <2>1, <2>2 DEF TakeTask, Queued
    <3> QED
      BY Zenon, <2>3, <3>1 DEF TextInv
  <2>6. /\ short' = [short EXCEPT ![w] = @ \cup A]
        /\ lost' = [lost EXCEPT !["PARSE_ERRORS"] = @ \cup B, !["AGG_ERRORS"] = @ \cup R]
        /\ UNCHANGED <<fresh, long, rotRx, out, round, egress, discarded>>
    BY Zenon DEF RunParse, Work, pipelineVars
  <2> HIDE DEF kept
  <2>7. /\ buf \in Seq(Piece)
        /\ \A i, j \in DOMAIN buf : buf[i] = EndOf(s) /\ buf[j] = EndOf(s) => i = j
        /\ (\E i \in DOMAIN buf : buf[i] = EndOf(s)) <=> Carries(t, s)
    <3> DEFINE data == t.data
               n == Len(kept)
    <3>1. /\ buf = kept \o data /\ n \in Nat /\ Len(data) \in Nat
          /\ DOMAIN data = 1 .. Len(data) /\ DOMAIN kept = 1 .. n
      BY <2>3
    <3>2. /\ DOMAIN buf = 1 .. n + Len(data) /\ buf \in Seq(Piece)
          /\ \A i \in 1 .. n : buf[i] = kept[i]
          /\ \A i \in n + 1 .. n + Len(data) : buf[i] = data[i - n]
      BY <2>3
    <3>3. ASSUME NEW i \in DOMAIN buf, buf[i] = EndOf(s) PROVE i - n \in 1 .. Len(data) /\ data[i - n] = EndOf(s)
      <4> HIDE DEF buf, data, n
      <4>1. EndOf(s).part # "head"
        BY Zenon DEF EndOf
      <4>2. i \notin 1 .. n
        BY <2>5, <3>1, <3>2, <3>3, <4>1
      <4> QED
        BY <3>1, <3>2, <3>3, <4>2
    <3>4. ASSUME NEW j \in DOMAIN data, data[j] = EndOf(s) PROVE j + n \in DOMAIN buf /\ buf[j + n] = EndOf(s)
      <4> HIDE DEF buf, data, n
      <4>1. j + n \in n + 1 .. n + Len(data) /\ (j + n) - n = j
        BY <3>1
      <4> QED
        BY <3>1, <3>2, <3>4, <4>1
    <3>5. ASSUME NEW i \in DOMAIN buf, NEW j \in DOMAIN buf, buf[i] = EndOf(s), buf[j] = EndOf(s) PROVE i = j
      <4>1. i - n = j - n
        <5>1. \A a, b \in DOMAIN data : data[a] = data[b] => a = b
          BY Zenon, <2>5
        <5> HIDE DEF buf, data, n
        <5> QED
          BY Zenon, <3>1, <3>3, <3>5, <5>1
      <4> HIDE DEF buf, data, n
      <4> QED
        BY <3>1, <3>2, <4>1
    <3> QED
      BY Zenon, <2>4, <3>1, <3>2, <3>3, <3>4, <3>5
  <2> HIDE DEF t, buf
  <2>8. /\ s \in A \/ s \in R \/ s \in B <=> Carries(t, s)
        /\ ~(s \in A /\ s \in R) /\ ~((s \in A \/ s \in R) /\ s \in B)
    <3>1. A \cup R = {list[i] : i \in DOMAIN list} /\ A \cap R = {}
      BY Zenon, <2>7, ParsedSamples, AdmittedSamples
    <3>2. /\ s \in {list[i] : i \in DOMAIN list} \/ s \in B <=> Carries(t, s)
          /\ ~(s \in {list[i] : i \in DOMAIN list} /\ s \in B)
      BY Zenon, <2>7, <1>ParsedOrBroken
    <3> HIDE DEF A, R, B, list
    <3> QED
      BY ZenonT(30), <3>1, <3>2
  <2> HIDE DEF A, R, B, list
  <2>9. \A v : InShort(s, v)' <=> InShort(s, v) \/ (v = w /\ s \in A)
    BY Zenon, <2>0, <2>6 DEF InShort
  <2>10. \A d : InLost(s, d)' <=> \/ InLost(s, d)
                                  \/ d = "PARSE_ERRORS" /\ s \in B
                                  \/ d = "AGG_ERRORS" /\ s \in R
    BY Zenon, <2>0, <2>6, CounterNames DEF InLost
  <2>11. CASE ~Carries(t, s)
    BY Zenon, <2>0, <2>1, <2>6, <2>8, <2>9, <2>10, <2>11, Unmoved, <1>StaysWhenTaken DEF t
  <2>12. CASE Carries(t, s)
    <3>1. OnlyAt(s, "queue", w, 1) /\ \A v, i : ~InQueue(s, v, i)'
      BY Zenon, <2>0, <2>1, <2>12, <1>TakenAway DEF t
    <3>2. CASE s \in A
      <4>1. OnlyAt(s, "short", w, 0)'
        BY Zenon, <2>6, <2>8, <2>9, <2>10, <3>1, <3>2, Unmoved DEF OnlyAt, At, Alone
      <4> QED
        BY Zenon, <4>1 DEF Once
    <3>3. CASE s \in R
      <4>1. OnlyAt(s, "lost", "AGG_ERRORS", 0)'
        BY Zenon, <2>6, <2>8, <2>9, <2>10, <3>1, <3>3, Unmoved DEF OnlyAt, At, Alone
      <4> QED
        BY Zenon, <4>1 DEF Once
    <3>4. CASE s \in B
      <4>1. OnlyAt(s, "lost", "PARSE_ERRORS", 0)'
        BY Zenon, <2>6, <2>8, <2>9, <2>10, <3>1, <3>4, Unmoved DEF OnlyAt, At, Alone
      <4> QED
        BY Zenon, <4>1 DEF Once
    <3> QED
      BY Zenon, <2>8, <2>12, <3>2, <3>3, <3>4
  <2> QED
    BY Zenon, <2>11, <2>12
\* A panic takes the caches and the queue of the worker, and nothing else: an
\* unanswered reply channel is empty.
<1>DieOnce.
  ASSUME TypeOK, RoundInv, NEW w \in Worker, Panic(w), NEW s \in Sample, Once(s)
  PROVE  Once(s)'
  <2> USE <1>DieOnce
  <2> DEFINE gone(r) == \E i \in Queued(w, "Rotate") : queue[w][i].round = r
             L == short[w] \cup long[w] \cup
                      {t \in Sample : \E i \in DOMAIN queue[w] : Carries(queue[w][i], t)}
  <2>0. /\ queue \in [Worker -> Seq(Task)] /\ lost \in [Counter -> SUBSET Sample]
        /\ short \in [Worker -> SUBSET Sample] /\ long \in [Worker -> SUBSET Sample]
        /\ rotRx \in [Round -> [Worker -> Oneshot]]
    BY Zenon DEF TypeOK, RunnerTypeOK
  <2>1. /\ queue' = [queue EXCEPT ![w] = <<>>]
        /\ short' = [short EXCEPT ![w] = {}]
        /\ long' = [long EXCEPT ![w] = {}]
        /\ rotRx' = [r \in Round |-> [rotRx[r] EXCEPT ![w] = IF gone(r) THEN Cancel(@) ELSE @]]
        /\ lost' = Lose("uncounted", L)
        /\ UNCHANGED <<fresh, out, round, egress, discarded>>
    BY Zenon DEF Panic, Die, pipelineVars
  <2>2. s \in L <=> InShort(s, w) \/ InLong(s, w) \/ \E i : InQueue(s, w, i)
    BY Zenon DEF InShort, InLong, InQueue
  <2> HIDE DEF L, gone
  <2>3. \A v, i : InQueue(s, v, i)' <=> InQueue(s, v, i) /\ v # w
    BY <2>0, <2>1 DEF InQueue
  <2>4. \A v : /\ InShort(s, v)' <=> InShort(s, v) /\ v # w
               /\ InLong(s, v)' <=> InLong(s, v) /\ v # w
    BY Zenon, <2>0, <2>1 DEF InShort, InLong
  <2>5. \A r, v : InRotated(s, r, v)' <=> InRotated(s, r, v)
    <3>1. ASSUME NEW r \in Round, NEW v \in Worker PROVE rotRx'[r][v].val = rotRx[r][v].val
      <4>1. rotRx'[r][v] = IF v = w /\ gone(r) THEN Cancel(rotRx[r][v]) ELSE rotRx[r][v]
        BY Zenon, <2>0, <2>1
      <4>2. rotRx[r][v].st = "open" => rotRx[r][v].val = {}
        BY Zenon DEF RoundInv
      <4>3. Cancel(rotRx[r][v]).val = rotRx[r][v].val
        BY Zenon, <4>2 DEF Cancel, Cancelled
      <4> QED
        BY Zenon, <4>1, <4>3
    <3> QED
      BY Zenon, <3>1 DEF InRotated
  <2>6. \A d : InLost(s, d)' <=> InLost(s, d) \/ (d = "uncounted" /\ s \in L)
    BY Zenon, <2>0, <2>1, Counted, CounterNames
  <2>7. CASE s \notin L
    <3>1. /\ \A v, i : InQueue(s, v, i)' <=> InQueue(s, v, i)
          /\ \A v : InShort(s, v)' <=> InShort(s, v)
          /\ \A v : InLong(s, v)' <=> InLong(s, v)
          /\ \A d : InLost(s, d)' <=> InLost(s, d)
      BY Zenon, <2>2, <2>3, <2>4, <2>6, <2>7
    <3> QED
      BY Zenon, <2>1, <2>5, <3>1, Unmoved, <1>Stays
  <2>8. CASE s \in L
    <3>1. PICK k, y : k \in {"queue", "short", "long"} /\ OnlyAt(s, k, w, y)
      <4>1. PICK k, y : k \in {"queue", "short", "long"} /\ At(s, k, w, y)
        <5>1. CASE InShort(s, w)
          <6>1. At(s, "short", w, 0)
            BY Zenon, <5>1 DEF At
          <6> QED
            BY <6>1
        <5>2. CASE InLong(s, w)
          <6>1. At(s, "long", w, 0)
            BY Zenon, <5>2 DEF At
          <6> QED
            BY <6>1
        <5>3. ASSUME NEW i, InQueue(s, w, i) PROVE \E k, y : k \in {"queue", "short", "long"} /\ At(s, k, w, y)
          <6>1. At(s, "queue", w, i)
            BY Zenon, <5>3 DEF At
          <6> QED
            BY <6>1
        <5> QED
          BY Zenon, <2>2, <2>8, <5>1, <5>2, <5>3
      <4> QED
        BY <4>1, OnlyHere
    <3>2. OnlyAt(s, "lost", "uncounted", 0)'
      <4>1. At(s, "lost", "uncounted", 0)'
        BY ZenonT(30), <2>6, <2>8 DEF At
      <4>2. Alone(s, "lost", "uncounted", 0)'
        <5>1. /\ \A v, i : (InQueue(s, v, i) => v = w) /\ ~InRotated(s, v, i)
              /\ \A v : (InShort(s, v) => v = w) /\ (InLong(s, v) => v = w)
              /\ \A q : ~InAcc(s, q) /\ ~InOut(s, q) /\ ~InLost(s, q)
              /\ ~InFresh(s) /\ ~InEgress(s) /\ ~InDiscarded(s)
          BY Zenon, <3>1 DEF OnlyAt, Alone
        <5>2. /\ \A v, i : ~InQueue(s, v, i)' /\ ~InRotated(s, v, i)'
              /\ \A v : ~InShort(s, v)' /\ ~InLong(s, v)'
              /\ \A d : InLost(s, d)' => d = "uncounted"
          BY Zenon, <2>3, <2>4, <2>5, <2>6, <5>1
        <5>3. /\ \A q : ~InAcc(s, q)' /\ ~InOut(s, q)'
              /\ ~InFresh(s)' /\ ~InEgress(s)' /\ ~InDiscarded(s)'
          BY Zenon, <2>1, <5>1, Unmoved
        <5> QED
          BY Zenon, <5>2, <5>3 DEF Alone
      <4> QED
        BY Zenon, <4>1, <4>2 DEF OnlyAt
    <3> QED
      BY Zenon, <3>2 DEF Once
  <2> QED
    BY Zenon, <2>7, <2>8

(* Arrivals. *)
\* A sample leaves `fresh' for the end of a queue.
<1>Arrives.
  ASSUME queue \in [Worker -> Seq(Task)], NEW w \in Worker, NEW t \in Task, NEW s, Once(s),
         queue' = Enqueue(w, t),
         Carries(t, s) => InFresh(s),
         InFresh(s)' <=> InFresh(s) /\ ~Carries(t, s),
         UNCHANGED <<short, long, rotRx, out, lost, round, egress, discarded>>
  PROVE  Once(s)'
  <2> USE <1>Arrives
  <2>1. PICK n : n = Len(queue[w]) + 1
    BY Zenon
  <2>2. \A v, i : InQueue(s, v, i)' <=> InQueue(s, v, i) \/ (v = w /\ i = n /\ Carries(t, s))
    BY Zenon, <2>1, Appended
  <2>3. CASE ~Carries(t, s)
    BY Zenon, <2>2, <2>3, Unmoved, <1>Stays
  <2>4. CASE Carries(t, s)
    <3>1. OnlyAt(s, "fresh", 0, 0)
      BY ZenonT(30), <2>4, OnlyHere DEF At
    <3>2. At(s, "queue", w, n)'
      BY Zenon, <2>2, <2>4 DEF At
    <3>3. Alone(s, "queue", w, n)'
      <4>1. /\ \A v : ~InShort(s, v) /\ ~InLong(s, v)
            /\ \A v, i : ~InQueue(s, v, i) /\ ~InRotated(s, v, i)
            /\ \A q : ~InAcc(s, q) /\ ~InOut(s, q) /\ ~InLost(s, q)
            /\ ~InEgress(s) /\ ~InDiscarded(s)
        BY Zenon, <3>1 DEF OnlyAt, Alone
      <4>2. /\ \A v : ~InShort(s, v)' /\ ~InLong(s, v)'
            /\ \A v, i : ~InRotated(s, v, i)'
            /\ \A q : ~InAcc(s, q)' /\ ~InOut(s, q)' /\ ~InLost(s, q)'
            /\ ~InEgress(s)' /\ ~InDiscarded(s)'
        BY Zenon, <4>1, Unmoved
      <4>3. ~InFresh(s)' /\ \A v, i : InQueue(s, v, i)' => v = w /\ i = n
        BY <2>2, <2>4, <4>1
      <4> QED
        BY Zenon, <4>2, <4>3 DEF Alone
    <3> QED
      BY Zenon, <3>2, <3>3 DEF OnlyAt, Once
  <2> QED
    BY Zenon, <2>3, <2>4
\* A sample leaves `fresh' and is counted.
<1>ArrivesInVain.
  ASSUME lost \in [Counter -> SUBSET Sample], NEW c \in Counter, NEW S, NEW s, Once(s),
         lost' = Lose(c, S),
         s \in S => InFresh(s),
         InFresh(s)' <=> InFresh(s) /\ s \notin S,
         UNCHANGED <<queue, short, long, rotRx, out, round, egress, discarded>>
  PROVE  Once(s)'
  <2> USE <1>ArrivesInVain
  <2>1. \A d : InLost(s, d)' <=> InLost(s, d) \/ (d = c /\ s \in S)
    BY Zenon, Counted
  <2>2. CASE s \notin S
    BY Zenon, <2>1, <2>2, Unmoved, <1>Stays
  <2>3. CASE s \in S
    <3>1. OnlyAt(s, "fresh", 0, 0)
      BY ZenonT(30), <2>3, OnlyHere DEF At
    <3>2. OnlyAt(s, "lost", c, 0)'
      BY Zenon, <2>1, <2>3, <3>1, Unmoved DEF OnlyAt, At, Alone
    <3> QED
      BY Zenon, <3>2 DEF Once
  <2> QED
    BY Zenon, <2>2, <2>3
<1>ReceiveTextOnce.
  ASSUME TypeOK, ReceiveText, NEW s \in Sample, Once(s)
  PROVE  Once(s)'
  <2> USE <1>ReceiveTextOnce
  <2>0. queue \in [Worker -> Seq(Task)] /\ lost \in [Counter -> SUBSET Sample]
    BY Zenon DEF TypeOK, RunnerTypeOK
  <2>1. PICK p \in Route, d \in Data : SendParse(p[2], p[1], d) /\ UNCHANGED pipelineVars
    BY Zenon DEF ReceiveText
  <2> DEFINE w == p[2]
             t == [kind |-> "Parse", addr |-> p[1], data |-> d]
  <2>2. w \in Worker /\ t \in Task
    BY Zenon, PipelineAssumption DEF Task
  <2>3. /\ Carries(t, s) <=> \E i \in DOMAIN d : d[i] = EndOf(s)
        /\ s \in Ends(d) <=> Carries(t, s)
    BY Zenon DEF Carries, Ends
  <2>4. /\ Carries(t, s) => InFresh(s)
        /\ InFresh(s)' <=> InFresh(s) /\ ~Carries(t, s)
    BY Zenon, <2>1, <2>3 DEF SendParse, InFresh
  <2>5. UNCHANGED <<short, long, rotRx, out, round, egress, discarded>>
    BY Zenon, <2>1 DEF SendParse, pipelineVars
  <2>6. \/ lost' = Lose("DROPS", Ends(d)) /\ UNCHANGED queue
        \/ queue' = Enqueue(w, t) /\ UNCHANGED lost
    BY Zenon, <2>1 DEF SendParse
  <2> HIDE DEF t, w
  <2>7. CASE lost' = Lose("DROPS", Ends(d)) /\ UNCHANGED queue
    BY <2>0, <2>3, <2>4, <2>5, <2>7, <1>ArrivesInVain, CounterNames
  <2>8. CASE queue' = Enqueue(w, t) /\ UNCHANGED lost
    BY <2>0, <2>2, <2>4, <2>5, <2>8, <1>Arrives
  <2> QED
    BY Zenon, <2>6, <2>7, <2>8
<1>ReceiveMetricsOnce.
  ASSUME TypeOK, ReceiveMetrics, NEW s \in Sample, Once(s)
  PROVE  Once(s)'
  <2> USE <1>ReceiveMetricsOnce
  <2>0. queue \in [Worker -> Seq(Task)] /\ lost \in [Counter -> SUBSET Sample]
    BY Zenon DEF TypeOK, RunnerTypeOK
  <2>1. PICK w \in Worker, l \in List, k \in {"AddMetric", "AddMetrics", "AddSnapshot"} :
            SendMetrics(w, k, l) /\ UNCHANGED pipelineVars
    BY Zenon DEF ReceiveMetrics
  <2> DEFINE t == [kind |-> k, list |-> l]
             S == {l[i] : i \in DOMAIN l}
  <2>2. t \in Task /\ l \in Seq(Sample)
    BY Zenon, PipelineAssumption DEF Task
  <2>3. /\ Carries(t, s) <=> \E i \in DOMAIN l : l[i] = s
        /\ s \in S <=> Carries(t, s)
    BY Zenon DEF Carries
  <2>4. /\ Carries(t, s) => InFresh(s)
        /\ InFresh(s)' <=> InFresh(s) /\ ~Carries(t, s)
    <3>1. \A i \in DOMAIN l : EndOf(l[i]) = EndOf(s) <=> l[i] = s
      BY Zenon DEF EndOf
    <3> HIDE DEF t
    <3> QED
      BY Zenon, <2>1, <2>3, <3>1 DEF SendMetrics, InFresh
  <2>5. UNCHANGED <<short, long, rotRx, out, round, egress, discarded>>
    BY Zenon, <2>1 DEF SendMetrics, pipelineVars
  <2>6. \/ lost' = Lose("uncounted", S) /\ UNCHANGED queue
        \/ queue' = Enqueue(w, t) /\ UNCHANGED lost
    BY Zenon, <2>1 DEF SendMetrics
  <2> HIDE DEF t, S
  <2>7. CASE lost' = Lose("uncounted", S) /\ UNCHANGED queue
    BY <2>0, <2>3, <2>4, <2>5, <2>7, <1>ArrivesInVain, CounterNames
  <2>8. CASE queue' = Enqueue(w, t) /\ UNCHANGED lost
    BY Zenon, <2>0, <2>2, <2>4, <2>5, <2>8, <1>Arrives
  <2> QED
    BY Zenon, <2>6, <2>7, <2>8

(* Carbon threads. *)
\* A folded cache is accumulated, counted, or discarded by a node that is not
\* the leader.
<1>FoldOnce.
  ASSUME TypeOK, NEW r \in Round, NEW w \in Worker, Fold(r, w), NEW s \in Sample, Once(s)
  PROVE  Once(s)'
  <2> USE <1>FoldOnce
  <2> DEFINE rotated == rotRx[r][w].val
             A == Merge(round[r].acc, rotated)
             R == rotated \ A
  <2>0. /\ lost \in [Counter -> SUBSET Sample] /\ rotRx \in [Round -> [Worker -> Oneshot]]
        /\ round \in [Round -> RoundState]
    BY Zenon DEF TypeOK, RunnerTypeOK
  <2>1. /\ rotRx' = [rotRx EXCEPT ![r][w] = Closed]
        /\ UNCHANGED <<fresh, queue, short, long, out, egress>>
    BY Zenon DEF Fold
  <2>2. \/ /\ round' = [round EXCEPT ![r].toFold = @ \ {w}, ![r].acc = @ \cup A]
           /\ lost' = Lose("AGG_ERRORS", R)
           /\ UNCHANGED discarded
        \/ /\ round' = [round EXCEPT ![r].toFold = @ \ {w}]
           /\ discarded' = discarded \cup rotated
           /\ UNCHANGED lost
    BY Zenon DEF Fold
  <2>3. (s \in A \/ s \in R <=> s \in rotated) /\ ~(s \in A /\ s \in R)
    BY Zenon DEF Merge
  <2>4. InRotated(s, r, w) <=> s \in rotated
    BY Zenon DEF InRotated
  <2> HIDE DEF A, R, rotated
  <2>5. \A q, v : InRotated(s, q, v)' <=> InRotated(s, q, v) /\ ~(q = r /\ v = w)
    <3>1. ASSUME NEW q \in Round, NEW v \in Worker
          PROVE  rotRx'[q][v] = IF q = r /\ v = w THEN Closed ELSE rotRx[q][v]
      BY Zenon, <2>0, <2>1
    <3>2. Closed.val = {}
      BY Zenon DEF Closed
    <3> QED
      BY Zenon, <3>1, <3>2 DEF InRotated
  <2>6. CASE s \notin rotated
    <3>1. \A q, v : InRotated(s, q, v)' <=> InRotated(s, q, v)
      BY Zenon, <2>4, <2>5, <2>6
    <3>2. CASE /\ round' = [round EXCEPT ![r].toFold = @ \ {w}, ![r].acc = @ \cup A]
               /\ lost' = Lose("AGG_ERRORS", R)
               /\ UNCHANGED discarded
      <4>1. \A q : InAcc(s, q)' <=> InAcc(s, q)
        BY Zenon, <2>0, <2>3, <2>6, <3>2 DEF InAcc, RoundState
      <4>2. \A d : InLost(s, d)' <=> InLost(s, d)
        BY Zenon, <2>0, <2>3, <2>6, <3>2, Counted, CounterNames
      <4> QED
        BY Zenon, <2>1, <3>1, <3>2, <4>1, <4>2, Unmoved, <1>Stays
    <3>3. CASE /\ round' = [round EXCEPT ![r].toFold = @ \ {w}]
               /\ discarded' = discarded \cup rotated
               /\ UNCHANGED lost
      <4>1. \A q : InAcc(s, q)' <=> InAcc(s, q)
        BY Zenon, <2>0, <3>3 DEF InAcc, RoundState
      <4>2. InDiscarded(s)' <=> InDiscarded(s)
        BY Zenon, <2>6, <3>3 DEF InDiscarded
      <4> QED
        BY Zenon, <2>1, <3>1, <3>3, <4>1, <4>2, Unmoved, <1>Stays
    <3> QED
      BY Zenon, <2>2, <3>2, <3>3
  <2>7. CASE s \in rotated
    <3>1. OnlyAt(s, "rotated", r, w)
      BY Zenon, <2>4, <2>7, OnlyHere DEF At
    <3>2. CASE /\ round' = [round EXCEPT ![r].toFold = @ \ {w}, ![r].acc = @ \cup A]
               /\ lost' = Lose("AGG_ERRORS", R)
               /\ UNCHANGED discarded
      <4>1. \A q : InAcc(s, q)' <=> InAcc(s, q) \/ (q = r /\ s \in A)
        BY Zenon, <2>0, <3>2 DEF InAcc, RoundState
      <4>2. \A d : InLost(s, d)' <=> InLost(s, d) \/ (d = "AGG_ERRORS" /\ s \in R)
        BY Zenon, <2>0, <3>2, Counted, CounterNames
      <4>3. CASE s \in A
        <5>1. OnlyAt(s, "acc", r, 0)'
          <6>1. At(s, "acc", r, 0)'
            BY Zenon, <4>1, <4>3 DEF At
          <6>2. Alone(s, "acc", r, 0)'
            BY ZenonT(30), <2>1, <2>3, <2>5, <3>1, <3>2, <4>1, <4>2, <4>3, Unmoved DEF OnlyAt, Alone
          <6> QED
            BY Zenon, <6>1, <6>2 DEF OnlyAt
        <5> QED
          BY Zenon, <5>1 DEF Once
      <4>4. CASE s \in R
        <5>1. OnlyAt(s, "lost", "AGG_ERRORS", 0)'
          BY Zenon, <2>1, <2>3, <2>5, <3>1, <3>2, <4>1, <4>2, <4>4, Unmoved DEF OnlyAt, At, Alone
        <5> QED
          BY Zenon, <5>1 DEF Once
      <4> QED
        BY Zenon, <2>3, <2>7, <4>3, <4>4
    <3>3. CASE /\ round' = [round EXCEPT ![r].toFold = @ \ {w}]
               /\ discarded' = discarded \cup rotated
               /\ UNCHANGED lost
      <4>1. \A q : InAcc(s, q)' <=> InAcc(s, q)
        BY Zenon, <2>0, <3>3 DEF InAcc, RoundState
      <4>2. InDiscarded(s)'
        BY Zenon, <2>7, <3>3 DEF InDiscarded
      <4>3. OnlyAt(s, "discarded", 0, 0)'
        BY Zenon, <2>1, <2>5, <3>1, <3>3, <4>1, <4>2, Unmoved DEF OnlyAt, At, Alone
      <4> QED
        BY Zenon, <4>3 DEF Once
    <3> QED
      BY Zenon, <2>2, <3>2, <3>3
  <2> QED
    BY Zenon, <2>6, <2>7
\* A round that is given up loses what it holds: at the leader uncounted, at
\* another node it is discarded like all of the rotation.
<1>AbortOnce.
  ASSUME TypeOK, NEW r \in Round, AbortRound(r), NEW s \in Sample, Once(s)
  PROVE  Once(s)'
  <2> USE <1>AbortOnce
  <2> DEFINE held == round[r].acc \cup UNION {rotRx[r][w].val : w \in Worker}
  <2>0. /\ lost \in [Counter -> SUBSET Sample] /\ rotRx \in [Round -> [Worker -> Oneshot]]
        /\ round \in [Round -> RoundState]
    BY Zenon DEF TypeOK, RunnerTypeOK
  <2>1. /\ rotRx' = [rotRx EXCEPT ![r] = [w \in Worker |-> Closed]]
        /\ round' = [round EXCEPT ![r] = FreeRound]
        /\ UNCHANGED <<fresh, queue, short, long, out, egress>>
    BY Zenon DEF AbortRound
  <2>2. \/ lost' = Lose("uncounted", held) /\ UNCHANGED discarded
        \/ discarded' = discarded \cup held /\ UNCHANGED lost
    BY Zenon DEF AbortRound
  <2>3. s \in held <=> InAcc(s, r) \/ \E w : InRotated(s, r, w)
    BY Zenon DEF InAcc, InRotated
  <2> HIDE DEF held
  <2>4. \A q, v : InRotated(s, q, v)' <=> InRotated(s, q, v) /\ q # r
    <3>1. ASSUME NEW q \in Round, NEW v \in Worker
          PROVE  rotRx'[q][v] = IF q = r THEN Closed ELSE rotRx[q][v]
      BY Zenon, <2>0, <2>1
    <3>2. Closed.val = {}
      BY Zenon DEF Closed
    <3> QED
      BY Zenon, <3>1, <3>2 DEF InRotated
  <2>5. \A q : InAcc(s, q)' <=> InAcc(s, q) /\ q # r
    BY Zenon, <2>0, <2>1 DEF InAcc, FreeRound
  <2>6. CASE s \notin held
    <3>1. /\ \A q, v : InRotated(s, q, v)' <=> InRotated(s, q, v)
          /\ \A q : InAcc(s, q)' <=> InAcc(s, q)
      BY Zenon, <2>3, <2>4, <2>5, <2>6
    <3>2. /\ \A d : InLost(s, d)' <=> InLost(s, d)
          /\ InDiscarded(s)' <=> InDiscarded(s)
      <4>1. CASE lost' = Lose("uncounted", held) /\ UNCHANGED discarded
        BY Zenon, <2>0, <2>6, <4>1, Counted, CounterNames, Unmoved
      <4>2. CASE discarded' = discarded \cup held /\ UNCHANGED lost
        BY Zenon, <2>6, <4>2, Unmoved DEF InDiscarded
      <4> QED
        BY Zenon, <2>2, <4>1, <4>2
    <3> QED
      BY Zenon, <2>1, <3>1, <3>2, Unmoved, <1>Stays
  <2>7. CASE s \in held
    <3>1. PICK k, y : k \in {"acc", "rotated"} /\ OnlyAt(s, k, r, y)
      <4>1. PICK k, y : k \in {"acc", "rotated"} /\ At(s, k, r, y)
        <5>1. CASE InAcc(s, r)
          <6>1. At(s, "acc", r, 0)
            BY Zenon, <5>1 DEF At
          <6> QED
            BY <6>1
        <5>2. ASSUME NEW v, InRotated(s, r, v) PROVE \E k, y : k \in {"acc", "rotated"} /\ At(s, k, r, y)
          <6>1. At(s, "rotated", r, v)
            BY Zenon, <5>2 DEF At
          <6> QED
            BY <6>1
        <5> QED
          BY Zenon, <2>3, <2>7, <5>1, <5>2
      <4> QED
        BY <4>1, OnlyHere
    <3>2. /\ ~InFresh(s) /\ ~InEgress(s) /\ ~InDiscarded(s)
          /\ \A w, i : ~InQueue(s, w, i)
          /\ \A w : ~InShort(s, w) /\ ~InLong(s, w)
          /\ \A q, w : InRotated(s, q, w) => q = r
          /\ \A q : (InAcc(s, q) => q = r) /\ ~InOut(s, q)
          /\ \A c : ~InLost(s, c)
      BY Zenon, <3>1 DEF OnlyAt, Alone
    <3>3. CASE lost' = Lose("uncounted", held) /\ UNCHANGED discarded
      <4>1. \A d : InLost(s, d)' <=> InLost(s, d) \/ d = "uncounted"
        BY <2>0, <2>7, <3>3, Counted, CounterNames
      <4>2. At(s, "lost", "uncounted", 0)'
        BY Zenon, <4>1 DEF At
      <4>3. Alone(s, "lost", "uncounted", 0)'
        BY Zenon, <2>1, <2>4, <2>5, <3>2, <3>3, <4>1, Unmoved DEF Alone
      <4> QED
        BY Zenon, <4>2, <4>3 DEF OnlyAt, Once
    <3>4. CASE discarded' = discarded \cup held /\ UNCHANGED lost
      <4>1. InDiscarded(s)'
        BY Zenon, <2>7, <3>4 DEF InDiscarded
      <4>2. At(s, "discarded", 0, 0)'
        BY ZenonT(30), <4>1 DEF At
      <4>3. Alone(s, "discarded", 0, 0)'
        BY Zenon, <2>1, <2>4, <2>5, <3>2, <3>4, Unmoved DEF Alone
      <4> QED
        BY Zenon, <4>2, <4>3 DEF OnlyAt, Once
    <3> QED
      BY Zenon, <2>2, <3>3, <3>4
  <2> QED
    BY Zenon, <2>6, <2>7
<1>AggregateSingleOnce.
  ASSUME TypeOK, NEW r \in Round, AggregateSingle(r), NEW s \in Sample, Once(s)
  PROVE  Once(s)'
  <2> USE <1>AggregateSingleOnce
  <2>0. round \in [Round -> RoundState] /\ out \in [Round -> SUBSET Sample]
    BY Zenon DEF TypeOK, RunnerTypeOK
  <2>1. /\ out' = [out EXCEPT ![r] = @ \cup round[r].acc]
        /\ round' = [round EXCEPT ![r].phase = "emitting", ![r].acc = {}]
        /\ UNCHANGED <<fresh, queue, short, long, rotRx, lost, egress, discarded>>
    BY Zenon DEF AggregateSingle
  <2>2. \A q : InAcc(s, q)' <=> InAcc(s, q) /\ q # r
    BY Zenon, <2>0, <2>1 DEF InAcc, RoundState
  <2>3. \A q : InOut(s, q)' <=> InOut(s, q) \/ (q = r /\ InAcc(s, r))
    BY Zenon, <2>0, <2>1 DEF InOut, InAcc
  <2>4. CASE ~InAcc(s, r)
    <3>1. (\A q : InAcc(s, q)' <=> InAcc(s, q)) /\ (\A q : InOut(s, q)' <=> InOut(s, q))
      BY Zenon, <2>2, <2>3, <2>4
    <3> QED
      BY Zenon, <2>1, <3>1, Unmoved, <1>Stays
  <2>5. CASE InAcc(s, r)
    <3>1. OnlyAt(s, "acc", r, 0)
      BY Zenon, <2>5, OnlyHere DEF At
    <3>2. OnlyAt(s, "out", r, 0)'
      BY Zenon, <2>1, <2>2, <2>3, <3>1, <2>5, Unmoved DEF OnlyAt, At, Alone
    <3> QED
      BY Zenon, <3>2 DEF Once
  <2> QED
    BY Zenon, <2>4, <2>5
<1>AggregateSeparateOnce.
  ASSUME TypeOK, NEW r \in Round, AggregateSeparate(r), NEW s \in Sample, Once(s)
  PROVE  Once(s)'
  <2> USE <1>AggregateSeparateOnce
  <2>0. round \in [Round -> RoundState] /\ lost \in [Counter -> SUBSET Sample]
    BY Zenon DEF TypeOK, RunnerTypeOK
  <2>1. UNCHANGED <<fresh, queue, short, long, rotRx, out, egress, discarded>>
    BY Zenon DEF AggregateSeparate
  <2>2. CASE round[r].acc = {}
    <3>1. round' = [round EXCEPT ![r].phase = "emitting"] /\ UNCHANGED lost
      BY Zenon, <2>2 DEF AggregateSeparate
    <3>2. \A q : InAcc(s, q)' <=> InAcc(s, q)
      BY Zenon, <2>0, <3>1 DEF InAcc, RoundState
    <3> QED
      BY Zenon, <2>1, <3>1, <3>2, Unmoved, <1>Stays
  <2>3. CASE round[r].acc # {}
    <3>1. round' = [round EXCEPT ![r] = FreeRound] /\ lost' = Lose("uncounted", round[r].acc)
      BY Zenon, <2>3 DEF AggregateSeparate
    <3>2. \A q : InAcc(s, q)' <=> InAcc(s, q) /\ q # r
      BY Zenon, <2>0, <3>1 DEF InAcc, FreeRound
    <3>3. \A d : InLost(s, d)' <=> InLost(s, d) \/ (d = "uncounted" /\ InAcc(s, r))
      BY <2>0, <3>1, Counted, CounterNames DEF InAcc
    <3>4. CASE ~InAcc(s, r)
      <4>1. (\A q : InAcc(s, q)' <=> InAcc(s, q)) /\ (\A d : InLost(s, d)' <=> InLost(s, d))
        BY Zenon, <3>2, <3>3, <3>4
      <4> QED
        BY Zenon, <2>1, <4>1, Unmoved, <1>Stays
    <3>5. CASE InAcc(s, r)
      <4>1. OnlyAt(s, "acc", r, 0)
        BY Zenon, <3>5, OnlyHere DEF At
      <4>2. OnlyAt(s, "lost", "uncounted", 0)'
        BY Zenon, <2>1, <3>2, <3>3, <3>5, <4>1, Unmoved DEF OnlyAt, At, Alone
      <4> QED
        BY Zenon, <4>2 DEF Once
    <3> QED
      BY Zenon, <3>4, <3>5
  <2> QED
    BY Zenon, <2>2, <2>3
<1>SendAggregateOnce.
  ASSUME TypeOK, NEW r \in Round, NEW t \in Sample, SendAggregate(r, t), NEW s \in Sample, Once(s)
  PROVE  Once(s)'
  <2> USE <1>SendAggregateOnce
  <2> DEFINE M == {u \in round[r].acc : SameName(t, u)}
             task == [kind |-> "Aggregate", round |-> r, metric |-> M]
  <2>0. /\ round \in [Round -> RoundState] /\ lost \in [Counter -> SUBSET Sample]
        /\ queue \in [Worker -> Seq(Task)]
    BY Zenon DEF TypeOK, RunnerTypeOK
  <2>1. round[r].num % W \in Worker
    BY <2>0, ConstantsAssumption DEF Worker, RoundState
  <2>2. PICK w \in Worker : w = round[r].num % W
    BY Zenon, <2>1
  <2>3. /\ round' = [round EXCEPT ![r].acc = @ \ M, ![r].num = @ + 1]
        /\ \/ lost' = Lose("DROPS", M) /\ UNCHANGED queue
           \/ queue' = Enqueue(w, task) /\ UNCHANGED lost
        /\ UNCHANGED <<fresh, short, long, rotRx, out, egress, discarded>>
    BY Zenon, <2>2 DEF SendAggregate
  <2>4. task \in Task /\ (Carries(task, s) <=> s \in M)
    BY Zenon, <2>0 DEF Task, RoundState, Carries
  <2>5. s \in M => InAcc(s, r)
    BY Zenon DEF InAcc
  <2> HIDE DEF M, task
  <2>6. \A q : InAcc(s, q)' <=> InAcc(s, q) /\ ~(q = r /\ s \in M)
    BY Zenon, <2>0, <2>3 DEF InAcc, RoundState
  <2>7. CASE lost' = Lose("DROPS", M) /\ UNCHANGED queue
    <3>1. \A d : InLost(s, d)' <=> InLost(s, d) \/ (d = "DROPS" /\ s \in M)
      BY Zenon, <2>0, <2>7, Counted, CounterNames
    <3>2. CASE s \notin M
      BY Zenon, <2>3, <2>6, <2>7, <3>1, <3>2, Unmoved, <1>Stays
    <3>3. CASE s \in M
      <4>1. OnlyAt(s, "acc", r, 0)
        BY Zenon, <2>5, <3>3, OnlyHere DEF At
      <4>2. OnlyAt(s, "lost", "DROPS", 0)'
        BY Zenon, <2>3, <2>6, <2>7, <3>1, <3>3, <4>1, Unmoved DEF OnlyAt, At, Alone
      <4> QED
        BY Zenon, <4>2 DEF Once
    <3> QED
      BY Zenon, <3>2, <3>3
  <2>8. CASE queue' = Enqueue(w, task) /\ UNCHANGED lost
    <3>1. PICK n : n = Len(queue[w]) + 1
      BY Zenon
    <3>2. \A v, i : InQueue(s, v, i)' <=> InQueue(s, v, i) \/ (v = w /\ i = n /\ s \in M)
      BY Zenon, <2>0, <2>4, <2>8, <3>1, Appended
    <3>3. CASE s \notin M
      BY Zenon, <2>3, <2>6, <2>8, <3>2, <3>3, Unmoved, <1>Stays
    <3>4. CASE s \in M
      <4>1. OnlyAt(s, "acc", r, 0)
        BY Zenon, <2>5, <3>4, OnlyHere DEF At
      <4>2. OnlyAt(s, "queue", w, n)'
        <5>1. At(s, "queue", w, n)'
          BY Zenon, <3>2, <3>4 DEF At
        <5>2. Alone(s, "queue", w, n)'
          <6>1. /\ \A v : ~InShort(s, v) /\ ~InLong(s, v)
                /\ \A v, i : ~InQueue(s, v, i) /\ ~InRotated(s, v, i)
                /\ \A q : (InAcc(s, q) => q = r) /\ ~InOut(s, q) /\ ~InLost(s, q)
                /\ ~InFresh(s) /\ ~InEgress(s) /\ ~InDiscarded(s)
            BY Zenon, <4>1 DEF OnlyAt, Alone
          <6>2. /\ \A v : ~InShort(s, v)' /\ ~InLong(s, v)'
                /\ \A v, i : ~InRotated(s, v, i)'
                /\ \A q : ~InAcc(s, q)' /\ ~InOut(s, q)' /\ ~InLost(s, q)'
                /\ ~InFresh(s)' /\ ~InEgress(s)' /\ ~InDiscarded(s)'
            BY Zenon, <2>3, <2>6, <2>8, <3>4, <6>1, Unmoved
          <6> QED
            BY Zenon, <3>2, <6>1, <6>2 DEF Alone
        <5> QED
          BY Zenon, <5>1, <5>2 DEF OnlyAt
      <4> QED
        BY Zenon, <4>2 DEF Once
    <3> QED
      BY Zenon, <3>3, <3>4
  <2> QED
    BY Zenon, <2>3, <2>7, <2>8
<1>CollectOnce.
  ASSUME TypeOK, NEW r \in Round, Collect(r), NEW s \in Sample, Once(s)
  PROVE  Once(s)'
  <2> USE <1>CollectOnce
  <2>0. round \in [Round -> RoundState] /\ out \in [Round -> SUBSET Sample]
    BY Zenon DEF TypeOK, RunnerTypeOK
  <2>1. /\ round[r].acc = {}
        /\ egress' = egress \cup out[r]
        /\ out' = [out EXCEPT ![r] = {}]
        /\ round' = [round EXCEPT ![r] = FreeRound]
        /\ UNCHANGED <<fresh, queue, short, long, rotRx, lost, discarded>>
    BY Zenon DEF Collect
  <2>2. \A q : InAcc(s, q)' <=> InAcc(s, q)
    BY Zenon, <2>0, <2>1 DEF InAcc, FreeRound
  <2>3. \A q : InOut(s, q)' <=> InOut(s, q) /\ q # r
    BY Zenon, <2>0, <2>1 DEF InOut
  <2>4. InEgress(s)' <=> InEgress(s) \/ InOut(s, r)
    BY Zenon, <2>1 DEF InEgress, InOut
  <2>5. CASE ~InOut(s, r)
    <3>1. (\A q : InOut(s, q)' <=> InOut(s, q)) /\ (InEgress(s)' <=> InEgress(s))
      BY Zenon, <2>3, <2>4, <2>5
    <3> QED
      BY Zenon, <2>1, <2>2, <3>1, Unmoved, <1>Stays
  <2>6. CASE InOut(s, r)
    <3>1. OnlyAt(s, "out", r, 0)
      BY Zenon, <2>6, OnlyHere DEF At
    <3>2. OnlyAt(s, "egress", 0, 0)'
      BY Zenon, <2>1, <2>2, <2>3, <2>4, <2>6, <3>1, Unmoved DEF OnlyAt, At, Alone
    <3> QED
      BY Zenon, <3>2 DEF Once
  <2> QED
    BY Zenon, <2>5, <2>6
\* A step that only sends tasks without samples, or changes what is not a
\* place.
<1>Untouched.
  ASSUME queue \in [Worker -> Seq(Task)], NEW s, Once(s),
         \/ UNCHANGED queue
         \/ \E w \in Worker, t \in Task : queue' = Enqueue(w, t) /\ ~Carries(t, s),
         \A r, w : InRotated(s, r, w)' <=> InRotated(s, r, w),
         \A r : InAcc(s, r)' <=> InAcc(s, r),
         UNCHANGED <<fresh, short, long, out, lost, egress, discarded>>
  PROVE  Once(s)'
  <2> USE <1>Untouched
  <2>1. \A v, i : InQueue(s, v, i)' <=> InQueue(s, v, i)
    <3>1. CASE UNCHANGED queue
      BY Zenon, <3>1, Unmoved
    <3>2. ASSUME NEW w \in Worker, NEW t \in Task, queue' = Enqueue(w, t), ~Carries(t, s)
          PROVE  \A v, i : InQueue(s, v, i)' <=> InQueue(s, v, i)
      BY Zenon, <3>2, Appended
    <3> QED
      BY Zenon, <3>1, <3>2
  <2> QED
    BY Zenon, <2>1, Unmoved, <1>Stays
<1>SnapshotOnce.
  ASSUME TypeOK, Snapshot, NEW s \in Sample, Once(s)
  PROVE  Once(s)'
  <2> USE <1>SnapshotOnce
  <2>0. queue \in [Worker -> Seq(Task)]
    BY Zenon DEF TypeOK, RunnerTypeOK
  <2>1. UNCHANGED <<fresh, short, long, rotRx, out, lost, round, egress, discarded>>
    BY Zenon DEF Snapshot, SnapTick, SnapJoin, SnapFail, SendTakeSnapshot
  <2>2. \/ UNCHANGED queue
        \/ \E w \in Worker, t \in Task : queue' = Enqueue(w, t) /\ ~Carries(t, s)
    <3>1. [kind |-> "TakeSnapshot"] \in Task /\ ~Carries([kind |-> "TakeSnapshot"], s)
      BY Zenon DEF Task, Carries
    <3> QED
      BY Zenon, <3>1 DEF Snapshot, SnapTick, SnapJoin, SnapFail, SendTakeSnapshot
  <2> QED
    BY Zenon, <2>0, <2>1, <2>2, Unmoved, <1>Untouched
<1>CarbonOnce.
  ASSUME TypeOK, RoundInv, NEW r \in Round, Carbon(r), NEW s \in Sample, Once(s)
  PROVE  Once(s)'
  <2> USE <1>CarbonOnce
  <2>0. /\ queue \in [Worker -> Seq(Task)] /\ round \in [Round -> RoundState]
        /\ rotRx \in [Round -> [Worker -> Oneshot]]
    BY Zenon DEF TypeOK, RunnerTypeOK
  <2>1. CASE CarbonTick(r)
    <3>1. \A q : InAcc(s, q)' <=> InAcc(s, q)
      BY Zenon, <2>0, <2>1 DEF CarbonTick, InAcc, RoundState
    <3> QED
      BY Zenon, <2>0, <2>1, <3>1, Unmoved, <1>Untouched DEF CarbonTick, runnerVars
  <2>2. CASE StartRound(r)
    <3>1. \A q : InAcc(s, q)' <=> InAcc(s, q)
      BY Zenon, <2>0, <2>2 DEF StartRound, InAcc, RoundState
    <3>2. \A q, v : InRotated(s, q, v)' <=> InRotated(s, q, v)
      <4>1. \A q \in Round, v \in Worker : rotRx'[q][v] = IF q = r THEN Open ELSE rotRx[q][v]
        BY Zenon, <2>0, <2>2 DEF StartRound
      <4>2. \A v \in Worker : rotRx[r][v] = Closed
        BY Zenon, <2>2 DEF StartRound, RoundInv
      <4> QED
        BY <4>1, <4>2 DEF InRotated, Open, Closed
    <3> QED
      BY Zenon, <2>0, <2>2, <3>1, <3>2, <1>Untouched DEF StartRound
  <2>3. CASE AbortRound(r)
    BY Zenon, <2>3, <1>AbortOnce
  <2>4. ASSUME NEW w \in Worker, SendRotate(r, w) PROVE Once(s)'
    <3>1. \A q : InAcc(s, q)' <=> InAcc(s, q)
      BY Zenon, <2>0, <2>4 DEF SendRotate, InAcc, RoundState
    <3>2. \A q, v : InRotated(s, q, v)' <=> InRotated(s, q, v)
      <4>1. \A q \in Round, v \in Worker : rotRx'[q][v] = rotRx[q][v] \/ rotRx'[q][v] = Cancel(rotRx[q][v])
        BY SMTT(30), <2>0, <2>4 DEF SendRotate
      <4>2. \A q \in Round, v \in Worker : rotRx[q][v].st = "open" => rotRx[q][v].val = {}
        BY Zenon DEF RoundInv
      <4>3. \A q \in Round, v \in Worker : Cancel(rotRx[q][v]).val = rotRx[q][v].val
        BY Zenon, <4>2 DEF Cancel, Cancelled
      <4>4. \A q \in Round, v \in Worker : rotRx'[q][v].val = rotRx[q][v].val
        BY Zenon, <4>1, <4>3
      <4> QED
        BY Zenon, <4>4 DEF InRotated
    <3>3. [kind |-> "Rotate", round |-> r] \in Task /\ ~Carries([kind |-> "Rotate", round |-> r], s)
      BY Zenon DEF Task, Carries
    <3>4. \/ UNCHANGED queue
          \/ \E v \in Worker, t \in Task : queue' = Enqueue(v, t) /\ ~Carries(t, s)
      BY Zenon, <2>4, <3>3 DEF SendRotate
    <3> QED
      BY Zenon, <2>0, <2>4, <3>1, <3>2, <3>4, <1>Untouched DEF SendRotate
  <2>5. ASSUME NEW w \in Worker, Fold(r, w) PROVE Once(s)'
    BY Zenon, <2>5, <1>FoldOnce
  <2>6. CASE FinishFollower(r)
    <3>1. round[r].acc = {}
      BY Zenon, <2>6 DEF FinishFollower, RoundInv
    <3>2. \A q : InAcc(s, q)' <=> InAcc(s, q)
      BY Zenon, <2>0, <2>6, <3>1 DEF FinishFollower, InAcc, FreeRound
    <3> QED
      BY ZenonT(30), <2>0, <2>6, <3>2, Unmoved, <1>Untouched DEF FinishFollower, runnerVars
  <2>7. CASE AggregateSingle(r)
    BY Zenon, <2>7, <1>AggregateSingleOnce
  <2>8. CASE AggregateCommon(r)
    <3>1. \A q : InAcc(s, q)' <=> InAcc(s, q)
      BY Zenon, <2>0, <2>8 DEF AggregateCommon, InAcc, RoundState
    <3> QED
      BY Zenon, <2>0, <2>8, <3>1, Unmoved, <1>Untouched DEF AggregateCommon, runnerVars
  <2>9. CASE AggregateSeparate(r)
    BY Zenon, <2>9, <1>AggregateSeparateOnce
  <2>10. ASSUME NEW t \in Sample, SendAggregate(r, t) PROVE Once(s)'
    BY Zenon, <2>10, <1>SendAggregateOnce
  <2>11. CASE Collect(r)
    BY Zenon, <2>11, <1>CollectOnce
  <2> QED
    BY SMTT(30), <2>1, <2>2, <2>3, <2>4, <2>5, <2>6, <2>7, <2>8, <2>9, <2>10, <2>11 DEF Carbon
<1> SUFFICES ASSUME HasLeast, OnceInv, [Next]_vars PROVE OnceInv'
  BY Zenon
<1>0. TypeOK /\ TextInv /\ RoundInv /\ AllOnce
  BY Zenon DEF OnceInv
<1>1. TypeOK'
  BY Zenon, <1>0, StepTypes
<1>2. TextInv'
  <2>1. CASE Next
    <3>1. KeptHeads' /\ PiecesOnce'
      BY ZenonT(30), <1>0, <2>1, HeadsStep, PiecesStep DEF TextInv, KeptHeads, PiecesOnce
    <3> QED
      BY Zenon, <3>1 DEF TextInv, KeptHeads, PiecesOnce
  <2>2. CASE UNCHANGED vars
    BY ZenonT(30), <1>0, <2>2 DEF vars, runnerVars, TextInv, Kept, Queued
  <2> QED
    BY Zenon, <2>1, <2>2
<1>3. RoundInv'
  BY Zenon, <1>0, RoundsStep
<1>4. ASSUME NEW s \in Sample PROVE Once(s)'
  <2>0. Once(s)
    BY Zenon, <1>0 DEF AllOnce
  <2>1. CASE ReceiveText
    BY <1>0, <2>0, <2>1, <1>ReceiveTextOnce
  <2>2. CASE ReceiveMetrics
    BY SMTT(30), <1>0, <2>0, <2>2, <1>ReceiveMetricsOnce
  <2>3. ASSUME NEW w \in Worker, Work(w) PROVE Once(s)'
    BY ZenonT(30), <1>0, <2>0, <2>3, <1>ParseOnce, <1>AddMetricsOnce, <1>AddSnapshotOnce, <1>TakeSnapshotOnce, <1>RotateOnce,
       <1>AggregateOnce DEF Work, Run
  <2>4. ASSUME NEW w \in Worker, Panic(w) PROVE Once(s)'
    BY SMTT(30), <1>0, <2>0, <2>4, <1>DieOnce
  <2>5. CASE Snapshot
    BY <1>0, <2>0, <2>5, <1>SnapshotOnce
  <2>6. ASSUME NEW r \in Round, Carbon(r) PROVE Once(s)'
    BY SMTT(30), <1>0, <2>0, <2>6, <1>CarbonOnce
  <2>7. CASE SetLeader \/ UNCHANGED vars
    <3>1. UNCHANGED <<fresh, queue, short, long, rotRx, out, lost, round, egress, discarded>>
      BY Zenon, <2>7 DEF SetLeader, vars, runnerVars, pipelineVars
    <3> QED
      BY ZenonT(30), <2>0, <3>1, Unmoved, <1>Stays
  <2> QED
    BY SMTT(30), <2>1, <2>2, <2>3, <2>4, <2>5, <2>6, <2>7 DEF Next
<1> QED
  BY Zenon, <1>1, <1>2, <1>3, <1>4 DEF OnceInv, AllOnce
=============================================================================
