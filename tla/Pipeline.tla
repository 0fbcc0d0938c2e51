------------------------------ MODULE Pipeline ------------------------------
(***************************************************************************)
(* The way of a metric through one node: the counting workers, the         *)
(* snapshot sender that copies what they received to the other nodes       *)
(* (NativeProtocolSnapshot, peer.rs), and the carbon threads that rotate   *)
(* the workers' caches and, on the leader, aggregate them for the backend  *)
(* (carbon timer of main.rs, Aggregator of aggregate.rs).                  *)
(***************************************************************************)
EXTENDS TaskRunner

CONSTANTS
    Modes,      \* values of aggregation_mode the node may be configured with
    Data,       \* buffers the network threads may hand over (bound)
    List,       \* lists of metrics the peer server may hand over (bound)
    Route,      \* pairs <<address, worker>>: where a buffer may be sent
    MaxDead     \* worker threads that may panic (bound)

ASSUME PipelineAssumption ==
    /\ Modes \subseteq {"single", "common", "separate"}
    /\ Data \subseteq Seq(Piece)
    /\ List \subseteq Seq(Sample)
    /\ Route \subseteq Addr \X Worker
    /\ MaxDead \in Nat

VARIABLES
    mode,       \* aggregation_mode, fixed by the configuration
    isLeader,   \* IS_LEADER
    snap,       \* the snapshot sender
    replicated, \* samples handed to the senders of all peers
    round,      \* the carbon threads
    egress,     \* samples a leader collected for the carbon client
    discarded   \* samples a node that is not the leader rotated away

pipelineVars == <<mode, isLeader, snap, replicated, round, egress, discarded>>

vars == <<runnerVars, pipelineVars>>

RoundState ==
    [phase : {"free", "spawned", "rotating", "emitting"}, leader : BOOLEAN,
     toSend : SUBSET Worker,    \* workers Rotate is still to be sent to
     toFold : SUBSET Worker,    \* workers whose cache is still to be folded
     acc : SUBSET Sample,       \* the accumulated cache
     num : Nat]                 \* Aggregate tasks sent

FreeRound == [phase |-> "free", leader |-> FALSE, toSend |-> {}, toFold |-> {}, acc |-> {}, num |-> 0]

Init ==
    /\ RunnerInit
    /\ mode \in Modes
    /\ isLeader \in BOOLEAN
    /\ snap = [phase |-> "idle", toSend |-> {}]
    /\ replicated = {}
    /\ round = [r \in Round |-> FreeRound]
    /\ egress = {}
    /\ discarded = {}

-----------------------------------------------------------------------------
(* The snapshot sender: a timer loop on the main thread. *)

SnapTick ==
    /\ snap.phase = "idle" /\ snap.toSend = {}
    /\ snap' = [phase |-> "joining", toSend |-> Worker]
    /\ snapRx' = [w \in Worker |-> Open]
    /\ UNCHANGED <<fresh, queue, short, long, buffers, dead, rotRx, out, lost>>
    /\ UNCHANGED <<mode, isLeader, replicated, round, egress, discarded>>

\* The spawned send of TakeSnapshot; its error is ignored, the oneshot with it.
SendTakeSnapshot(w) ==
    /\ w \in snap.toSend
    /\ snap' = [snap EXCEPT !.toSend = @ \ {w}]
    /\ IF w \in dead
         THEN /\ snapRx' = [snapRx EXCEPT ![w] = Cancel(@)]
              /\ UNCHANGED queue
         ELSE /\ queue' = Enqueue(w, [kind |-> "TakeSnapshot"])
              /\ UNCHANGED snapRx
    /\ UNCHANGED <<fresh, short, long, buffers, dead, rotRx, out, lost>>
    /\ UNCHANGED <<mode, isLeader, replicated, round, egress, discarded>>

\* Mutant of SnapJoin: the loop does not wait for the next tick again.
SnapJoin_Stuck ==
    /\ snap.phase = "joining"
    /\ \A w \in Worker : snapRx[w].st = "full"
    /\ replicated' = replicated \cup UNION {snapRx[w].val : w \in Worker}
    /\ snapRx' = [w \in Worker |-> Closed]
    /\ UNCHANGED <<fresh, queue, short, long, buffers, dead, rotRx, out, lost>>
    /\ UNCHANGED <<mode, isLeader, snap, round, egress, discarded>>

\* join_all has every cache: one retrying sender per peer gets the same copy.
SnapJoin ==
    /\ snap.phase = "joining"
    /\ \A w \in Worker : snapRx[w].st = "full"
    /\ replicated' = replicated \cup UNION {snapRx[w].val : w \in Worker}
    /\ snapRx' = [w \in Worker |-> Closed]
    /\ snap' = [snap EXCEPT !.phase = "idle"]
    /\ UNCHANGED <<fresh, queue, short, long, buffers, dead, rotRx, out, lost>>
    /\ UNCHANGED <<mode, isLeader, round, egress, discarded>>

\* Mutant of SnapFail: the error is logged and the loop goes on.
SnapFail_GoesOn ==
    /\ snap.phase = "joining"
    /\ \E w \in Worker : snapRx[w].st = "cancelled"
    /\ snapRx' = [w \in Worker |-> Closed]
    /\ snap' = [snap EXCEPT !.phase = "idle"]
    /\ UNCHANGED <<fresh, queue, short, long, buffers, dead, rotRx, out, lost>>
    /\ UNCHANGED <<mode, isLeader, replicated, round, egress, discarded>>

\* join_all fails with the first cancelled oneshot; the error ends the loop.
SnapFail ==
    /\ snap.phase = "joining"
    /\ \E w \in Worker : snapRx[w].st = "cancelled"
    /\ snapRx' = [w \in Worker |-> Closed]
    /\ snap' = [snap EXCEPT !.phase = "ended"]
    /\ UNCHANGED <<fresh, queue, short, long, buffers, dead, rotRx, out, lost>>
    /\ UNCHANGED <<mode, isLeader, replicated, round, egress, discarded>>

-----------------------------------------------------------------------------
(* The carbon threads.  A slot of Round stands for one thread; it is used  *)
(* again only when no task of the previous thread is left in a queue.      *)

Leftover(r) ==
    \E w \in Worker : \E i \in DOMAIN queue[w] :
        queue[w][i].kind \in {"Rotate", "Aggregate"} /\ queue[w][i].round = r

\* The timer ticks and starts a thread, however many are still running.
CarbonTick(r) ==
    /\ round[r].phase = "free" /\ ~Leftover(r)
    /\ round' = [round EXCEPT ![r].phase = "spawned"]
    /\ UNCHANGED <<runnerVars, mode, isLeader, snap, replicated, egress, discarded>>

\* The thread looks at IS_LEADER, once, and builds the Aggregator.
StartRound(r) ==
    /\ round[r].phase = "spawned"
    /\ round' = [round EXCEPT ![r] = [@ EXCEPT !.phase = "rotating", !.leader = isLeader,
                                               !.toSend = Worker, !.toFold = Worker]]
    /\ rotRx' = [rotRx EXCEPT ![r] = [w \in Worker |-> Open]]
    /\ UNCHANGED <<fresh, queue, short, long, buffers, dead, snapRx, out, lost>>
    /\ UNCHANGED <<mode, isLeader, snap, replicated, egress, discarded>>

SendRotate(r, w) ==
    /\ round[r].phase = "rotating" /\ w \in round[r].toSend
    /\ round' = [round EXCEPT ![r].toSend = @ \ {w}]
    /\ IF w \in dead
         THEN /\ rotRx' = [rotRx EXCEPT ![r][w] = Cancel(@)]
              /\ UNCHANGED queue
         ELSE /\ queue' = Enqueue(w, [kind |-> "Rotate", round |-> r])
              /\ UNCHANGED rotRx
    /\ UNCHANGED <<fresh, short, long, buffers, dead, snapRx, out, lost>>
    /\ UNCHANGED <<mode, isLeader, snap, replicated, egress, discarded>>

\* futures_unordered yields the cache of worker w.
Fold(r, w) ==
    LET rotated == rotRx[r][w].val
        acc     == round[r].acc
    IN  /\ round[r].phase = "rotating" /\ w \in round[r].toFold
        /\ rotRx[r][w].st = "full"
        /\ rotRx' = [rotRx EXCEPT ![r][w] = Closed]
        /\ IF round[r].leader
             THEN /\ round' = [round EXCEPT ![r].toFold = @ \ {w},
                                            ![r].acc = @ \cup Merge(@, rotated)]
                  /\ lost' = Lose("AGG_ERRORS", rotated \ Merge(acc, rotated))
                  /\ UNCHANGED discarded
             ELSE /\ round' = [round EXCEPT ![r].toFold = @ \ {w}]
                  /\ discarded' = discarded \cup rotated
                  /\ UNCHANGED lost
        /\ UNCHANGED <<fresh, queue, short, long, buffers, dead, snapRx, out>>
        /\ UNCHANGED <<mode, isLeader, snap, replicated, egress>>

\* One worker did not answer: the fold fails with all it has collected.
AbortRound(r) ==
    LET held == round[r].acc \cup UNION {rotRx[r][w].val : w \in Worker}
    IN  /\ round[r].phase = "rotating"
        /\ \E w \in round[r].toFold : rotRx[r][w].st = "cancelled"
        /\ rotRx' = [rotRx EXCEPT ![r] = [w \in Worker |-> Closed]]
        /\ round' = [round EXCEPT ![r] = FreeRound]
        /\ IF round[r].leader
             THEN lost' = Lose("uncounted", held) /\ UNCHANGED discarded
             ELSE discarded' = discarded \cup held /\ UNCHANGED lost
        /\ UNCHANGED <<fresh, queue, short, long, buffers, dead, snapRx, out>>
        /\ UNCHANGED <<mode, isLeader, snap, replicated, egress>>

Rotated(r) == round[r].phase = "rotating" /\ round[r].toFold = {}

\* Mutant of FinishFollower: it does not wait for the answers.
FinishFollower_Early(r) ==
    /\ round[r].phase = "rotating" /\ round[r].toSend = {} /\ ~round[r].leader
    /\ discarded' = discarded \cup UNION {rotRx[r][w].val : w \in Worker}
    /\ rotRx' = [rotRx EXCEPT ![r] = [w \in Worker |-> Closed]]
    /\ round' = [round EXCEPT ![r] = FreeRound]
    /\ UNCHANGED <<fresh, queue, short, long, buffers, dead, snapRx, out, lost>>
    /\ UNCHANGED <<mode, isLeader, snap, replicated, egress>>

\* Not the leader: the thread is done.
FinishFollower(r) ==
    /\ Rotated(r) /\ ~round[r].leader
    /\ round' = [round EXCEPT ![r] = FreeRound]
    /\ UNCHANGED <<runnerVars, mode, isLeader, snap, replicated, egress, discarded>>

\* Single: the carbon thread runs aggregate_task for every metric itself.
AggregateSingle(r) ==
    /\ Rotated(r) /\ round[r].leader /\ mode = "single"
    /\ out' = [out EXCEPT ![r] = @ \cup round[r].acc]
    /\ round' = [round EXCEPT ![r].phase = "emitting", ![r].acc = {}]
    /\ UNCHANGED <<fresh, queue, short, long, buffers, dead, snapRx, rotRx, lost>>
    /\ UNCHANGED <<mode, isLeader, snap, replicated, egress, discarded>>

\* Common: the metrics go back to the workers.
AggregateCommon(r) ==
    /\ Rotated(r) /\ round[r].leader /\ mode = "common"
    /\ round' = [round EXCEPT ![r].phase = "emitting"]
    /\ UNCHANGED <<runnerVars, mode, isLeader, snap, replicated, egress, discarded>>

\* Separate: aggregate_task runs on a rayon thread.  It calls
\* current_thread::spawn, which panics on a thread without a running
\* current_thread executor; the panic goes through `install` and ends the
\* carbon thread.
AggregateSeparate(r) ==
    /\ Rotated(r) /\ round[r].leader /\ mode = "separate"
    /\ IF round[r].acc = {}
         THEN round' = [round EXCEPT ![r].phase = "emitting"] /\ UNCHANGED lost
         ELSE /\ round' = [round EXCEPT ![r] = FreeRound]
              /\ lost' = Lose("uncounted", round[r].acc)
    /\ UNCHANGED <<fresh, queue, short, long, buffers, dead, snapRx, rotRx, out>>
    /\ UNCHANGED <<mode, isLeader, snap, replicated, egress, discarded>>

\* Common: the next metric of the accumulated cache, in any order of names,
\* goes to worker number num % chans.len().
SendAggregate(r, s) ==
    LET w      == round[r].num % W
        metric == {t \in round[r].acc : SameName(s, t)}
    IN  /\ round[r].phase = "emitting" /\ s \in round[r].acc
        /\ round' = [round EXCEPT ![r].acc = @ \ metric, ![r].num = @ + 1]
        /\ IF w \in dead
             THEN lost' = Lose("DROPS", metric) /\ UNCHANGED queue
             ELSE /\ queue' = Enqueue(w, [kind |-> "Aggregate", round |-> r, metric |-> metric])
                  /\ UNCHANGED lost
        /\ UNCHANGED <<fresh, short, long, buffers, dead, snapRx, rotRx, out>>
        /\ UNCHANGED <<mode, isLeader, snap, replicated, egress, discarded>>

\* All senders of the backend channel are gone: collect() completes.
Collect(r) ==
    /\ round[r].phase = "emitting" /\ round[r].acc = {} /\ ~Leftover(r)
    /\ egress' = egress \cup out[r]
    /\ out' = [out EXCEPT ![r] = {}]
    /\ round' = [round EXCEPT ![r] = FreeRound]
    /\ UNCHANGED <<fresh, queue, short, long, buffers, dead, snapRx, rotRx, lost>>
    /\ UNCHANGED <<mode, isLeader, snap, replicated, discarded>>

-----------------------------------------------------------------------------
\* The consensus or an operator changes IS_LEADER at any time.
SetLeader ==
    /\ isLeader' = ~isLeader
    /\ UNCHANGED <<runnerVars, mode, snap, replicated, round, egress, discarded>>

ReceiveText == \E p \in Route, d \in Data : SendParse(p[2], p[1], d) /\ UNCHANGED pipelineVars

ReceiveMetrics ==
    \E w \in Worker, l \in List, k \in {"AddMetric", "AddMetrics", "AddSnapshot"} :
        SendMetrics(w, k, l) /\ UNCHANGED pipelineVars

Work(w) == Run(w) /\ UNCHANGED pipelineVars

Panic(w) == Cardinality(dead) < MaxDead /\ Die(w) /\ UNCHANGED pipelineVars

Snapshot == SnapTick \/ SnapJoin \/ SnapFail \/ \E w \in Worker : SendTakeSnapshot(w)

Carbon(r) ==
    \/ CarbonTick(r) \/ StartRound(r) \/ AbortRound(r)
    \/ \E w \in Worker : SendRotate(r, w) \/ Fold(r, w)
    \/ FinishFollower(r) \/ AggregateSingle(r) \/ AggregateCommon(r) \/ AggregateSeparate(r)
    \/ \E s \in Sample : SendAggregate(r, s)
    \/ Collect(r)

Next ==
    \/ ReceiveText \/ ReceiveMetrics
    \/ \E w \in Worker : Work(w) \/ Panic(w)
    \/ Snapshot
    \/ \E r \in Round : Carbon(r)
    \/ SetLeader

Spec == Init /\ [][Next]_vars

\* Threads run and timers keep ticking.  Nothing is assumed about what the
\* network delivers, about panics, or about who is the leader.
Fairness ==
    /\ \A w \in Worker : WF_vars(Work(w))
    /\ WF_vars(Snapshot)
    /\ \A r \in Round : WF_vars(Carbon(r))

FairSpec == Spec /\ Fairness

-----------------------------------------------------------------------------
(* Properties. *)

\* Channels carry tasks and caches of known samples, and the age of a kept
\* buffer stays below MaxTimes.
TypeOK ==
    /\ RunnerTypeOK
    /\ mode \in Modes
    /\ isLeader \in BOOLEAN
    /\ snap \in [phase : {"idle", "joining", "ended"}, toSend : SUBSET Worker]
    /\ replicated \subseteq Sample
    /\ round \in [Round -> RoundState]
    /\ egress \subseteq Sample
    /\ discarded \subseteq Sample

\* Everywhere sample s is at this moment.
Places(s) ==
    {<<"fresh", 0, 0>> : i \in {j \in {0} : EndOf(s) \in fresh}}
        \cup (UNION {{<<"queue", w, i>> : i \in {j \in DOMAIN queue[w] : Carries(queue[w][j], s)}} : w \in Worker})
        \cup {<<"short", w, 0>> : w \in {v \in Worker : s \in short[v]}}
        \cup {<<"long", w, 0>> : w \in {v \in Worker : s \in long[v]}}
        \cup (UNION {{<<"rotated", r, w>> : w \in {v \in Worker : s \in rotRx[r][v].val}} : r \in Round})
        \cup {<<"acc", r, 0>> : r \in {q \in Round : s \in round[q].acc}}
        \cup {<<"out", r, 0>> : r \in {q \in Round : s \in out[q]}}
        \cup {<<"egress", 0, 0>> : i \in {j \in {0} : s \in egress}}
        \cup {<<"discarded", 0, 0>> : i \in {j \in {0} : s \in discarded}}
        \cup {<<"lost", c, 0>> : c \in {d \in Counter : s \in lost[d]}}

\* However the tasks of workers, overlapping rotations and snapshots
\* interleave, a sample is always in exactly one place: no cache swap of
\* TakeSnapshot or Rotate and no hand-over between threads loses it or counts
\* it twice.
CountedOnce == \A s \in Sample : LET P == Places(s) IN \E p \in P : P = {p}

\* What keeps CountedOnce true.  Buffers between two Parse tasks hold only
\* unfinished lines, and no piece is twice in a task; the reply channels of a
\* carbon thread are empty unless filled, and closed once folded; a thread
\* that is not the leader, or has not rotated yet, has accumulated nothing.
TextInv ==
    /\ \A w \in Worker, a \in Addr : \A i \in DOMAIN Kept(w, a) : Kept(w, a)[i].part = "head"
    /\ \A w \in Worker : \A k \in Queued(w, "Parse") : \A i, j \in DOMAIN queue[w][k].data :
           queue[w][k].data[i] = queue[w][k].data[j] => i = j

RoundInv ==
    \A r \in Round :
        /\ \A w \in Worker : /\ rotRx[r][w].st # "full" => rotRx[r][w].val = {}
                             /\ w \notin round[r].toFold => rotRx[r][w] = Closed
        /\ round[r].phase # "rotating" => round[r].toFold = {}
        /\ round[r].phase \in {"free", "spawned"} \/ ~round[r].leader => round[r].acc = {}

\* The conjunction that every step preserves; it is stated for the proof that
\* the hand-overs of workers and carbon threads keep CountedOnce.
IndInv == TypeOK /\ TextInv /\ RoundInv /\ CountedOnce

\* No cache mixes metrics of different types under one name, in the workers,
\* on the way to the carbon thread and in what it accumulates
\* (update_metric and the fold of the Aggregator refuse a mismatch).
OneTypePerName ==
    LET uniform(cache) == \A s, t \in cache : ~Conflict(s, t)
    IN  /\ \A w \in Worker : uniform(short[w]) /\ uniform(long[w]) /\ uniform(snapRx[w].val)
        /\ \A r \in Round : uniform(round[r].acc) /\ \A w \in Worker : uniform(rotRx[r][w].val)

\* What goes into a snapshot was received by this node and was in no earlier
\* snapshot and in no other worker's part of this one: snapshots are never
\* passed on ("snapshots go to long cache to avoid being duplicated to other
\* nodes", task.rs) and peers do not get a sample twice.
ReplicatedOnce ==
    \A w \in Worker :
        /\ snapRx[w].val \cap (replicated \cup Peer) = {}
        /\ \A v \in Worker \ {w} : snapRx[w].val \cap snapRx[v].val = {}

\* As long as the snapshot sender runs, whatever the node rotates away, sends
\* to the backend or discards has been handed to the peers before or is in
\* the snapshot being joined.
ReplicatedBeforeRotated ==
    LET settled == discarded \cup egress
                       \cup (UNION {long[w] : w \in Worker})
                       \cup (UNION {out[r] \cup round[r].acc : r \in Round})
                       \cup UNION {UNION {rotRx[r][w].val : w \in Worker} : r \in Round}
    IN  snap.phase # "ended" =>
            settled \subseteq Peer \cup replicated \cup UNION {snapRx[w].val : w \in Worker}

\* While all workers live, the only samples that disappear are those the code
\* counts as parse or aggregation errors; a node that sends or discards a
\* rotation sends or discards all of it.
NoUncountedLoss == dead = {} => lost["uncounted"] = {} /\ lost["DROPS"] = {}

\* As long as all workers live, every sample a worker gets is eventually
\* sent, discarded by a node that is not the leader, or counted as an error.
Settles ==
    \A s \in Sample :
        EndOf(s) \notin fresh ~>
            s \in egress \cup discarded \cup UNION {lost[c] : c \in Counter} \/ dead # {}
=============================================================================
