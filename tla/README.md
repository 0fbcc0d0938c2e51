# Bioyino in TLA+

A specification of bioyino, the distributed statsd server of this repository,
translated from `src/src/*.rs`: TLA+ modules, TLC configurations that check them
on small instances, and TLAPS proofs.

## 1. The system

A node receives metric readings as text over UDP and as messages from agents and
other nodes, aggregates them in memory, copies what it received to all peers, and,
if it is the leader, sends the aggregated values to a carbon backend at every
interval. Nodes that are not the leader throw their rotation away.

| Part | Source | State | Operations |
|---|---|---|---|
| UDP listeners | `server.rs`, `udp.rs` | buffers per address, byte counter, next worker | receive, flush, end |
| flush timer | `main.rs` | one flag per network thread | raise all flags |
| counting workers | `task.rs`, `main.rs` | `short`, `long`, `buffers`, a task queue | the seven tasks, thread death |
| peer server | `peer.rs` | none of its own | turn messages into tasks |
| snapshot sender | `peer.rs` | timer loop, one oneshot per worker, one retrying sender per peer | tick, send, join, fail; connect, write, retry, give up |
| carbon timer and threads | `main.rs`, `aggregate.rs` | per round: accumulated cache, oneshots | rotate, fold, aggregate, collect |
| carbon client | `carbon.rs`, `main.rs` | chunks, connections | connect, write, break, retry |
| backoff retry | `util.rs` | retries left, delay | spawn, succeed, fail, elapse |
| internal consensus | `raft.rs`, `main.rs`, `util.rs` | `CONSENSUS_STATE`, `IS_LEADER` | delayed start, notifier, `switch_leader` |
| Consul consensus | `consul.rs` | session, timer, requests under way | create session, renew, acquire |
| management server and client | `management.rs`, `main.rs` | the same two variables, a query | status, consensus command, print |
| own statistics | `util.rs` | atomic counters | swap and report |
| configuration, errors, bigint | `config.rs`, `errors.rs`, `bigint.rs` | static | none |

How they interact: a listener hands text to a worker's queue (`Task::Parse`), the
peer server hands metrics (`AddMetric`, `AddMetrics`, `AddSnapshot`). The snapshot
sender asks every worker for a copy of `short` (`TakeSnapshot`, which also merges
`short` into `long`) and starts a sender for every peer; a carbon thread asks every
worker for `long` (`Rotate`) and in common mode hands merged metrics back
(`Aggregate`). `IS_LEADER` is written by the consensus and by operators, and is read
once by every carbon thread.

What is hard: several carbon threads may be alive at once (the timer does not
wait); every hand-over crosses threads through channels whose other end may be
gone; one worker that died fails a whole join or fold; senders of several snapshots
overtake each other; a flag is shared by several listeners; `switch_leader` checks
under a lock and stores after it; notifications of Raft are edges and can be
dropped; a session in Consul outlives the node's interest in it; connections break
half-way through a message. `PROJECT.json` lists these hazards with their lines.

## 2. Modules

| Module | Models | Built on |
|---|---|---|
| `TaskRunner` | a worker's caches, text buffers and all tasks; channels | |
| `Pipeline` | workers with the snapshot sender and the carbon threads | `TaskRunner` |
| `MetricLedger` | abstract: what a node promises about each sample | |
| `PipelineLedger` | the refinement mapping from `Pipeline` to `MetricLedger` | both |
| `ParseText` | the text of addresses cut into datagrams, with rotations | `TaskRunner` |
| `Ingest` | UDP listeners and the flush timer | |
| `Consensus` | the states and commands both consensus modules use | |
| `Leadership` | Raft notifier, `switch_leader`, management server and client | `Consensus` |
| `Consul` | the renew loops of several nodes, Consul, commands | `Consensus` |
| `BackoffRetry` | the retrying future | |
| `Carbon` | chunks and carbon clients | `BackoffRetry` |
| `Cluster` | several nodes, snapshot senders, connections, crashes, own statistics | `BackoffRetry` |
| `MC*` | constants of the instances | the module they are named after |
| `PipelineLemmas` | lemmas: operators, types, channel invariants, the places of a sample and where each action takes it | `Pipeline` |
| `PipelineProofs` | the theorems about `Pipeline`, about snapshots, and the refinement | `PipelineLedger`, `PipelineLemmas` |
| `ParseTextProofs` | the theorems about `ParseText` | `ParseText` |
| `IngestProofs` | the theorems about `Ingest` | `Ingest` |
| `LeadershipProofs` | the theorems about `Leadership` | `Leadership` |
| `ConsulProofs` | the theorems about `Consul` | `Consul` |
| `ClusterProofs` | the theorems about `Cluster` | `Cluster` |
| `CarbonProofs` | the theorems about `Carbon` and, with it, `BackoffRetry` | `Carbon` |

Definitions whose name ends in `_Word` and whose comment says "Mutant of" are
deliberately wrong variants of the definition that follows them. No specification
uses them; each is there to show that a property notices that mistake.

### Abstractions

*Metrics.* A metric reading is a *sample* with a name and a type. A cache, which
the code keeps as a map from names to aggregated values, is the set of samples
aggregated into it; the entry of a name is the subset with that name. Aggregation
of two metrics of different types fails in the code and is counted in
`AGG_ERRORS`; `Admitted` and `Merge` say which samples get in. What values come
out of the aggregation of a set is not modelled.

*Text.* Text is a sequence of pieces: a whole line, or the head or tail of a line
cut by a datagram boundary. `Parsed`, `Broken` and `Unparsed` say what the parser of
`bioyino_metric` (external) yields, reports to the error handler and leaves.

*Channels.* The program sends to a worker through a fresh clone of a bounded
`futures` channel sender every time. Each clone owns a slot, so a send never waits
and never finds the queue full; it fails only if the receiver is gone. The reply
channels are oneshots: closed, open, full or cancelled.

*Threads.* A worker runs one task at a time to its end (no task awaits), so a task
is one action. A carbon thread and the snapshot sender wait between sending and
joining, so each send and each yielded answer is an action of its own.

*Losses.* `lost` keeps every sample the node throws away, under the counter that
accounts for it (`AGG_ERRORS`, `PARSE_ERRORS`, `DROPS`) or under `"uncounted"`.

*The ledger.* `MetricLedger` has one stage per sample (outside, held, sent, discarded,
lost), the set of samples shared with peers, and whether sharing goes on. A sample
comes in once and leaves once; while sharing goes on, a local sample is sent or
discarded only after it was shared; it is shared at most once, and samples of peers
never are. The mapping takes the stage from `fresh` and the three exits, the shared
samples from `replicated` and the answers waiting in the snapshot channels, and
"sharing" from the phase of the snapshot loop, which ends for good when a worker
died.

*Ingest.* Datagrams have an address and a size. A parsed datagram returns to the
wire so that traffic goes on for ever, which `NotStuck` needs. There is a flush timer
only if `buffer_flush_time` is set. The round-robin index is kept below the number of
workers; the code wraps it at the next use. `arrived` and `ticked` are history
variables. A worker that is gone, whose text is counted in `DROPS`, is in `TaskRunner`
(`SendParse`), not here.

*Leadership.* Raft (external) changes the role at any time. `lock` is the mutex of
`CONSENSUS_STATE`; the Raft thread holds it while it resolves names, and a failed
resolution poisons it. `IS_LEADER` is an atomic and is not protected by the lock.
A query of the client is followed from sending to printing; the client may go away.
A request that is answered without a look at the state (`GET /`, and what is refused) is
one kind of request, `Bad`.

*Consul.* Time is counted in ticks, and what can be done at once is done before the
next tick. Consul (external) is its sessions and the holder of one lock; the session
of a node has the node's name, and of the sessions a node has forgotten only one that
still holds the lock matters. An answer or an error comes within `MaxRtt` ticks, and a
node meets at most `MaxErrors` errors in a row. As `MaxRtt` is shorter than the TTL, which is
also the timeout of `session/create`, an answer never races that timeout: the timeout is
an error like others. `heard` and `skipped` are history
variables: they tell the nodes that lead on the word of Consul from those an
operator made leaders or that let a session end while disabled.

*Cluster.* A node is reduced to what `MetricLedger` says of it: a copy of a sample is
in the short or the long cache, sent, discarded or missed. A snapshot has one sender
for every peer, with a bounded number of senders under way on a link (`Client`).
Senders of empty snapshots are left out. A message is one unit: the code counts a
message as read only when all of it has arrived. A listener of the peer server that
is being restarted (`main.rs:236-245`) shows as failing tries. A crash takes caches,
senders and counters; what the kernel has of a message still arrives. A node has one
counting thread, which may also die alone: the process goes on, what comes in is dropped,
delivered snapshots are lost with a warning, and the next tick of the snapshot loop fails,
counts two errors (`peer.rs:215`, `main.rs:229`) and ends the loop. A report of the own
statistics is two steps, the swap of the counter (`GetStats`) and the spawned send to the
worker (`SendStats`), which fails with a warning when the worker is gone.

*Carbon.* Metrics are numbered; a client's connection counts what was written and
what the backend has read. Delays are numbers; time passes by `Elapse`.

## 3. Runs

| Run | Instance | Distinct states | Shows |
|---|---|---|---|
| `pipeline_workers` | 2 workers of which one may die, 1 round, 2 samples of one name and different types, one of them a peer's, common mode, fair | 252,932 | `TypeOK`, `IndInv`, `OneTypePerName`, `NoUncountedLoss`, `Settles`, `ImplementsLedger` |
| `pipeline_overlap` | 1 worker, 2 overlapping rounds, 3 samples, one of them a peer's, all three modes | 1,717,432 | `CountedOnce`, `ReplicatedOnce`, `ReplicatedBeforeRotated` |
| `parse_pieces` | datagrams of 1 or 2 pieces, 2 addresses, any order | 400,426 | `PiecewiseIsWhole`, `ForgottenBySilence`, `FirstTypeStays` |
| `leadership` | all 12 commands, status and bad queries, failing resolution, fair | 271,737 | `TypeOK`, `FollowsRaftUntouched`, `ForcedStays`, `PrintedIsApplied`, `QueryEnds` |
| `consul` | 2 nodes, one started as leader and one that gets commands; TTL 4, all other times 1, one error in a row, fair | 1,174,551 | `TypeOK`, `SingleLeader`, `LockKept`, `Elected` |
| `cluster` | 2 nodes, 2 samples received by one, 2 senders one way and 1 the other, 1 retry, statistics on, 1 death of a process or a counting thread, fair | 308,152 | `TypeOK`, `AtMostOnce`, `CopiesAccounted`, `GiveUpsReported`, `EveryNodeSettles`, `LeaderSends` |
| `carbon` | batches of 0, 1, 4, 5 in 2 chunks, 1 retry, fair | 87,729 | `TypeOK`, `TriesInv`, `ChunksPartition`, `WholeChunkSent`, `AllReady` |
| `ingest` | 2 async listeners on one thread or on two, one alone, or one multimessage thread, the last two with consistent parsing; one empty datagram, errors, 2 workers | 64,224 | `TypeOK`, `ReadOnce`, `CounterIsHeld`, `LossBounded`, `InArrivalOrder`, `FlushedAfterTick` |

What they show, in words:

* Every sample a node got is at any moment in exactly one queue, cache, channel,
  output or counter. While no worker dies it leaves (`Settles`), and it is not lost
  without being counted (`NoUncountedLoss`).
* Every step of the threads of a node is a step of `MetricLedger` (`ImplementsLedger`).
* No peer counts a sample twice (`AtMostOnce`). A retry is safe because a failed try
  left at most a part of a message, of which the peer makes nothing. The price is that
  delivery is at most once: a copy can be missed, and `CopiesAccounted` lists when.
* As long as errors and delays are within their bounds, two nodes that got their leader
  state from Consul never lead together (`SingleLeader`): what a leader is wrong about
  after losing its session is shorter than the TTL and the LockDelay together. The
  bounds matter: with a TTL of 3 in the same instance, or with more errors in a row,
  TLC finds two leaders.
* A paused node keeps its session, as `doc/consensus.md` promises (`LockKept`). A node
  that is disabled and enabled again just before its session ends can lose it while it
  works with it, which is why the property leaves out sessions with a skipped beat.
* A listener that ends takes its buffers with it and nothing counts them, but they are
  always less than `buffer_flush_length` bytes (`LossBounded`). A listener that has its
  thread, and so its flag, to itself flushes with the first datagram after a tick
  (`FlushedAfterTick`); one that shares it may never do so (`ingest_stuck` below).
* The error statistics lose nothing between the swap, the spawned send and the tries that
  fail meanwhile, as long as the worker they are sent to lives (`GiveUpsReported`).
* In `Leadership` and `Consul` the type invariant also says what the two threads may find:
  the lock is with the Raft thread exactly while that starts and poisoned exactly if it died
  there, and the next beat of a session is never further away than the renew time.

The following runs are expected to fail. Each states what a document, a comment or
a message of the repository says, and TLC finds a behaviour of the code that does
otherwise.

| Run | Statement | What the code does |
|---|---|---|
| `pipeline_separate_loss` | separate mode aggregates all metrics (`doc/aggregation.md`) | `aggregate_task` needs a `current_thread` executor, which rayon threads do not have; the carbon thread panics and the round is lost |
| `leadership_pause_race` | a paused consensus has no influence on leadership (`doc/consensus.md`) | a notification past the check of `switch_leader` stores after the pause |
| `carbon_few` | the metric array is split into chunks (`config.rs`) | fewer metrics than chunks give a chunk size of 0, and `slice::chunks` panics |
| `ingest_stuck` | the flush timer keeps metrics from getting stuck (`config.rs`) | another listener of the thread takes the flag each time |

Other differences met while modelling; the modules follow the code, and no run
asks about them:

* `doc/consensus.md:24` says "The leader node selected by Raft will be the Bioyino
  leader node."; `switch_leader` (`util.rs:117`) drops a notification that comes
  during a pause, and resuming does not make up for it (`SwitchCheck`, `SetState`).
* `main.rs:261` warns that more than one leader is possible "before consensus settle
  up"; a node started as leader that Raft leaves a follower gets no notification
  and stays leader (`Init`, `StateChanged` of `Leadership`).
* `doc/consensus.md:20-21` says "the worst case must consider that leader will be wrong
  for around this time" (of the session's TTL); the requests to renew and to acquire
  have no timeout (`consul.rs:202`), so a Consul that accepts connections and does not
  answer keeps a leader for as long. `MaxRtt` rules this out in `Consul`.
* The comment at `peer.rs:223` says "All nodes have to receive the same metrics"; they
  do not after a sender gave up or a connection broke with a flushed message
  (`SendFails`, `Break` of `Cluster`).
* `config.rs:152` says "Multiply delay to this value for each consequent connection
  failure"; the initial delay is multiplied every time (`NextDelay`).
* `examples/cluster.toml:40` says a batch "will be split to 8 parallel connections"
  with `chunks = 8`; a batch that is no multiple of `chunks` needs more
  (`ChunkCount`).
* `config.toml:133` says the flush length is raised to `mm-packets*bufsize` in
  multimessage mode; it is used as configured (`ShouldFlush`).

### Bounds

Two workers are enough for a partial failure (one answers, one is dead), for two
caches with conflicting types, and for round-robin to wrap. Two rounds are enough
for rotations to overlap; a third only repeats what the second does. Three samples
give a local one, one of a peer, and one in conflict with them. `MaxTimes` is 1 or 2
instead of 5: the comparison, its reset and its boundary are reached with 2.
`MaxUnparsed` is 1, so that an unfinished line that is too long occurs. `Data`,
`List`, `Route`, `MaxDead`, `MaxCrashes`, `Batch` and `Command` bound the inputs and are
named in the modules that declare them. `MaxReported` bounds the errors a node reports: with
1 a report is made between the first and the second failed try of a sender, and errors
are added while its send is under way. A slot of `Round` or of `Client` is used again,
so the number of rotations and of snapshots is not bounded; that of timer ticks is not
either. `ParseText` allows one queued `Rotate` per worker. Symmetry is used for `Round`
only, and only in a run without temporal properties. `DelayMax` in `carbon` is below
`Delay * Mul`, so that the maximum is applied. In `consul` the TTL is four times the
renew time (by default it is eleven times), so that a late answer, an error
and a pause fit into one session and a second error does not. In `cluster` the two
senders from the node that receives overlap and overtake each other, the sender of the
other node is what would send samples back, and one crash hits either end at any
moment; what a second crash does to samples received later the first has done.

### Fairness

`Pipeline`: workers run queued tasks, timers tick and carbon threads go on (threads
are scheduled by the operating system and the runtime polls what is ready).
Nothing is assumed of arrivals, of panics, or of leadership.
`Leadership`: both threads and the client go on; nothing is assumed of Raft or of
operators. `Consul`: time passes and what is due is done; `Elected` assumes in its own
premise that operators leave all nodes enabled and that errors stop.
`Cluster`: timers tick, a try ends one way or the other since the kernel gives up at
last, and what has arrived is read; one weakly fair disjunction suffices, as each of
its steps uses up a stage, a try or a message. No death, report or change of the leader
is assumed. `LeaderSends` assumes in its premise that one node leads alone.
`Carbon`: the runtime polls, timers fire, and a connection that does not break is
read. `Ingest`, in `ingest_stuck`: the timer ticks, workers run, and a datagram on the wire is read by
*some* listener. Which one is up to the kernel, so no listener is promised traffic.
The run `leadership` switches the deadlock check off since the process really ends when
the poisoned mutex is unwrapped; `ingest` since without a timer nothing happens any more
when all listeners have ended.

## 4. Proofs

All theorems hold for every value of the constants that meets the named assumptions
of the modules (`ConstantsAssumption`, `PipelineAssumption`, `DataAssumption`,
`IngestAssumption`, `LeadershipAssumption`, `ConsulAssumption`, `RetryAssumption`,
`ClusterAssumption`, `CarbonAssumption`), which TLC
evaluates in the runs. Two theorems about `Consul` have a hypothesis of their own.

### The pipeline (`PipelineProofs`)

* `TypeCorrect`: `Spec => []TypeOK`. `TypeOK` is inductive.
* `Inductive`: `Spec => []IndInv`, where `IndInv` is `TypeOK /\ TextInv /\ RoundInv /\
  CountedOnce`, the conjunction that `pipeline_workers` checks on an instance.
* `EverySampleOnce`: `Spec => []CountedOnce`. A sample is always in exactly one queue,
  cache, channel, output or counter.
* `OneType`: `Spec => []OneTypePerName`. No cache mixes types under a name.
* `LossesAreCounted`: `Spec => []NoUncountedLoss`, under the assumption that separate mode
  is not configured (the run `pipeline_separate_loss` shows why it is needed).

`CountedOnce` alone is not inductive. It needs to know that

* kept text holds only unfinished lines and a task holds no piece twice (`TextInv`);
  otherwise a line could end twice in the text of one Parse, or once in each of two;
* a reply channel that is not full is empty, and is closed once folded (first part of
  `RoundInv`); otherwise answering, cancelling or reopening a channel could overwrite
  samples;
* a carbon thread that has not rotated, or is not the leader, has accumulated nothing
  (last part of `RoundInv`); otherwise a follower that finishes would drop samples.

The argument. `Places(s)` is a union of ten sets. `PipelineLemmas` has one predicate
for each (`InFresh`, `InQueue`, ...), and shows that `CountedOnce` says: for
every sample exactly one triple of kind and coordinates has its predicate true
(`OnceForm`). Then there is one lemma per action (`ParseOnce`, `RotateOnce`, `FoldOnce`, ...). Each says how
the step changes the predicates and splits on whether the sample is moved. If it is
not, `Stays` applies, or `StaysWhenTaken` when the worker takes a task and the rest of
its queue moves forward by one. If it is, the new triple is named and shown to be the
only one. `ParseOnce` rests on `ParsedOrBroken`: a line that ends once in a text is
yielded by the parser or skipped as broken, and not both. That the text a Parse leaves
ends no line is `UnparsedHeads`: the positions from which no line ends any more have a
smallest one (`Smallest`), and the parser leaves the text from there. `PipelineLemmas` has the
types after every action and the steps of `RoundInv` and of the second half of `TextInv`.

`OneTypePerName` is inductive with the types. Its one hard step is a list that goes into a
cache: of two samples in conflict that were let in, the one that comes first in the list
has refused the other, which takes the first position of a name (`Smallest` again, from
the well-foundedness of the naturals). `NoUncountedLoss` is not inductive. `LossInv` adds,
for every carbon thread and worker (`LinkOK`), that their channel is not cancelled, that it
is open as long as the `Rotate` is not sent or waits in the queue, that there is one
such task at most, and that the thread then still waits for the answer. So a worker that
answers finds the receiver, and no fold is aborted. Each action has a lemma that keeps this.

### Snapshots and the refinement (`PipelineProofs`)

* `SnapshotsOnce`: `Spec => []ReplicatedOnce`.
* `SharedBeforeRotated`: `Spec => []ReplicatedBeforeRotated`.
* `KeepsLedger`: `Spec => ImplementsLedger`, the refinement for every instance.

The invariant is `LedgerInv == OnceInv /\ ShareInv`. `ShareInv` says

* of every sample (`ShareOK`): one that a snapshot has is not outside, in a short cache or
  in a task that will put it there, and is no peer's; a peer's is never in a short cache;
  and one that is past the short caches (`Late`) is a peer's or a snapshot has it, as long
  as snapshots go on;
* of every worker (`ChannelOK`): there is at most one `TakeSnapshot` in its queue, and its
  channel is open while there is one. Without it a late answer could go to the
  channel of the next snapshot;
* `ReplicatedOnce` itself.

The argument has two halves. No step but `TakeSnapshot` moves a sample back to where it
could be shared again (`Onward`, one lemma per action), so `ShareOK` is kept by all of
them (`OnwardShares`); `TakeSnapshot`, the end of the snapshot loop and deaths are done by
hand (`TakeSnapshotShares`, `SnapshotShares`, `DieShares`). For the refinement, the stage of
a sample is a function of `fresh` and the three exits alone, so a step falls into one of
five classes: samples arrive, are lost, are settled, are shared, or sharing stops. For
each class one lemma names the set of samples that move and the step of `MetricLedger`
(`ArrivalStep`, `LossStep`, `SettleStep`, `ShareLedgerStep`), and every action is put into its
class.

The facts that only one lemma needs (most of the lemmas per action named here) are
named steps of that lemma, at the head of its proof.

### Text (`ParseTextProofs`)

* `TextInductive`: `Spec => []TextInv`.
* `WholeLines`: `Spec => []PiecewiseIsWhole`, for any texts cut at any places.
* `SilenceForgets`: `Spec => []ForgottenBySilence`, for every `MaxTimes`.
* `FirstTypeDecides`: `Spec => []FirstTypeStays`, for every text and cache.

`TextInv` is `PiecewiseIsWhole`, the types, and two facts it needs: the age in an entry is the
number of rotations since the last text (`AgeAt`), and the unfinished line of the history is
not too long, so that what the worker keeps is all of it. The argument for a `Parse` is a
*cut*. The text of an address is a part that ends with a line, followed by the unfinished
line (`KeptCut`); the parser looks back no further than the line a piece belongs to, so a
position after the cut is parsed as if nothing came before (`CutFirst`, `CutUnparsed`,
`CutParses`), and one before it as if nothing came after (`PrefixParses`). Together the lines of
the whole text are those of the earlier text and those of the kept line with the new
data (`WholeText`). `GivesUp` says when the parser drops a line that is too long.

`FirstTypeStays` is inductive with the types. Its step is a `Parse` whose text has several
metrics of one name: of two in conflict only the one that comes first can be let in, and one
that is refused is in conflict with a metric of the cache or with an earlier one of
the text. The earliest metric of its name in the text (`Smallest`) is then in the cache, and
has the other type.

### Listeners (`IngestProofs`)

* `IngestInductive`: `Spec => []IngestInv`.
* `IngestTypeOK`, `IngestReadOnce`, `IngestCounterIsHeld`, `IngestLossBounded`,
  `IngestInArrivalOrder` and `IngestFlushedAfterTick` prove the six invariants of the run
  `ingest` for any listeners, threads, workers, addresses, datagrams, batches and sizes.

The first lemmas are about joining sequences. `Joined` is a recursive function; what it is for
sequences of any length is shown by induction over the numbers up to the length (`UpTo`, from
the well-foundedness of the naturals). The invariant `IngestInv` says where every datagram is: a
function `own` gives the one place of each (`Placed`). A buffer holds a datagram once and only those
of its address, and the counter is the number of bytes held. A flush takes every buffer to
exactly one task, because the order in which the map is drained is a bijection (`FlushPlaced`).
The counter stays exact because the bytes of disjoint sets add up (`Counting`; `Bytes` is a
cardinality). `InArrivalOrder` is part of the invariant: what an end or a `Parse` takes away is
exactly what `Without` takes out of the history. Two invariants are shown alongside it. `LossInv`:
when a listener ends, the ended listeners are one more and the loss grows by less than the
flush length. `TickInv`: what was held at the last tick is not on the wire, so a listener that
reads a datagram never gets one of those back.

### Leadership (`LeadershipProofs`)

`TypeCorrect`, `FollowsRaft`, `OperatorWins` and `PrintedState` prove `TypeOK`,
`FollowsRaftUntouched`, `ForcedStays` and `PrintedIsApplied` for any set of commands. The
inductive invariant `IInv` adds what the two threads know of each other between their
steps: what a notification that has passed the check will store (`RaftInv`), that a
forced state goes with a consensus that is not enabled and with no notification past its
check (`ForcedInv`), and what the server has already applied of the
request it is at (`QueryInv`). It has one step per action under each conjunct.

### Consul (`ConsulProofs`)

* `TypeCorrect`: `Spec => []TypeOK`, with `LoopInv`: a session, a lock and requests under
  way belong to certain places of the loop.
* `LockIsKept`: `Spec => []LockKept` if `RenewsInTime`, that is `2 * MaxRtt + RenewTime < TTL`.
* `OneLeader`: `Spec => []SingleLeader` if `RetriesInTime`, that is `MaxErrors <= 1` and
  `ErrorPause + 2 * MaxRtt + RenewTime <= TTL`.

All three are for any number of nodes and for operators that command at any time. The
two hypotheses say what the configuration has to meet. They hold in the run
`consul`, whose TTL is the smallest one they allow.

`LockKept` needs to know how old a session can be at every place of the loop. `LeaseInv`
gives, for a session that was created, for one whose renewal is under way and for one that
waits for the next beat, a lower bound of the ticks it has left: more than the longest
way to the next answer of Consul.

`SingleLeader` is about a leader that lost its session: its requests failed, the loop started
anew, and until Consul answers the first `acquire` of the new session it goes on as leader.
The invariant `IInv` adds that every such node is `Backed`: it still holds the lock, or
nobody can take the lock for `FreeAfter` ticks (what is left of the forgotten session and its
LockDelay, or what is left of the LockDelay) and the node is told within fewer ticks than that
(`AnsweredWithin`, which follows the loop from the error pause through the new session to
the answer). A tick takes one from both sides; an error adds the error pause to the second,
which is why one error is allowed between two answers. Every action has one lemma for its effect
on the loop (`...Effect`, all in the form of `Becomes`), and the invariants are shown from those.

### Carbon (`CarbonProofs`)

`TypeCorrect`, `TriesCounted`, `EveryMetricOneChunk` and `ChunkArrives` prove `TypeOK`, `TriesInv`,
`ChunksPartition` and `WholeChunkSent` for every batch, number of chunks, and number of
retries. The first lemmas are the arithmetic of `slice::chunks`: chunks are intervals that do
not overlap and cover the batch (`ChunkCounts`, `ChunkShape`, `ChunkOf`), also when the last one
is shorter. The inductive invariant `IInv` ties what the backend got of a metric to the
client of its chunk (`GotInv`): at most once per try, and in the present try exactly what has
been read of the connection; `PhaseInv` and `ConnInv` say which clients work, and what a
client without a connection, or one that is done, has written.

### Cluster (`ClusterProofs`)

`TypeCorrect`, `NoDuplicates` and `EveryCopy` prove `TypeOK`, `AtMostOnce` and `CopiesAccounted`
for any set of nodes, samples, senders, retries and deaths. The inductive invariant
`CInv` links the counter `got` to the stage (`StageInv`), says that what a sender carries is at
home on its node and left the short cache there, that the peer has none of it, and that
no other sender to this peer carries it (`MsgInv`), and that what a node does not have
although its home has shared it is on its way (`ArrivedInv`). `LinkInv` and `RetryInv` are
about connections and retries. `GoneStep` is the one lemma behind delivery, giving up and a
broken connection: a snapshot under way ceases to be, and its samples get a stage at
the peer. `LoseStep` is its counterpart for the death of a counting thread or a process: caches
are gone, and the nodes that were not sent what was in them miss it. `SnapTick` and `Crash`, which
touch many senders at once, have lemmas of their own.

`ErrorsReported` proves `GiveUpsReported`, which is not inductive: a sender that gives up adds
one error and `Retries + 1` to the other side. What makes up for it are the failed tries of
the senders that go on. `OwedInv` counts them as the cardinality of the set `Owed(n)` of
pairs of a sender and a used retry, so that a failed try adds one element, giving up takes
`Retries` elements away, and no sum over senders is needed. A swap moves errors to those on
their way and a send moves these to the reported ones, so the sum of the three stays.

### What the prover is not asked

Left to TLC: all liveness properties (fairness and ENABLED are beyond the prover). Every
invariant that a passing run checks is proved. Checking all proofs from nothing takes about three
quarters of an hour. Many leaves name `Zenon`: it decides them without
arithmetic, and their preparation is much shorter than that for the SMT solver, which
matters as the prover limits it to five seconds. A few name a time limit.

## 5. Not modelled

* The values of aggregated metrics and their text format. With them goes what a gauge is
  when an older snapshot of a peer arrives after a newer one.
* Decoding of messages in the peer server; what it does with each kind of message is in
  `TaskRunner` and `Pipeline`, and when a whole message arrives in `Cluster`.
* Own statistics other than `PEER_ERRORS`, which are swapped and reported in the same way;
  what they should count is the variable `lost` of `Pipeline`.
* The capacity of a task queue (`main.rs:196`): sending through a fresh clone makes the queue
  unbounded, `Enqueue` says so, and there is no bound to state.
* A request to Consul that is never answered, and an answer to `session/create` that comes just
  when its timeout does, see `MaxRtt` above.
* Errors of the carbon timer and thread before a round begins: a clock before 1970 and a name
  that cannot be resolved (`main.rs:334-336`), which end the timer or the main thread, and a runtime
  that cannot be created (`main.rs:350-356`), which skips the round. Nothing is taken from the
  workers then.
* A value that cannot be formatted (`carbon.rs:48-51`), which is left out of its chunk and
  counted in `AGG_ERRORS`.
* Configuration and command line parsing, error types, logging, DNS and socket setup:
  static data and I/O without state changes the properties could see.
* `bigint.rs`, which is not compiled.
* Raft (`raft_tokio`), Consul, the metric parser, `futures`, `hyper`, `rayon`, the kernel and
  the carbon backend are external and appear only as the code in `src/` uses them.

## 6. Plan

Done: all parts of section 1 but the static ones; the refinement of `MetricLedger` by
`Pipeline`, checked and proved; theorems for every safety property that a passing run checks.

Possible next:

1. `SingleLeader` for more than one error in a row, with the hypothesis it needs
   (`RetriesInTime` as it stands is what one error costs).
2. The step from `Cluster` to one `MetricLedger` per node, which needs a history variable
   for what a crash takes out of the shared samples.
3. `Ingest` and `Pipeline` together, with the text of a flushed buffer as the data of a
   `Parse`.
