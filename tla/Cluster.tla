------------------------------- MODULE Cluster -------------------------------
(***************************************************************************)
(* Several nodes that copy what they receive to each other (peer.rs), over *)
(* connections that break and between processes that crash.  A node is     *)
(* what MetricLedger promises of it: samples come in, are shared once, and *)
(* leave with a rotation.  A node has one counting thread here, which may  *)
(* die alone; several of them, and the threads of a round, are in Pipeline.*)
(*                                                                         *)
(* Every snapshot has one retrying SnapshotSender per peer, and the next   *)
(* snapshot does not wait for the senders of the last one.  The statistics *)
(* of a node (OwnStats, util.rs) are modelled for PEER_ERRORS.             *)
(***************************************************************************)
EXTENDS BackoffRetry, FiniteSets

CONSTANTS
    Node,
    Sample,         \* metric readings that reach the cluster
    Home,           \* the node that receives a sample
    StatsInterval,  \* values of s_interval a node may be configured with
    MaxReported,    \* errors a node reports as metrics (bound)
    MaxCrashes      \* processes and counting threads that die (bound)

\* A client is one of the senders a node may have under way to a peer (bound).
ASSUME ClusterAssumption ==
    /\ \A c \in Client : c.from \in Node /\ c.to \in Node \ {c.from}
    /\ Home \in [Sample -> Node]
    /\ StatsInterval \subseteq Nat
    /\ MaxReported \in Nat /\ MaxCrashes \in Nat

VARIABLES
    stage,      \* stage[n][s]: what became of the copy of s on node n
    got,        \* got[n][s]: how often s was put into a cache of n
    leader,     \* the nodes with IS_LEADER set
    worker,     \* the counting thread; "ended": dead, and the loop of
                \*   snapshots has ended over it
    msg,        \* the snapshot of a sender
    conn,       \* its connection
    errors,     \* PEER_ERRORS
    sending,    \* sum of the peer-error metrics on their way to the worker
    reported,   \* sum of the peer-error metrics the worker has got
    givenUp,    \* senders of a node that gave up
    interval,   \* s_interval
    crashes

nodeVars == <<stage, got, leader, worker>>

linkVars == <<msg, conn>>

statVars == <<errors, sending, reported, givenUp, interval>>

vars == <<retryVars, nodeVars, linkVars, statVars, crashes>>

\* "missed": the copy will never come, or went with the process.
Stage == {"none", "short", "long", "sent", "discarded", "missed"}

Zero == [n \in Node |-> 0]

Init ==
    /\ RetryInit
    /\ stage = [n \in Node |-> [s \in Sample |-> "none"]]
    /\ got = [n \in Node |-> [s \in Sample |-> 0]]
    /\ leader \in SUBSET Node
    /\ worker = [n \in Node |-> "runs"]
    /\ msg = [c \in Client |-> {}]
    /\ conn = [c \in Client |-> "none"]
    /\ errors = Zero /\ sending = Zero /\ reported = Zero /\ givenUp = Zero
    /\ interval \in StatsInterval
    /\ crashes = 0

At(n, stages) == {s \in Sample : stage[n][s] \in stages}

\* The samples of S go to stage x on node n.
Put(n, S, x) == [stage EXCEPT ![n] = [s \in Sample |-> IF s \in S THEN x ELSE @[s]]]

Count(n, S) == [got EXCEPT ![n] = [s \in Sample |-> IF s \in S THEN @[s] + 1 ELSE @[s]]]

-----------------------------------------------------------------------------
(* A node. *)

\* A reading comes in; without a worker it is dropped, for all nodes.
Receive(s) ==
    LET n == Home[s]
    IN  /\ stage[n][s] = "none"
        /\ IF worker[n] = "runs"
             THEN stage' = Put(n, {s}, "short") /\ got' = Count(n, {s})
             ELSE stage' = [m \in Node |-> [stage[m] EXCEPT ![s] = "missed"]] /\ got' = got
        /\ UNCHANGED <<retryVars, leader, worker, linkVars, statVars, crashes>>

Free(c) == inner[c] = "idle" /\ conn[c] = "none"

\* The place a new sender from n to m takes.
Slot(n, m) == CHOOSE c \in Client : c.from = n /\ c.to = m /\ Free(c)

\* Mutant of SnapTick: a peer whose last sender is still busy is left out.
SnapTick_Skips(n) ==
    LET new  == At(n, {"short"})
        busy(m) == \E c \in Client : c.from = n /\ c.to = m /\ ~Free(c)
        S    == {Slot(n, m) : m \in {p \in Node \ {n} : ~busy(p)}}
    IN  /\ new # {}
        /\ \A m \in Node \ {n} : \E c \in Client : c.from = n /\ c.to = m /\ Free(c)
        /\ Spawn(S)
        /\ msg' = [c \in Client |-> IF c \in S THEN new ELSE msg[c]]
        /\ stage' = Put(n, new, "long")
        /\ UNCHANGED <<got, leader, worker, conn, statVars, crashes>>

\* The interval ticks: short goes to long and, the same for all peers, to a
\* sender per peer.  Senders of empty snapshots, which run too, are left out.
SnapTick(n) ==
    LET new == At(n, {"short"})
        S   == {Slot(n, m) : m \in Node \ {n}}
    IN  /\ new # {}
        /\ \A m \in Node \ {n} : \E c \in Client : c.from = n /\ c.to = m /\ Free(c)
        /\ Spawn(S)
        /\ msg' = [c \in Client |-> IF c \in S THEN new ELSE msg[c]]
        /\ stage' = Put(n, new, "long")
        /\ UNCHANGED <<got, leader, worker, conn, statVars, crashes>>

\* The interval ticks and the worker is gone: the snapshot fails, which both
\* the loop and the one that spawned it count, and the loop ends.
SnapFails(n) ==
    /\ worker[n] = "dead"
    /\ worker' = [worker EXCEPT ![n] = "ended"]
    /\ errors' = [errors EXCEPT ![n] = @ + 2]
    /\ UNCHANGED <<retryVars, stage, got, leader, linkVars, sending, reported, givenUp, interval, crashes>>

\* Mutant of Rotate: IS_LEADER is compared the wrong way round.
Rotate_Inverted(n) ==
    /\ At(n, {"long"}) # {}
    /\ stage' = Put(n, At(n, {"long"}), IF n \in leader THEN "discarded" ELSE "sent")
    /\ UNCHANGED <<retryVars, got, leader, worker, linkVars, statVars, crashes>>

\* A carbon thread rotates the node.
Rotate(n) ==
    /\ At(n, {"long"}) # {}
    /\ stage' = Put(n, At(n, {"long"}), IF n \in leader THEN "sent" ELSE "discarded")
    /\ UNCHANGED <<retryVars, got, leader, worker, linkVars, statVars, crashes>>

\* The consensus or an operator changes IS_LEADER.
SetLeader(n) ==
    /\ leader' = IF n \in leader THEN leader \ {n} ELSE leader \cup {n}
    /\ UNCHANGED <<retryVars, stage, got, worker, linkVars, statVars, crashes>>

\* OwnStats: the counter is swapped with 0 and a send of its value to worker 0,
\* as a counter metric, is spawned; with s_interval = 0 it is thrown away.
GetStats(n) ==
    /\ errors[n] > 0 /\ errors[n] + sending[n] + reported[n] <= MaxReported
    /\ errors' = [errors EXCEPT ![n] = 0]
    /\ sending' = [sending EXCEPT ![n] = IF interval > 0 THEN @ + errors[n] ELSE @]
    /\ UNCHANGED <<retryVars, nodeVars, linkVars, reported, givenUp, interval, crashes>>

\* Mutant of SendStats: the counter is cleared when the send is done.
SendStats_Clears(n) ==
    /\ sending[n] > 0
    /\ sending' = [sending EXCEPT ![n] = 0]
    /\ errors' = [errors EXCEPT ![n] = 0]
    /\ reported' = [reported EXCEPT ![n] = IF worker[n] = "runs" THEN @ + sending[n] ELSE @]
    /\ UNCHANGED <<retryVars, nodeVars, linkVars, givenUp, interval, crashes>>

\* The spawned sends run: without a worker they fail with a warning.
SendStats(n) ==
    /\ sending[n] > 0
    /\ sending' = [sending EXCEPT ![n] = 0]
    /\ reported' = [reported EXCEPT ![n] = IF worker[n] = "runs" THEN @ + sending[n] ELSE @]
    /\ UNCHANGED <<retryVars, nodeVars, linkVars, errors, givenUp, interval, crashes>>

-----------------------------------------------------------------------------
(* The sender c of a snapshot: connect, write one message, done.           *)
(*   "open"     connected, the message is not yet written as a whole       *)
(*   "broken"   like open, but the peer's end is gone                      *)
(*   "flushed"  the kernel has all of the message, the peer has not        *)

Missing(n, S) == Put(n, S, "missed")

Connect(c) ==
    /\ inner[c] = "action" /\ conn[c] = "none"
    /\ conn' = [conn EXCEPT ![c] = "open"]
    /\ UNCHANGED <<retryVars, nodeVars, msg, statVars, crashes>>

\* Mutant of Flush: the connection is kept for later.
Flush_KeepsOpen(c) ==
    /\ conn[c] \in {"open", "broken"}
    /\ Drop(c)
    /\ UNCHANGED <<nodeVars, linkVars, statVars, crashes>>

\* codec.send is ready when the kernel has taken the last byte, whatever
\* happens to the connection after that.
Flush(c) ==
    /\ conn[c] \in {"open", "broken"}
    /\ Drop(c)
    /\ IF conn[c] = "open"
         THEN conn' = [conn EXCEPT ![c] = "flushed"] /\ UNCHANGED <<msg, stage>>
         ELSE /\ conn' = [conn EXCEPT ![c] = "none"]
              /\ msg' = [msg EXCEPT ![c] = {}]
              /\ stage' = Missing(c.to, msg[c])
    /\ UNCHANGED <<got, leader, worker, statVars, crashes>>

\* Connecting or writing fails, with a part of the message written at most:
\* the peer makes nothing of it.  The error is counted; after the last retry
\* the sender is removed.
SendFails(c) ==
    LET n    == c.from
        last == retries[c] = 0
    IN  /\ inner[c] = "action"
        /\ IF last THEN Drop(c) ELSE Fail(c)
        /\ conn' = [conn EXCEPT ![c] = "none"]
        /\ msg' = [msg EXCEPT ![c] = IF last THEN {} ELSE @]
        /\ stage' = IF last THEN Missing(c.to, msg[c]) ELSE stage
        /\ errors' = [errors EXCEPT ![n] = @ + 1]
        /\ givenUp' = [givenUp EXCEPT ![n] = IF last THEN @ + 1 ELSE @]
        /\ UNCHANGED <<got, leader, worker, sending, reported, interval, crashes>>

Retry(c) ==
    /\ Elapse(c)
    /\ UNCHANGED <<nodeVars, linkVars, statVars, crashes>>

-----------------------------------------------------------------------------
(* The peer server of a node. *)

\* Mutant of Deliver: the snapshot goes to the short cache.
Deliver_Short(c) ==
    /\ conn[c] = "flushed"
    /\ IF worker[c.to] = "runs"
         THEN stage' = Put(c.to, msg[c], "short") /\ got' = Count(c.to, msg[c])
         ELSE stage' = Missing(c.to, msg[c]) /\ got' = got
    /\ conn' = [conn EXCEPT ![c] = "none"]
    /\ msg' = [msg EXCEPT ![c] = {}]
    /\ UNCHANGED <<retryVars, leader, worker, statVars, crashes>>

\* The receiver of the connection has the whole message: parse_and_send hands
\* an AddSnapshot to the first worker, or loses it with a warning.
Deliver(c) ==
    /\ conn[c] = "flushed"
    /\ IF worker[c.to] = "runs"
         THEN stage' = Put(c.to, msg[c], "long") /\ got' = Count(c.to, msg[c])
         ELSE stage' = Missing(c.to, msg[c]) /\ got' = got
    /\ conn' = [conn EXCEPT ![c] = "none"]
    /\ msg' = [msg EXCEPT ![c] = {}]
    /\ UNCHANGED <<retryVars, leader, worker, statVars, crashes>>

-----------------------------------------------------------------------------
(* Faults. *)

Broken(c) == IF conn[c] = "open" THEN "broken" ELSE IF conn[c] = "flushed" THEN "none" ELSE conn[c]

\* The network breaks a connection.  The sender of a flushed message is gone
\* and hears nothing of it.
Break(c) ==
    /\ conn[c] \in {"open", "flushed"}
    /\ conn' = [conn EXCEPT ![c] = Broken(c)]
    /\ IF conn[c] = "flushed"
         THEN stage' = Missing(c.to, msg[c]) /\ msg' = [msg EXCEPT ![c] = {}]
         ELSE UNCHANGED <<stage, msg>>
    /\ UNCHANGED <<retryVars, got, leader, worker, statVars, crashes>>

\* The copies node m misses when the caches of node n are gone: its own, or
\* those n will not share.
Uncached(n, m) ==
    IF m = n THEN At(n, {"short", "long"}) ELSE At(n, {"short"}) \ At(m, Stage \ {"none"})

\* A panic ends the counting thread of n; the process runs on.
WorkerDies(n) ==
    /\ worker[n] = "runs" /\ crashes < MaxCrashes
    /\ crashes' = crashes + 1
    /\ worker' = [worker EXCEPT ![n] = "dead"]
    /\ stage' = [m \in Node |-> [s \in Sample |-> IF s \in Uncached(n, m) THEN "missed" ELSE stage[m][s]]]
    /\ UNCHANGED <<retryVars, got, leader, linkVars, statVars>>

\* The process of node n dies with its caches, senders and counters and is
\* started again, as a leader or not.  What the kernel has of a message still
\* arrives.
Crash(n) ==
    LET dying    == {c \in Client : c.from = n /\ inner[c] # "idle"}
        cut      == {c \in Client : c.to = n /\ conn[c] = "flushed"}
        unsent(m) == UNION {msg[c] : c \in {d \in dying : d.to = m}}
        gone(m)  == Uncached(n, m) \cup (IF m = n THEN UNION {msg[c] : c \in cut} ELSE unsent(m))
    IN  /\ crashes < MaxCrashes
        /\ crashes' = crashes + 1
        /\ stage' = [m \in Node |-> [s \in Sample |-> IF s \in gone(m) THEN "missed" ELSE stage[m][s]]]
        /\ inner' = [c \in Client |-> IF c \in dying THEN "idle" ELSE inner[c]]
        /\ retries' = [c \in Client |-> IF c \in dying THEN Retries ELSE retries[c]]
        /\ delay' = [c \in Client |-> IF c \in dying THEN 0 ELSE delay[c]]
        /\ tries' = [c \in Client |-> IF c \in dying THEN 0 ELSE tries[c]]
        /\ conn' = [c \in Client |-> IF c \in dying THEN "none"
                                     ELSE IF c.to = n THEN Broken(c) ELSE conn[c]]
        /\ msg' = [c \in Client |-> IF c \in dying \cup cut THEN {} ELSE msg[c]]
        /\ leader' \in {leader \ {n}, leader \cup {n}}
        /\ worker' = [worker EXCEPT ![n] = "runs"]
        /\ errors' = [errors EXCEPT ![n] = 0]
        /\ sending' = [sending EXCEPT ![n] = 0]
        /\ reported' = [reported EXCEPT ![n] = 0]
        /\ givenUp' = [givenUp EXCEPT ![n] = 0]
        /\ UNCHANGED <<got, interval>>

-----------------------------------------------------------------------------
Sender(c) == Connect(c) \/ Flush(c) \/ SendFails(c) \/ Retry(c)

Next ==
    \/ \E s \in Sample : Receive(s)
    \/ \E n \in Node :
          \/ SnapTick(n) \/ SnapFails(n) \/ Rotate(n) \/ SetLeader(n)
          \/ GetStats(n) \/ SendStats(n) \/ WorkerDies(n) \/ Crash(n)
    \/ \E c \in Client : Sender(c) \/ Deliver(c) \/ Break(c)

Spec == Init /\ [][Next]_vars

\* Timers tick, a connection attempt or a write ends one way or the other
\* (the kernel gives up at last), and what has arrived is read.  One of these
\* steps is taken when one can be; that is enough, as each uses up a sample's
\* stage, a try or a message.
Progress ==
    \/ \E n \in Node : SnapTick(n) \/ Rotate(n)
    \/ \E c \in Client : Sender(c) \/ Deliver(c) \/ Break(c)

FairSpec == Spec /\ WF_vars(Progress)

-----------------------------------------------------------------------------
(* Properties. *)

\* A sender has a snapshot only while it has work to do, and a connection
\* outlives it only with a whole message in it.
TypeOK ==
    /\ RetryTypeOK
    /\ stage \in [Node -> [Sample -> Stage]]
    /\ got \in [Node -> [Sample -> 0 .. 2]]
    /\ leader \subseteq Node
    /\ worker \in [Node -> {"runs", "dead", "ended"}]
    /\ msg \in [Client -> SUBSET Sample]
    /\ conn \in [Client -> {"none", "open", "broken", "flushed"}]
    /\ {errors, sending, reported, givenUp} \subseteq [Node -> Nat]
    /\ interval \in StatsInterval
    /\ crashes \in 0 .. MaxCrashes
    /\ \A c \in Client :
           /\ Free(c) => msg[c] = {}
           /\ inner[c] = "idle" => conn[c] \in {"none", "flushed"}

\* However often a snapshot is sent again and whichever senders overtake each
\* other, a node puts a sample into its caches at most once: retries make no
\* duplicates, and a peer does not send back what it got.
AtMostOnce == \A n \in Node, s \in Sample : got[n][s] <= 1

\* A sample that left the short cache of its node is, for every other node, in
\* exactly one sender or connection, or it arrived there, or that node misses
\* it because a sender gave up, a connection broke, or a process or its
\* counting thread died.
CopiesAccounted ==
    \A s \in Sample : \A m \in Node \ {Home[s]} :
        LET onTheWay == {c \in Client : c.to = m /\ s \in msg[c]}
        IN  /\ Cardinality(onTheWay) <= 1
            /\ stage[Home[s]][s] \notin {"none", "short"} =>
                   (onTheWay = {} <=> stage[m][s] # "none")

\* The peer-error metrics of a node that sends statistics, those on their way
\* and the counter of the errors since the last one show, for each sender that
\* gave up, all its tries: none of them disappears between swap, spawned send
\* and failure, as long as the worker that takes the metrics lives.
GiveUpsReported ==
    interval > 0 =>
        \A n \in Node : worker[n] = "runs" =>
            errors[n] + sending[n] + reported[n] >= (Retries + 1) * givenUp[n]

\* The samples that have reached the cluster.
Incoming == {s \in Sample : stage[Home[s]][s] # "none"}

\* Every node gets rid of every sample any node received, by sending or by
\* discarding it, or misses it for one of the reasons above: no sequence of
\* failed tries, broken connections and crashes leaves a copy waiting.
EveryNodeSettles ==
    []<>(\A n \in Node : \A s \in Incoming : stage[n][s] \in {"sent", "discarded", "missed"})

\* While one node leads, alone, every sample of the cluster goes to the backend
\* through that node, or is one the leader misses.
LeaderSends ==
    \A n \in Node :
        [](leader = {n}) => []<>(\A s \in Incoming : stage[n][s] \in {"sent", "missed"})
=============================================================================
