----------------------------- MODULE TaskRunner -----------------------------
(***************************************************************************)
(* The counting workers of bioyino (task.rs): every worker is a thread     *)
(* that owns two metric caches and the unparsed text of every source       *)
(* address, and runs the tasks of its own queue one after another.         *)
(*                                                                         *)
(* A cache maps a metric name to one aggregated metric.  What matters here *)
(* is which readings went into it, so a cache is the SET of readings       *)
(* (samples) aggregated so far; the entry of a name is the subset of the   *)
(* samples with that name.  Text is a sequence of pieces: a whole metric   *)
(* line, or the head or the tail of a line cut by a datagram boundary.     *)
(***************************************************************************)
EXTENDS Naturals, Sequences, FiniteSets

CONSTANTS
    W,          \* w_threads, the number of counting threads
    Round,      \* carbon threads that may be alive at the same time
    Addr,       \* hashes of the addresses datagrams come from
    Sample,     \* metric readings that reach this node
    Peer,       \* the samples that come in snapshots of other nodes
    Split,      \* the samples whose line is cut into a head and a tail
    NameOf,     \* the metric name of a sample
    TypeOf,     \* the metric type of a sample
    MaxTimes,   \* rotations an idle buffer survives, 5 in the code
    MaxUnparsed,\* max_unparsed_buffer, in pieces
    NoBuffer    \* the address has no entry in `buffers`

ASSUME ConstantsAssumption ==
    /\ W \in Nat \ {0}
    /\ MaxTimes \in Nat \ {0}
    /\ MaxUnparsed \in Nat
    /\ Peer \subseteq Sample
    /\ Split \subseteq Sample \ Peer
    /\ DOMAIN NameOf = Sample
    /\ DOMAIN TypeOf = Sample
    /\ NoBuffer \notin [times : Nat, data : Seq([of : Sample, part : {"all", "head", "tail"}])]

VARIABLES
    fresh,      \* pieces of text and metrics that have not reached a queue yet
    queue,      \* the mpsc channel of every worker
    short,      \* metrics received by this node since its last snapshot
    long,       \* metrics waiting for the next rotation
    buffers,    \* text of an address no metric could be parsed from yet
    dead,       \* workers whose thread is gone
    snapRx,     \* the oneshot channels of the running snapshot, one per worker
    rotRx,      \* the oneshot channels of every carbon thread, one per worker
    out,        \* the unbounded channel from aggregate_task to a carbon thread
    lost        \* samples thrown away, by the counter that accounts for them

runnerVars == <<fresh, queue, short, long, buffers, dead, snapRx, rotRx, out, lost>>

Worker == 0 .. W - 1

Counter == {"AGG_ERRORS", "PARSE_ERRORS", "DROPS", "uncounted"}

-----------------------------------------------------------------------------
(* Text and the metric parser, which belongs to the bioyino_metric crate. *)

HeadOf(s) == [of |-> s, part |-> "head"]

\* The piece that ends the line of a sample.
EndOf(s) == [of |-> s, part |-> IF s \in Split THEN "tail" ELSE "all"]

Piece == {EndOf(s) : s \in Sample} \cup {HeadOf(s) : s \in Split}

\* Piece i is the last of its line.
EndsLine(buf, i) == buf[i].part # "head"

\* Piece i is the first of its line.
StartsLine(buf, i) == i = 1 \/ EndsLine(buf, i - 1)

\* The line that ends with piece i is a metric.
Parses(buf, i) ==
    \/ buf[i].part = "all" /\ StartsLine(buf, i)
    \/ /\ buf[i].part = "tail"
       /\ i > 1
       /\ buf[i - 1] = HeadOf(buf[i].of)
       /\ StartsLine(buf, i - 1)

\* What the parser's iterator yields, by position in the text.
Parsed(buf) == [i \in {j \in 1 .. Len(buf) : Parses(buf, j)} |-> buf[i].of]

\* Samples on lines the parser has to skip.
Broken(buf) ==
    {buf[i].of : i \in {j \in 1 .. Len(buf) : EndsLine(buf, j) /\ ~Parses(buf, j)}}

\* What is left in the buffer: the unfinished last line, unless it is too long.
Unparsed(buf) ==
    LET open  == {k \in 1 .. Len(buf) + 1 : \A i \in k .. Len(buf) : ~EndsLine(buf, i)}
        first == CHOOSE k \in open : \A j \in open : k <= j
    IN  IF Len(buf) - first + 1 > MaxUnparsed THEN <<>> ELSE SubSeq(buf, first, Len(buf))

-----------------------------------------------------------------------------
(* Caches. *)

SameName(s, t) == NameOf[s] = NameOf[t]

\* Metric::aggregate refuses to merge two metrics of different types.
Conflict(s, t) == SameName(s, t) /\ TypeOf[s] # TypeOf[t]

\* Mutant of Admitted: a sample is compared with what was in the cache before
\* the list.
Admitted_Before(cache, f) ==
    {f[i] : i \in {j \in DOMAIN f : \A c \in cache : ~Conflict(c, f[j])}}

\* The samples of list f (indices in order of arrival) that update_metric
\* puts into the cache: the first sample of a name decides the type.
Admitted(cache, f) ==
    LET first(j) == \A k \in DOMAIN f : SameName(f[k], f[j]) => j <= k
        ok(i) == /\ \A c \in cache : ~Conflict(c, f[i])
                 /\ \/ \E c \in cache : SameName(c, f[i])
                    \/ \A j \in DOMAIN f : first(j) => ~Conflict(f[j], f[i])
    IN  {f[i] : i \in {j \in DOMAIN f : ok(j)}}

Refused(cache, f) == {f[i] : i \in DOMAIN f} \ Admitted(cache, f)

\* Mutant of Merge: the type of the entry is not compared.
Merge_AnyType(cache, other) == other

\* A whole cache is merged into another one, name by name.
Merge(cache, other) == {s \in other : \A c \in cache : ~Conflict(c, s)}

-----------------------------------------------------------------------------
(* Channels. *)

Task ==
    [kind : {"Parse"}, addr : Addr, data : Seq(Piece)]
        \cup [kind : {"AddMetric", "AddMetrics", "AddSnapshot"}, list : Seq(Sample)]
        \cup [kind : {"TakeSnapshot"}]
        \cup [kind : {"Rotate"}, round : Round]
        \cup [kind : {"Aggregate"}, round : Round, metric : SUBSET Sample]

Oneshot == [st : {"closed", "open", "full", "cancelled"}, val : SUBSET Sample]

Closed == [st |-> "closed", val |-> {}]

Open == [st |-> "open", val |-> {}]

Cancelled == [st |-> "cancelled", val |-> {}]

Full(v) == [st |-> "full", val |-> v]

\* oneshot::Sender::send: fails when the receiver is gone.
Reply(rx, v) == IF rx.st = "open" THEN Full(v) ELSE rx

\* The sender is dropped without an answer.
Cancel(rx) == IF rx.st = "open" THEN Cancelled ELSE rx

\* Every send of the program goes through a fresh clone of the Sender, and
\* every clone owns one slot of the channel: a send never waits and never
\* finds the queue full.  It fails only when the worker is gone.
Enqueue(w, t) == [queue EXCEPT ![w] = Append(@, t)]

Lose(counter, S) == [lost EXCEPT ![counter] = @ \cup S]

-----------------------------------------------------------------------------
(* TaskRunner::run, one action per kind of task. *)

\* The fold over the receiver takes the next task of worker w.
TakeTask(w, kind) ==
    /\ w \notin dead
    /\ queue[w] # <<>>
    /\ Head(queue[w]).kind = kind
    /\ queue' = [queue EXCEPT ![w] = Tail(@)]

\* The text of address a that worker w keeps for the next datagram.
Kept(w, a) == IF buffers[w][a] = NoBuffer THEN <<>> ELSE buffers[w][a].data

\* Mutant of RunParse: the age of the entry is not reset.
RunParse_NoReset(w) ==
    LET a    == Head(queue[w]).addr
        buf  == Kept(w, a) \o Head(queue[w]).data
        list == Parsed(buf)
        b    == [times |-> IF buffers[w][a] = NoBuffer THEN 0 ELSE buffers[w][a].times,
                 data |-> Unparsed(buf)]
    IN  /\ TakeTask(w, "Parse")
        /\ buffers' = [buffers EXCEPT ![w][a] = b]
        /\ short' = [short EXCEPT ![w] = @ \cup Admitted(@, list)]
        /\ lost' = [lost EXCEPT !["PARSE_ERRORS"] = @ \cup Broken(buf),
                                !["AGG_ERRORS"] = @ \cup Refused(short[w], list)]
        /\ UNCHANGED <<fresh, long, dead, snapRx, rotRx, out>>

\* Mutant of RunParse: the parsed lines stay in the buffer.
RunParse_NoConsume(w) ==
    LET a    == Head(queue[w]).addr
        buf  == Kept(w, a) \o Head(queue[w]).data
        list == Parsed(buf)
        b    == [times |-> 0, data |-> buf]
    IN  /\ TakeTask(w, "Parse")
        /\ buffers' = [buffers EXCEPT ![w][a] = b]
        /\ short' = [short EXCEPT ![w] = @ \cup Admitted(@, list)]
        /\ lost' = [lost EXCEPT !["PARSE_ERRORS"] = @ \cup Broken(buf),
                                !["AGG_ERRORS"] = @ \cup Refused(short[w], list)]
        /\ UNCHANGED <<fresh, long, dead, snapRx, rotRx, out>>

RunParse(w) ==
    LET a    == Head(queue[w]).addr
        buf  == Kept(w, a) \o Head(queue[w]).data
        list == Parsed(buf)
    IN  /\ TakeTask(w, "Parse")
        /\ buffers' = [buffers EXCEPT ![w][a] = [times |-> 0, data |-> Unparsed(buf)]]
        /\ short' = [short EXCEPT ![w] = @ \cup Admitted(@, list)]
        /\ lost' = [lost EXCEPT !["PARSE_ERRORS"] = @ \cup Broken(buf),
                                !["AGG_ERRORS"] = @ \cup Refused(short[w], list)]
        /\ UNCHANGED <<fresh, long, dead, snapRx, rotRx, out>>

\* AddMetric is the case of a list with one element.
RunAddMetrics(w) ==
    LET list == Head(queue[w]).list
    IN  /\ TakeTask(w, "AddMetric") \/ TakeTask(w, "AddMetrics")
        /\ short' = [short EXCEPT ![w] = @ \cup Admitted(@, list)]
        /\ lost' = Lose("AGG_ERRORS", Refused(short[w], list))
        /\ UNCHANGED <<fresh, long, buffers, dead, snapRx, rotRx, out>>

\* Mutant of RunAddSnapshot: the snapshot of a peer goes to the short cache.
RunAddSnapshot_Short(w) ==
    LET list == Head(queue[w]).list
    IN  /\ TakeTask(w, "AddSnapshot")
        /\ short' = [short EXCEPT ![w] = @ \cup Admitted(@, list)]
        /\ lost' = Lose("AGG_ERRORS", Refused(short[w], list))
        /\ UNCHANGED <<fresh, long, buffers, dead, snapRx, rotRx, out>>

RunAddSnapshot(w) ==
    LET list == Head(queue[w]).list
    IN  /\ TakeTask(w, "AddSnapshot")
        /\ long' = [long EXCEPT ![w] = @ \cup Admitted(@, list)]
        /\ lost' = Lose("AGG_ERRORS", Refused(long[w], list))
        /\ UNCHANGED <<fresh, short, buffers, dead, snapRx, rotRx, out>>

\* Mutant of RunTakeSnapshot: short is merged into long but not drained.
RunTakeSnapshot_NoDrain(w) ==
    /\ TakeTask(w, "TakeSnapshot")
    /\ snapRx' = [snapRx EXCEPT ![w] = Reply(@, short[w])]
    /\ long' = [long EXCEPT ![w] = @ \cup Merge(@, short[w])]
    /\ lost' = Lose("AGG_ERRORS", short[w] \ Merge(long[w], short[w]))
    /\ UNCHANGED <<fresh, short, buffers, dead, rotRx, out>>

\* Mutant of RunTakeSnapshot: short is copied after it has been drained.
RunTakeSnapshot_LateCopy(w) ==
    /\ TakeTask(w, "TakeSnapshot")
    /\ snapRx' = [snapRx EXCEPT ![w] = Reply(@, {})]
    /\ long' = [long EXCEPT ![w] = @ \cup Merge(@, short[w])]
    /\ short' = [short EXCEPT ![w] = {}]
    /\ lost' = Lose("AGG_ERRORS", short[w] \ Merge(long[w], short[w]))
    /\ UNCHANGED <<fresh, buffers, dead, rotRx, out>>

RunTakeSnapshot(w) ==
    /\ TakeTask(w, "TakeSnapshot")
    /\ snapRx' = [snapRx EXCEPT ![w] = Reply(@, short[w])]
    /\ long' = [long EXCEPT ![w] = @ \cup Merge(@, short[w])]
    /\ short' = [short EXCEPT ![w] = {}]
    /\ lost' = Lose("AGG_ERRORS", short[w] \ Merge(long[w], short[w]))
    /\ UNCHANGED <<fresh, buffers, dead, rotRx, out>>

\* Mutant of Retain: an entry lives one rotation longer.
Retain_Late(b) ==
    IF b = NoBuffer \/ b.times + 1 > MaxTimes THEN NoBuffer ELSE [b EXCEPT !.times = @ + 1]

\* `retain`: an entry is dropped at the MaxTimes-th rotation in a row that
\* finds it untouched.
Retain(b) ==
    IF b = NoBuffer \/ b.times + 1 >= MaxTimes THEN NoBuffer ELSE [b EXCEPT !.times = @ + 1]

\* Mutant of RunRotate: long is not cleared.
RunRotate_NoClear(w) ==
    LET r == Head(queue[w]).round
    IN  /\ TakeTask(w, "Rotate")
        /\ rotRx' = [rotRx EXCEPT ![r][w] = Reply(@, long[w])]
        /\ lost' = Lose("DROPS", IF rotRx[r][w].st = "open" THEN {} ELSE long[w])
        /\ buffers' = [buffers EXCEPT ![w] = [a \in Addr |-> Retain(@[a])]]
        /\ UNCHANGED <<fresh, short, long, dead, snapRx, out>>

RunRotate(w) ==
    LET r == Head(queue[w]).round
    IN  /\ TakeTask(w, "Rotate")
        /\ rotRx' = [rotRx EXCEPT ![r][w] = Reply(@, long[w])]
        /\ long' = [long EXCEPT ![w] = {}]
        /\ lost' = Lose("DROPS", IF rotRx[r][w].st = "open" THEN {} ELSE long[w])
        /\ buffers' = [buffers EXCEPT ![w] = [a \in Addr |-> Retain(@[a])]]
        /\ UNCHANGED <<fresh, short, dead, snapRx, out>>

RunAggregate(w) ==
    LET t == Head(queue[w])
    IN  /\ TakeTask(w, "Aggregate")
        /\ out' = [out EXCEPT ![t.round] = @ \cup t.metric]
        /\ UNCHANGED <<fresh, short, long, buffers, dead, snapRx, rotRx, lost>>

Run(w) ==
    \/ RunParse(w)
    \/ RunAddMetrics(w)
    \/ RunAddSnapshot(w)
    \/ RunTakeSnapshot(w)
    \/ RunRotate(w)
    \/ RunAggregate(w)

\* Task t brings sample s to the worker.
Carries(t, s) ==
    CASE t.kind = "Parse" -> \E i \in DOMAIN t.data : t.data[i] = EndOf(s)
      [] t.kind \in {"AddMetric", "AddMetrics", "AddSnapshot"} -> \E i \in DOMAIN t.list : t.list[i] = s
      [] t.kind = "Aggregate" -> s \in t.metric
      [] OTHER -> FALSE

Queued(w, kind) == {i \in DOMAIN queue[w] : queue[w][i].kind = kind}

\* The thread of worker w panics between two tasks.  Its receiver is dropped
\* with everything in it, and so are the reply channels inside the tasks.
Die(w) ==
    /\ w \notin dead
    /\ dead' = dead \cup {w}
    /\ queue' = [queue EXCEPT ![w] = <<>>]
    /\ short' = [short EXCEPT ![w] = {}]
    /\ long' = [long EXCEPT ![w] = {}]
    /\ buffers' = [buffers EXCEPT ![w] = [a \in Addr |-> NoBuffer]]
    /\ snapRx' = [snapRx EXCEPT ![w] = IF Queued(w, "TakeSnapshot") # {} THEN Cancel(@) ELSE @]
    /\ rotRx' = [r \in Round |-> [rotRx[r] EXCEPT ![w] =
           IF \E i \in Queued(w, "Rotate") : queue[w][i].round = r THEN Cancel(@) ELSE @]]
    /\ lost' = Lose("uncounted", short[w] \cup long[w] \cup
           {s \in Sample : \E i \in DOMAIN queue[w] : Carries(queue[w][i], s)})
    /\ UNCHANGED <<fresh, out>>

-----------------------------------------------------------------------------
(* Where tasks come from. *)

Ends(data) == {s \in Sample : \E i \in DOMAIN data : data[i] = EndOf(s)}

\* A network thread hands the buffered datagrams of an address to a worker
\* (server.rs, udp.rs).
SendParse(w, a, data) ==
    /\ \A i \in DOMAIN data : data[i] \in fresh /\ data[i].of \notin Peer
    /\ \A i, j \in DOMAIN data : data[i] = data[j] => i = j
    /\ fresh' = fresh \ {data[i] : i \in DOMAIN data}
    /\ IF w \in dead
         THEN lost' = Lose("DROPS", Ends(data)) /\ UNCHANGED queue
         ELSE /\ queue' = Enqueue(w, [kind |-> "Parse", addr |-> a, data |-> data])
              /\ UNCHANGED lost
    /\ UNCHANGED <<short, long, buffers, dead, snapRx, rotRx, out>>

\* parse_and_send of the peer server: a Single or Multi message of an agent,
\* a Snapshot message of another node (peer.rs).
SendMetrics(w, kind, list) ==
    /\ kind \in {"AddMetric", "AddMetrics", "AddSnapshot"}
    /\ kind = "AddMetric" => Len(list) = 1
    /\ \A i \in DOMAIN list :
           /\ list[i] \notin Split
           /\ EndOf(list[i]) \in fresh
           /\ list[i] \in Peer <=> kind = "AddSnapshot"
    /\ \A i, j \in DOMAIN list : list[i] = list[j] => i = j
    /\ fresh' = fresh \ {EndOf(list[i]) : i \in DOMAIN list}
    /\ IF w \in dead
         THEN /\ lost' = Lose("uncounted", {list[i] : i \in DOMAIN list})
              /\ UNCHANGED queue
         ELSE /\ queue' = Enqueue(w, [kind |-> kind, list |-> list])
              /\ UNCHANGED lost
    /\ UNCHANGED <<short, long, buffers, dead, snapRx, rotRx, out>>

-----------------------------------------------------------------------------
RunnerInit ==
    /\ fresh = Piece
    /\ queue = [w \in Worker |-> <<>>]
    /\ short = [w \in Worker |-> {}]
    /\ long = [w \in Worker |-> {}]
    /\ buffers = [w \in Worker |-> [a \in Addr |-> NoBuffer]]
    /\ dead = {}
    /\ snapRx = [w \in Worker |-> Closed]
    /\ rotRx = [r \in Round |-> [w \in Worker |-> Closed]]
    /\ out = [r \in Round |-> {}]
    /\ lost = [c \in Counter |-> {}]

RunnerTypeOK ==
    /\ fresh \subseteq Piece
    /\ queue \in [Worker -> Seq(Task)]
    /\ short \in [Worker -> SUBSET Sample]
    /\ long \in [Worker -> SUBSET Sample]
    /\ buffers \in [Worker -> [Addr -> [times : 0 .. MaxTimes - 1, data : Seq(Piece)] \cup {NoBuffer}]]
    /\ dead \subseteq Worker
    /\ snapRx \in [Worker -> Oneshot]
    /\ rotRx \in [Round -> [Worker -> Oneshot]]
    /\ out \in [Round -> SUBSET Sample]
    /\ lost \in [Counter -> SUBSET Sample]
=============================================================================
