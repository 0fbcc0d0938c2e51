------------------------------- MODULE Ingest -------------------------------
(***************************************************************************)
(* The UDP side: listeners read datagrams, buffer them per source address, *)
(* and hand the buffers to the workers when enough bytes are held or when  *)
(* the flush timer raised the flag of their thread.  In async mode         *)
(* (server.rs) a thread runs several listeners that share its flag; in     *)
(* multimessage mode (udp.rs) a thread is one listener and reads up to     *)
(* mm_packets datagrams at a time.  All listeners read from one port.      *)
(*                                                                         *)
(* A parsed datagram goes back to the wire as one that is still to be      *)
(* sent, so that traffic never ends.  Spawned sends of one thread run in   *)
(* the order they were spawned and never wait: a flush appends to the      *)
(* queues at once.                                                         *)
(***************************************************************************)
EXTENDS Naturals, Sequences, FiniteSets, Functions

CONSTANTS
    Listener,       \* all listeners there may be
    ThreadOf,       \* ThreadOf[l]: the index of the thread l runs on
    Datagram,
    AddrOf,         \* AddrOf[d]: the source address
    SizeOf,         \* SizeOf[d]: the number of bytes
    W,              \* number of workers
    HashOf,         \* HashOf[a]: the address's hash modulo W
    Config,         \* configurations: metrics.consistent_parsing,
                    \*   network.multimessage, whether buffer_flush_time is
                    \*   set, and the listeners started
    MmPackets,      \* network.mm_packets
    BufSize,        \* network.bufsize
    FlushLength,    \* network.buffer_flush_length
    MayFail         \* whether receiving may fail

Thread == {ThreadOf[l] : l \in Listener}
Addr == {AddrOf[d] : d \in Datagram}
Worker == 0 .. W - 1

ASSUME IngestAssumption ==
    /\ ThreadOf \in [Listener -> Nat]
    /\ IsFiniteSet(Datagram)
    /\ BufSize \in Nat /\ SizeOf \in [Datagram -> 0 .. BufSize]
    /\ W \in Nat \ {0} /\ HashOf \in [Addr -> Worker]
    /\ MmPackets \in Nat \ {0} /\ FlushLength \in Nat
    /\ Config \subseteq [consistent : BOOLEAN, multimessage : BOOLEAN, timer : BOOLEAN,
                           listeners : SUBSET Listener \ {{}}]
    /\ MayFail \in BOOLEAN

VARIABLES
    config,     \* the configuration
    wire,       \* datagrams still to be received
    listeners,  \* listeners[l]: its buffers, byte counter and next worker
    flags,      \* flush_flags
    queue,      \* queue[w]: the Parse tasks of worker w
    lost,       \* datagrams that died with a listener
    arrived,    \* history, arrived[a]: what was received from a and is not
                \*   parsed yet
    ticked      \* history: what listeners held when the timer ticked, and is
                \*   not parsed yet

history == <<arrived, ticked>>

vars == <<config, wire, listeners, flags, queue, lost, history>>

NoBuffers == [a \in Addr |-> <<>>]

\* The sequences of ss one after the other.
Joined(ss) ==
    LET upTo[n \in 0 .. Len(ss)] == IF n = 0 THEN <<>> ELSE upTo[n - 1] \o ss[n]
    IN  upTo[Len(ss)]

\* An async listener starts at the index of its thread, which the first use
\* wraps to 0 when there is no such worker.
FirstWorker(l) == IF ~config.multimessage /\ ThreadOf[l] < W THEN ThreadOf[l] ELSE 0

Init ==
    /\ config \in Config
    /\ wire = Datagram
    /\ listeners = [l \in Listener |->
           [alive |-> l \in config.listeners, bufmap |-> NoBuffers, counter |-> 0, next |-> FirstWorker(l)]]
    /\ flags = [t \in Thread |-> FALSE]
    /\ queue = [w \in Worker |-> <<>>]
    /\ lost = {}
    /\ arrived = NoBuffers
    /\ ticked = {}

-----------------------------------------------------------------------------
(* The listeners. *)

\* The number of bytes in a set of datagrams: a byte is a datagram and an
\* offset in it.
Bytes(D) == Cardinality({b \in D \X (1 .. BufSize) : b[2] <= SizeOf[b[1]]})

\* The datagrams of data that came from a, in their order.
From(a, data) == Joined([i \in DOMAIN data |->
                     IF AddrOf[data[i]] = a THEN <<data[i]>> ELSE <<>>])

\* Mutant of Buffered: new data goes before the data held.
Buffered_Front(bufmap, data) == [a \in Addr |-> From(a, data) \o bufmap[a]]

Buffered(bufmap, data) == [a \in Addr |-> bufmap[a] \o From(a, data)]

Sources(bufmap) == {a \in Addr : bufmap[a] # <<>>}

\* The worker of the k-th buffer of a flush.
Target(l, order, k) ==
    IF config.consistent THEN HashOf[order[k]] ELSE (listeners[l].next + k - 1) % W

\* The buffers of a flush in the order the map is drained, for worker w.
TasksFor(w, l, bufmap, order) ==
    LET task(k) == [addr |-> order[k], data |-> bufmap[order[k]]]
    IN  Joined([k \in DOMAIN order |-> IF Target(l, order, k) = w THEN <<task(k)>> ELSE <<>>])

\* Mutant of Drain: the index runs past the last worker.
Drain_Unwrapped(l, bufmap) ==
    \E order \in Bijection(1 .. Cardinality(Sources(bufmap)), Sources(bufmap)) :
        /\ queue' = [w \in Worker |-> queue[w] \o TasksFor(w, l, bufmap, order)]
        /\ listeners' = [listeners EXCEPT
               ![l].bufmap = NoBuffers, ![l].counter = 0,
               ![l].next = IF config.consistent THEN @ ELSE @ + Len(order)]

\* Mutant of Drain: the map is read and the buffer of one address is left in it.
Drain_Leaves(l, bufmap) ==
    \E order \in Bijection(1 .. Cardinality(Sources(bufmap)), Sources(bufmap)) :
        /\ queue' = [w \in Worker |-> queue[w] \o TasksFor(w, l, bufmap, order)]
        /\ listeners' = [listeners EXCEPT
               ![l].bufmap = [NoBuffers EXCEPT ![order[1]] = bufmap[order[1]]], ![l].counter = 0,
               ![l].next = IF config.consistent THEN @ ELSE (@ + Len(order)) % W]

\* bufmap.drain(): the map is left empty, its order is any.
Drain(l, bufmap) ==
    \E order \in Bijection(1 .. Cardinality(Sources(bufmap)), Sources(bufmap)) :
        /\ queue' = [w \in Worker |-> queue[w] \o TasksFor(w, l, bufmap, order)]
        /\ listeners' = [listeners EXCEPT
               ![l].bufmap = NoBuffers, ![l].counter = 0,
               ![l].next = IF config.consistent THEN @ ELSE (@ + Len(order)) % W]

\* Mutant of ShouldFlush: the flag of the timer is not asked for.
ShouldFlush_NoFlag(l, counter) == counter >= FlushLength

\* Mutant of ShouldFlush: the length is off by one.
ShouldFlush_Late(l, counter) == counter > FlushLength \/ flags[ThreadOf[l]]

ShouldFlush(l, counter) == counter >= FlushLength \/ flags[ThreadOf[l]]

\* Mutant of Keep: the counter starts anew with every datagram.
Keep_Recount(l, bufmap, counter) ==
    /\ listeners' = [listeners EXCEPT ![l].bufmap = bufmap,
                                      ![l].counter = counter - listeners[l].counter]
    /\ queue' = queue

Keep(l, bufmap, counter) ==
    /\ listeners' = [listeners EXCEPT ![l].bufmap = bufmap, ![l].counter = counter]
    /\ queue' = queue

\* What one receive call may return: one datagram with some bytes, or up to
\* mm_packets datagrams of any size.
Received ==
    IF config.multimessage THEN UNION {Injection(1 .. n, wire) : n \in 1 .. MmPackets}
    ELSE {<<d>> : d \in {e \in wire : SizeOf[e] > 0}}

\* Data comes in, is buffered, the flag of the thread is taken, and the
\* buffers are flushed or kept.
Receive(l, data) ==
    LET bufmap == Buffered(listeners[l].bufmap, data)
        counter == listeners[l].counter + Bytes(Range(data))
    IN  /\ listeners[l].alive
        /\ wire' = wire \ Range(data)
        /\ flags' = [flags EXCEPT ![ThreadOf[l]] = FALSE]
        /\ IF ShouldFlush(l, counter) THEN Drain(l, bufmap) ELSE Keep(l, bufmap, counter)
        /\ arrived' = [a \in Addr |-> arrived[a] \o From(a, data)]
        /\ UNCHANGED <<config, lost, ticked>>

\* What came in from every address but is not in D, in its order.
Without(D) == [a \in Addr |-> Joined([i \in DOMAIN arrived[a] |->
                  IF arrived[a][i] \in D THEN <<>> ELSE <<arrived[a][i]>>])]

\* What listener l holds.
HeldBy(l) == UNION {Range(listeners[l].bufmap[a]) : a \in Addr}

\* The future of a listener ends without a successor, its buffers with it.
End(l, gone) ==
    /\ listeners[l].alive
    /\ listeners' = [listeners EXCEPT ![l].alive = FALSE, ![l].bufmap = NoBuffers,
                                      ![l].counter = 0]
    /\ wire' = wire \ gone
    /\ lost' = lost \cup gone \cup HeldBy(l)
    /\ arrived' = Without(HeldBy(l))
    /\ UNCHANGED <<config, flags, queue, ticked>>

\* Async mode: an empty datagram ends the listener that gets it.
ReceiveEmpty(l) ==
    ~config.multimessage /\ \E d \in wire : SizeOf[d] = 0 /\ End(l, {d})

\* Async mode: so does an error.  (recvmmsg is called again after an error.)
ReceiveError(l) == ~config.multimessage /\ MayFail /\ End(l, {})

-----------------------------------------------------------------------------
(* The flush timer and the workers. *)

\* There is a timer only if buffer_flush_time is not 0.
FlushTick ==
    /\ config.timer
    /\ flags' = [t \in Thread |-> TRUE]
    /\ ticked' = UNION {HeldBy(l) : l \in Listener}
    /\ UNCHANGED <<config, wire, listeners, queue, lost, arrived>>

\* Worker w takes its next Parse task (see TaskRunner).
Parse(w) ==
    /\ queue[w] # <<>>
    /\ LET data == Range(Head(queue[w]).data)
       IN  /\ wire' = wire \cup data
           /\ arrived' = Without(data)
           /\ ticked' = ticked \ data
    /\ queue' = [queue EXCEPT ![w] = Tail(@)]
    /\ UNCHANGED <<config, listeners, flags, lost>>

Listen(l) == \E data \in Received : Receive(l, data)

Next ==
    \/ \E l \in Listener : Listen(l) \/ ReceiveEmpty(l) \/ ReceiveError(l)
    \/ FlushTick
    \/ \E w \in Worker : Parse(w)

Spec == Init /\ [][Next]_vars

\* The timer ticks, workers run, and a datagram that came in is read by some
\* listener: the kernel wakes any of those that wait on the port.
FairSpec ==
    /\ Spec
    /\ WF_vars(FlushTick)
    /\ WF_vars(\E l \in Listener : Listen(l))
    /\ \A w \in Worker : WF_vars(Parse(w))

-----------------------------------------------------------------------------
(* Properties. *)

\* Buffers hold datagrams of their own address, a task is never empty, and
\* the round-robin index is always the index of a worker.
TypeOK ==
    /\ config \in Config
    /\ {wire, lost, ticked} \subseteq SUBSET Datagram
    /\ flags \in [Thread -> BOOLEAN]
    /\ \A l \in Listener :
        /\ listeners[l].alive \in BOOLEAN
        /\ listeners[l].next \in Worker
        /\ listeners[l].counter \in 0 .. FlushLength
        /\ \A a \in Addr : \A d \in Range(listeners[l].bufmap[a]) : AddrOf[d] = a
    /\ \A w \in Worker : \A i \in 1 .. Len(queue[w]) :
        queue[w][i].addr \in Addr /\ queue[w][i].data # <<>>

InBuffer(d, l) ==
    LET buf == listeners[l].bufmap[AddrOf[d]]
    IN  {<<"held", l, i>> : i \in {j \in DOMAIN buf : buf[j] = d}}

InQueue(d, w) == {<<"queue", w, i>> : i \in {j \in DOMAIN queue[w] : d \in Range(queue[w][j].data)}}

\* Where datagram d is.
Where(d) ==
    {<<"wire", 0, 0>> : x \in {d} \cap wire} \cup {<<"lost", 0, 0>> : x \in {d} \cap lost}
    \cup (UNION {InBuffer(d, l) : l \in Listener}) \cup (UNION {InQueue(d, w) : w \in Worker})

\* Over any interleaving of listeners, flushes and ends of listeners a
\* datagram is in exactly one place, and it is lost only when a listener that
\* held or read it has ended.
ReadOnce ==
    /\ \A d \in Datagram : Cardinality(Where(d)) = 1
    /\ lost # {} => \E l \in config.listeners : ~listeners[l].alive

\* recv_counter is the number of bytes held, through flushes, timers and ends.
CounterIsHeld == \A l \in Listener : listeners[l].counter = Bytes(HeldBy(l))

\* The listeners whose future has ended.
Ended == {l \in config.listeners : ~listeners[l].alive}

\* A listener never holds buffer_flush_length bytes or more between two
\* datagrams, so what the listeners that ended took with them, which no
\* counter shows, is less than buffer_flush_length bytes for each of them.
LossBounded ==
    /\ \A l \in Listener : HeldBy(l) # {} => Bytes(HeldBy(l)) < FlushLength
    /\ Bytes(lost) > 0 => Bytes(lost) < FlushLength * Cardinality(Ended)

\* What the tasks of q hold of address a, in the order of the tasks.
Waiting(q, a) == Joined([i \in DOMAIN q |-> IF q[i].addr = a THEN q[i].data ELSE <<>>])

\* Only one listener was started.
Alone == \E l \in Listener : config.listeners = {l}

\* With consistent parsing and one listener, what a worker still has to parse
\* of an address, followed by what is buffered, is what came in from that
\* address, in that order: the pieces of a line meet in the worker's buffer.
InArrivalOrder ==
    config.consistent /\ Alone =>
        \A l \in config.listeners, a \in Addr :
            Waiting(queue[HashOf[a]], a) \o listeners[l].bufmap[a] = arrived[a]

\* The flag is still up for a listener that has its thread to itself: what it
\* held when the timer ticked it holds no longer than up to its next datagram.
FlushedAfterTick ==
    \A l \in config.listeners :
        /\ \A m \in config.listeners \ {l} : ThreadOf[m] # ThreadOf[l]
        /\ ticked \cap HeldBy(l) # {}
        => flags[ThreadOf[l]]

Held(d) == \E l \in Listener : d \in HeldBy(l)

\* As long as datagrams come in, no datagram stays in the buffer of its
\* listener for ever: "making sure metrics are not stuck there" (config.rs).
NotStuck == \A d \in Datagram : Held(d) ~> ~Held(d)
=============================================================================
