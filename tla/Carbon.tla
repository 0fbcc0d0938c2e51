------------------------------- MODULE Carbon -------------------------------
(***************************************************************************)
(* The last leg of a leader's rotation: the carbon thread splits the       *)
(* collected metrics into chunks (main.rs), and one retrying client per    *)
(* chunk connects to the backend and writes the chunk (carbon.rs, util.rs).*)
(* Metrics are numbered in the order of the collected vector.              *)
(***************************************************************************)
EXTENDS BackoffRetry, Sequences

CONSTANTS
    Chunks,     \* carbon.chunks of the configuration
    Batch       \* numbers of metrics that may have been collected (bound)

ASSUME CarbonAssumption ==
    /\ Chunks \in Nat
    /\ Batch \subseteq Nat
    /\ \A n \in Batch : 1 .. n \subseteq Client

VARIABLES
    batch,      \* the number of metrics collected
    phase,      \* of the carbon thread
    conn,       \* conn[c]: the connection of chunk c
    written,    \* written[c]: metrics of the chunk written to the connection
    read,       \* read[c]: metrics of the chunk the backend got through it
    got         \* got[m]: how often the backend got metric m

netVars == <<conn, written, read, got>>

vars == <<retryVars, batch, phase, netVars>>

Init ==
    /\ RetryInit
    /\ batch \in Batch
    /\ phase = "collected"
    /\ conn = [c \in Client |-> "none"]
    /\ written = [c \in Client |-> 0]
    /\ read = [c \in Client |-> 0]
    /\ got = [m \in 1 .. batch |-> 0]

-----------------------------------------------------------------------------
(* The chunks. *)

\* A configured 0 means 1.
ChunkSize == batch \div (IF Chunks = 0 THEN 1 ELSE Chunks)

\* Mutant of ChunkCount: the rest of the division gets no chunk.
ChunkCount_Floor == batch \div ChunkSize

\* slice::chunks: all chunks but the last have ChunkSize elements.
ChunkCount == (batch + ChunkSize - 1) \div ChunkSize

First(c) == (c - 1) * ChunkSize + 1

ChunkLen(c) == IF c * ChunkSize <= batch THEN ChunkSize ELSE batch - First(c) + 1

Chunk(c) == First(c) .. First(c) + ChunkLen(c) - 1

\* slice::chunks panics for a chunk size of 0; the thread ends.
SplitPanics ==
    /\ phase = "collected" /\ ChunkSize = 0
    /\ phase' = "panicked"
    /\ UNCHANGED <<retryVars, batch, netVars>>

Split ==
    /\ phase = "collected" /\ ChunkSize > 0
    /\ phase' = "sending"
    /\ Spawn(1 .. ChunkCount)
    /\ UNCHANGED <<batch, netVars>>

-----------------------------------------------------------------------------
(* One try of CarbonBackend, and the network. *)

Connect(c) ==
    /\ inner[c] = "action" /\ conn[c] = "none"
    /\ conn' = [conn EXCEPT ![c] = "open"]
    /\ UNCHANGED <<retryVars, batch, phase, written, read, got>>

ConnectFails(c) ==
    /\ conn[c] = "none"
    /\ Fail(c)
    /\ UNCHANGED <<batch, phase, netVars>>

\* The next metric of SharedIter goes through the codec to the socket.
Write(c) ==
    /\ inner[c] = "action" /\ conn[c] = "open" /\ written[c] < ChunkLen(c)
    /\ written' = [written EXCEPT ![c] = @ + 1]
    /\ UNCHANGED <<retryVars, batch, phase, conn, read, got>>

\* `forward` is done when everything is flushed to the socket, whatever the
\* backend has read of it.
Finish(c) ==
    /\ conn[c] = "open" /\ written[c] = ChunkLen(c)
    /\ Succeed(c)
    /\ UNCHANGED <<batch, phase, netVars>>

\* The backend reads the next metric.
Deliver(c) ==
    /\ conn[c] = "open" /\ read[c] < written[c]
    /\ read' = [read EXCEPT ![c] = @ + 1]
    /\ got' = [got EXCEPT ![First(c) + read[c]] = @ + 1]
    /\ UNCHANGED <<retryVars, batch, phase, conn, written>>

\* Mutant of Break: the next try goes on where this one stopped.
Break_Resumes(c) ==
    /\ conn[c] = "open" /\ inner[c] = "action"
    /\ Fail(c)
    /\ conn' = [conn EXCEPT ![c] = "none"]
    /\ read' = [read EXCEPT ![c] = written[c]]
    /\ UNCHANGED <<batch, phase, written, got>>

\* The connection breaks during a try; what was written and not read is lost.
\* The next try has a SharedIter of its own that starts at the first metric.
Break(c) ==
    /\ conn[c] = "open" /\ inner[c] = "action"
    /\ Fail(c)
    /\ conn' = [conn EXCEPT ![c] = "none"]
    /\ written' = [written EXCEPT ![c] = 0]
    /\ read' = [read EXCEPT ![c] = 0]
    /\ UNCHANGED <<batch, phase, got>>

\* The connection breaks after the client is done with it.
BreakLate(c) ==
    /\ conn[c] = "open" /\ inner[c] = "done" /\ read[c] < written[c]
    /\ conn' = [conn EXCEPT ![c] = "broken"]
    /\ UNCHANGED <<retryVars, batch, phase, written, read, got>>

RetryNow(c) == Elapse(c) /\ UNCHANGED <<batch, phase, netVars>>

Try(c) == Connect(c) \/ ConnectFails(c) \/ Write(c) \/ Finish(c)

\* Nothing is left to do.
Quiet ==
    /\ phase # "collected"
    /\ \A c \in Client : inner[c] = "idle" \/ Ready(c)
    /\ \A c \in Client : conn[c] = "open" => read[c] = written[c]

Next ==
    \/ SplitPanics \/ Split
    \/ \E c \in Client : Try(c) \/ Deliver(c) \/ Break(c) \/ BreakLate(c) \/ RetryNow(c)
    \/ Quiet /\ UNCHANGED vars

Spec == Init /\ [][Next]_vars

\* The runtime polls, timers fire, and a connection that does not break makes
\* progress.
FairSpec ==
    /\ Spec
    /\ WF_vars(SplitPanics \/ Split)
    /\ \A c \in Client : WF_vars(Try(c)) /\ WF_vars(RetryNow(c)) /\ WF_vars(Deliver(c))

-----------------------------------------------------------------------------
(* Properties. *)

\* A delay stays below its maximum, a client writes no more than the batch,
\* the backend reads no more than was written, and gets no metric more often
\* than a chunk may be tried.
TypeOK ==
    /\ RetryTypeOK
    /\ batch \in Batch
    /\ phase \in {"collected", "sending", "panicked"}
    /\ conn \in [Client -> {"none", "open", "broken"}]
    /\ {written, read} \subseteq [Client -> 0 .. batch]
    /\ \A c \in Client : read[c] <= written[c]
    /\ got \in [1 .. batch -> 0 .. Retries + 1]

\* Every collected metric is in exactly one chunk that has a client.
ChunksPartition ==
    phase = "sending" =>
        \A m \in 1 .. batch : \E c \in Client :
            {d \in Client : inner[d] # "idle" /\ m \in Chunk(d)} = {c}

\* The backend gets a metric at most once per try of its chunk, and a client
\* that is done has written the whole chunk through one connection: unless
\* that connection broke afterwards, the backend gets every metric of it,
\* however many tries broke half-way before.
WholeChunkSent ==
    phase = "sending" =>
        \A c \in Client : inner[c] # "idle" =>
            /\ \A m \in Chunk(c) : got[m] <= tries[c]
            /\ inner[c] = "done" /\ conn[c] = "open" /\ read[c] = written[c]
               => \A m \in Chunk(c) : got[m] >= 1

\* Every client is eventually done or has given up after Retries + 1 tries.
AllReady == phase = "sending" ~> \A c \in Client : inner[c] = "idle" \/ Ready(c)

\* "The whole metrica array can be split into smaller chunks for each chunk
\* to be sent in a separate connection." (config.rs): the array is split, not
\* thrown away.
BatchIsSplit == phase # "panicked"
=============================================================================
