------------------------------ MODULE ParseText ------------------------------
(***************************************************************************)
(* What a counting worker makes of the text of an address that arrives cut *)
(* at arbitrary places, in any order, with rotations in between (task.rs:  *)
(* Task::Parse and the `retain` of Task::Rotate).                          *)
(*                                                                         *)
(* Two history variables say what the worker should know about an address: *)
(* the text it got since the address was last forgotten, and the number of *)
(* rotations since the last piece of it.                                   *)
(***************************************************************************)
EXTENDS TaskRunner

CONSTANTS
    Data,       \* buffers the network threads may hand over (bound)
    Route       \* pairs <<address, worker>>: where a buffer may be sent

ASSUME DataAssumption == Data \subseteq Seq(Piece) /\ Route \subseteq Addr \X Worker

VARIABLES
    text,       \* text[w][a]: all text of address a worker w got since it forgot a
    idle        \* idle[w][a]: rotations since the last text, at most MaxTimes

history == <<text, idle>>

vars == <<runnerVars, history>>

Init ==
    /\ RunnerInit
    /\ text = [w \in Worker |-> [a \in Addr |-> <<>>]]
    /\ idle = [w \in Worker |-> [a \in Addr |-> MaxTimes]]

ReceiveText == \E p \in Route, d \in Data : SendParse(p[2], p[1], d) /\ UNCHANGED history

\* The parser gives up on an unfinished line that is too long; the address
\* starts again with an empty buffer.
Parse(w) ==
    LET t   == Head(queue[w])
        buf == Kept(w, t.addr) \o t.data
        overflow == Unparsed(buf) = <<>> /\ buf # <<>> /\ ~EndsLine(buf, Len(buf))
    IN  /\ RunParse(w)
        /\ text' = [text EXCEPT ![w][t.addr] = IF overflow THEN <<>> ELSE @ \o t.data]
        /\ idle' = [idle EXCEPT ![w][t.addr] = 0]

\* A carbon thread asks for a rotation (bound: one request at a time).  It is
\* not part of this model, so nobody waits for the answer.
AskRotate(w, r) ==
    /\ Queued(w, "Rotate") = {}
    /\ queue' = Enqueue(w, [kind |-> "Rotate", round |-> r])
    /\ UNCHANGED <<fresh, short, long, buffers, dead, snapRx, rotRx, out, lost, history>>

Rotate(w) ==
    LET silent(a) == idle[w][a] + 1 >= MaxTimes
    IN  /\ RunRotate(w)
        /\ idle' = [idle EXCEPT ![w] = [a \in Addr |-> IF silent(a) THEN MaxTimes ELSE @[a] + 1]]
        /\ text' = [text EXCEPT ![w] = [a \in Addr |-> IF silent(a) THEN <<>> ELSE @[a]]]

Next ==
    \/ ReceiveText
    \/ \E w \in Worker : Parse(w) \/ Rotate(w) \/ \E r \in Round : AskRotate(w, r)

Spec == Init /\ [][Next]_vars

-----------------------------------------------------------------------------
\* Parsing a text piece by piece, keeping the unfinished line in `buffers`,
\* gives what parsing the whole text at once would give: the same unfinished
\* rest, every whole line's sample in the cache or counted as refused, and
\* every broken line counted.
PiecewiseIsWhole ==
    \A w \in Worker, a \in Addr :
        LET t == text[w][a]
            p == Parsed(t)
        IN  /\ Kept(w, a) = Unparsed(t)
            /\ {p[i] : i \in DOMAIN p} \subseteq short[w] \cup lost["AGG_ERRORS"]
            /\ Broken(t) \subseteq lost["PARSE_ERRORS"]

\* A worker forgets the unfinished line of an address at the MaxTimes-th
\* rotation in a row without text from it, and at no other time: text in
\* between starts the count again.
ForgottenBySilence ==
    \A w \in Worker, a \in Addr : buffers[w][a] = NoBuffer <=> idle[w][a] = MaxTimes

\* update_metric, over all lines of all texts: the first metric of a name
\* decides its type.  A cache never holds metrics of one name and two types,
\* also when both came in one text, and a metric is refused only if a worker
\* has one of its name and another type.
FirstTypeStays ==
    /\ \A w \in Worker : \A s, t \in short[w] : ~Conflict(s, t)
    /\ \A s \in lost["AGG_ERRORS"] : \E w \in Worker : \E c \in short[w] : Conflict(c, s)
=============================================================================
