------------------------------ MODULE MCIngest ------------------------------
(* Small instances of Ingest. *)
EXTENDS Ingest

CONSTANTS l1, l2, l3, d1, d2, d3, d0

Async(consistent, timer, L) ==
    [consistent |-> consistent, multimessage |-> FALSE, timer |-> timer, listeners |-> L]

\* Two async listeners on one thread or on two, one async listener with and
\* without the timer, and a multimessage thread.
MCConfigs ==
    {Async(FALSE, TRUE, {l1, l2}), Async(FALSE, TRUE, {l1, l3}),
     Async(TRUE, TRUE, {l1}), Async(TRUE, FALSE, {l1}),
     [consistent |-> TRUE, multimessage |-> TRUE, timer |-> TRUE, listeners |-> {l1}]}

\* Two async listeners.
MCTwo == {Async(TRUE, TRUE, {l1, l2})}

MCOneThread == [l \in Listener |-> 0]
MCThreads == [l \in Listener |-> IF l = l3 THEN 2 ELSE 0]

\* d1 and d2 come from one address; d0 is empty.
MCAddrOf == [d \in Datagram |-> IF d \in {d1, d2} THEN "a" ELSE "b"]
MCSizeOf == [d \in Datagram |-> IF d = d0 THEN 0 ELSE 1]
MCHashOf == [a \in {"a", "b"} |-> IF a = "a" THEN 0 ELSE W - 1]
=============================================================================
