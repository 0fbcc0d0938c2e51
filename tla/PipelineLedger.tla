--------------------------- MODULE PipelineLedger ---------------------------
(***************************************************************************)
(* The threads of a node (Pipeline) keep the promise of MetricLedger.      *)
(***************************************************************************)
EXTENDS Pipeline

\* Where a sample is, seen from outside: in no queue or cache yet, at one of
\* the three exits, or somewhere in between.
StageOf(s) ==
    IF EndOf(s) \in fresh THEN "outside"
    ELSE IF s \in egress THEN "sent"
    ELSE IF s \in discarded THEN "discarded"
    ELSE IF \E c \in Counter : s \in lost[c] THEN "lost"
    ELSE "held"

Ledger == INSTANCE MetricLedger WITH
    stage <- [s \in Sample |-> StageOf(s)],
    shared <- replicated \cup UNION {snapRx[w].val : w \in Worker},
    sharing <- snap.phase # "ended"

\* Every step of workers, snapshot sender, carbon threads and panics is one
\* step of the ledger, or none: no interleaving lets a sample out twice, back
\* in, or out before it is in a snapshot.
ImplementsLedger == Ledger!Spec
=============================================================================
