----------------------------- MODULE MCPipeline -----------------------------
(* Small instances of Pipeline. *)
EXTENDS PipelineLedger, TLC

CONSTANTS s1, s2, s3, r1, r2, a1

\* s1 and s2 can be aggregated, s3 has their name and another type.
MCNameOf == [s \in Sample |-> "n"]
MCTypeOf == [s \in Sample |-> IF s = s3 THEN "g" ELSE "c"]

\* s1 clashes with the others.
MCClash == [s \in Sample |-> IF s = s1 THEN "c" ELSE "g"]

\* Two names of one type.
MCTwoNames == [s \in Sample |-> IF s = s1 THEN "m" ELSE "n"]
MCOneType == [s \in Sample |-> "c"]

\* s1 comes in a datagram, s2 and s3 come through the peer server.
MCData == {<<[of |-> s1, part |-> "all"]>>}
MCList == {<<s>> : s \in Sample \ {s1}}

\* consistent_parsing: an address has one worker.
MCRoute == {<<a1, W - 1>>}

MCSymmetry == Permutations(Round)
=============================================================================
