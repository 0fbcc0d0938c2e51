----------------------------- MODULE MCParseText -----------------------------
(* Small instances of ParseText. *)
EXTENDS ParseText, TLC

CONSTANTS s1, s2, s3, r1, a1, a2

\* s2 and s3 have one name and different types.
MCNameOf == [s \in Sample |-> IF s = s1 THEN "m" ELSE "n"]
MCTypeOf == [s \in Sample |-> IF s = s3 THEN "g" ELSE "c"]

\* The lines of s1 and s2 are cut, the line of s3 is whole: datagrams
\* of one or two pieces.
head1 == [of |-> s1, part |-> "head"]
tail1 == [of |-> s1, part |-> "tail"]
head2 == [of |-> s2, part |-> "head"]
tail2 == [of |-> s2, part |-> "tail"]
line3 == [of |-> s3, part |-> "all"]

MCData ==
    {<<head1>>, <<tail1>>, <<head2>>, <<tail2>>, <<line3>>,
     <<head1, tail1>>, <<tail1, head2>>, <<tail2, head1>>, <<line3, head1>>,
     <<tail1, line3>>, <<head1, head2>>, <<tail2, line3>>}

\* One worker that gets the text of two addresses.
MCRoute == Addr \X {0}
=============================================================================
