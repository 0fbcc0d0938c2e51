------------------------------ MODULE MCCarbon ------------------------------
(* Small instances of Carbon. *)
EXTENDS Carbon

\* Batches that are empty, smaller than, equal to and no multiple of the
\* number of chunks.
MCBatch == {0, 1, 4, 5}
MCFew == {1}
=============================================================================
