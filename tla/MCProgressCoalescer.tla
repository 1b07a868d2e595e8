------------------------ MODULE MCProgressCoalescer ------------------------
(* Instance of ProgressCoalescer for TLC: two streams on a map of one      *)
(* entry, or one stream with two concurrent calls.                         *)
EXTENDS ProgressCoalescer, TLC

Symmetry == Permutations(Keys) \cup Permutations(Requests) \cup Permutations(Entries)

=============================================================================
