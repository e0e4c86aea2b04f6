---------------------------- MODULE MCGuestMemory ----------------------------
(* Three regions, two of them neighbours, for a table of two. *)
EXTENDS GuestMemory, TLC

MCRegions == {[ipa |-> 0, size |-> 2], [ipa |-> 2, size |-> 1], [ipa |-> 4, size |-> 2]}

\* Across the border of two regions, and at the end of one.
MCQueries == {[ipa |-> 1, len |-> 2], [ipa |-> 5, len |-> 1]}

Symmetry == Permutations(Buffers)
=============================================================================
