------------------------------ MODULE MCGicSpi ------------------------------
(* GicSpi for TLC: the interrupts the devices raise are interchangeable. *)
EXTENDS GicSpi, TLC

Symmetry == Permutations(Spis)
=============================================================================
