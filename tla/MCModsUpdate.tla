---------------------------- MODULE MCModsUpdate ----------------------------
(* Instances of ModsUpdate for TLC: mods are interchangeable.              *)
EXTENDS ModsUpdate, TLC

ModSymmetry == Permutations(Mods)
=============================================================================
