---------------------------- MODULE MCRegistries ----------------------------
(***************************************************************************)
(* An instance of Registries.  Serializers and pointers are alike.         *)
(***************************************************************************)
EXTENDS Registries, TLC

CONSTANTS s1, s2, p1, p2, p3

MCSerializers == {s1, s2}
MCPointers == {p1, p2, p3}
MCSymmetry == Permutations(MCSerializers) \cup Permutations(MCPointers)
=============================================================================
