---------------------------- MODULE MCKbFileShare ----------------------------
(***************************************************************************)
(* KbFileShare for TLC: one value that can be put back and one that cannot.*)
(***************************************************************************)
EXTENDS KbFileShare, TLC

MCUserFiles == {"/home/u/my.xkb", "my.xkb"}
MCAbsolute == {"/home/u/my.xkb"}

ConnSymmetry == Permutations(Conns)
=============================================================================
