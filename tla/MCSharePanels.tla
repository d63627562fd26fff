---------------------------- MODULE MCSharePanels ----------------------------
(***************************************************************************)
(* SharePanels for TLC: the user's setting is unset, a file that exists, or*)
(* a relative path; an absolute path that names no file is a run of its    *)
(* own, because the code loses it.                                         *)
(***************************************************************************)
EXTENDS SharePanels, TLC

MCUserFiles == {"/home/u/my.xkb", "my.xkb"}
MCAbsolute == {"/home/u/my.xkb"}

MCTwoFiles == {"/home/u/my.xkb", "/home/u/other.xkb"}
MCOneFile == {"/home/u/my.xkb"}
MCGoneFile == {"/home/u/gone.xkb"}

PanelSymmetry == Permutations(Conns)
=============================================================================
