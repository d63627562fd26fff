--------------------------- MODULE MCLayoutFollow ---------------------------
(* Two keyboards and a power button, two layouts. *)
EXTENDS LayoutFollow
CONSTANTS k1, k2, button
MCOrder == <<k1, button, k2>>
=============================================================================
