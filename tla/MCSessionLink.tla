--------------------------- MODULE MCSessionLink ---------------------------
(* Keymap a: two groups.  Keymap b: its file carries one, the list names two. *)
EXTENDS SessionLink, TLC
CONSTANTS a, b
MCGroups == a :> 2 @@ b :> 1
MCListed == a :> 2 @@ b :> 2
=============================================================================
