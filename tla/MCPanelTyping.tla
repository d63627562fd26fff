---------------------------- MODULE MCPanelTyping ----------------------------
(* A letter, a pair cap of level 3, and exact caps of levels 1 and 8. *)
EXTENDS PanelTyping
CONSTANTS us, ru
Letter == [position |-> "A", letter |-> TRUE, shift |-> FALSE, altgr |-> FALSE,
           level5 |-> FALSE, level3 |-> FALSE, exact |-> FALSE]
Pair == [Letter EXCEPT !.position = "E", !.letter = FALSE, !.altgr = TRUE]
Digit == [Letter EXCEPT !.position = "1", !.letter = FALSE, !.exact = TRUE]
Glyph == [Digit EXCEPT !.position = "G", !.shift = TRUE, !.altgr = TRUE,
                       !.level5 = TRUE, !.level3 = TRUE]
MCCaps == {Letter, Pair, Digit, Glyph}
=============================================================================
