---------------------------- MODULE MCCapGestures ----------------------------
(***************************************************************************)
(* CapGestures on a letter whose column comes and goes, a glyph of the     *)
(* symbol page and Backspace, one scenario at a time.                      *)
(***************************************************************************)
EXTENDS CapGestures

Budget(moves, presses, drags, cancels, turns) ==
    [moves |-> moves, presses |-> presses, drags |-> drags, cancels |-> cancels,
     turns |-> turns]

MCBudgets == { Budget(3, 2, 2, 1, 1), Budget(2, 1, 1, 0, 2), Budget(4, 1, 0, 0, 1) }
=============================================================================
