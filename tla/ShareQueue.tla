----------------------------- MODULE ShareQueue -----------------------------
(***************************************************************************)
(* ShareQueue.js: one share run at a time, launched for a generation of    *)
(* the keymap; a newer generation met meanwhile is only wished for.        *)
(* Operators return the next state and whether a run must be started.      *)
(***************************************************************************)
EXTENDS Naturals

NoRun == [running |-> FALSE, launched |-> 0, wished |-> 0, shared |-> 0]

Newer(a, b) == IF a > b THEN a ELSE b

acked(state, generation) ==
    LET wish == Newer(state.wished, generation)
    IN  IF generation <= state.shared
        THEN [state |-> state, start |-> FALSE]
        ELSE IF state.running
        THEN [state |-> [state EXCEPT !.wished = wish], start |-> FALSE]
        ELSE [state |-> [state EXCEPT !.wished = wish, !.running = TRUE,
                                      !.launched = wish],
              start |-> TRUE]

(* Success shares what the run launched, and goes on to a newer wish at once;
   failure keeps the run for the caller's retry. *)
runFinished(state, succeeded) ==
    LET pending == state.wished > state.launched
    IN  IF ~state.running \/ ~succeeded
        THEN [state |-> state, start |-> FALSE]
        ELSE [state |-> [running |-> pending,
                         launched |-> IF pending THEN state.wished ELSE 0,
                         wished |-> state.wished,
                         shared |-> state.launched],
              start |-> pending]

runAbandoned(state) == [state EXCEPT !.running = FALSE, !.launched = 0]

displaced(state) == [state EXCEPT !.shared = 0]

=============================================================================
