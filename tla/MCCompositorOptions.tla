------------------------ MODULE MCCompositorOptions ------------------------
(***************************************************************************)
(* CompositorOptions on small bounds, one scenario at a time: openings     *)
(* with failures and reloads for the cursor policy, and openings of a      *)
(* docked panel for the nudge.                                             *)
(***************************************************************************)
EXTENDS CompositorOptions

Budget(opens, reloads, evals, failures, destroys, gapFailures, docked) ==
    [opens |-> opens, reloads |-> reloads, evals |-> evals, failures |-> failures,
     destroys |-> destroys, gapFailures |-> gapFailures, gaps |-> docked]

MCBudgets == {
    Budget(3, 1, 0, 2, 0, 0, FALSE),
    Budget(2, 1, 1, 1, 0, 0, FALSE),
    Budget(2, 0, 2, 0, 1, 0, FALSE),
    Budget(2, 1, 0, 1, 1, 0, FALSE),
    Budget(2, 0, 0, 0, 1, 3, TRUE),
    Budget(1, 1, 0, 0, 0, 2, TRUE) }
=============================================================================
