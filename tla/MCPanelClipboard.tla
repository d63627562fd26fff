-------------------------- MODULE MCPanelClipboard --------------------------
(***************************************************************************)
(* PanelClipboard on small bounds: bursts of three picks with failures, a  *)
(* pick beside clicks on the chip, and the chip and the panel's own read   *)
(* on their own.                                                           *)
(***************************************************************************)
EXTENDS PanelClipboard

Budget(picks, copies, stalls, failures, clicks, peeks, moves, closes, watch) ==
    [kind \in {"picks", "copies", "stalls", "failures", "clicks", "peeks", "moves",
               "closes", "watch"} |->
        CASE kind = "picks" -> picks [] kind = "copies" -> copies
          [] kind = "stalls" -> stalls [] kind = "failures" -> failures
          [] kind = "clicks" -> clicks [] kind = "peeks" -> peeks
          [] kind = "moves" -> moves [] kind = "closes" -> closes
          [] OTHER -> watch]

MCBudgets == {
    Budget(3, 0, 0, 2, 0, 0, 0, 0, 0),
    Budget(2, 1, 1, 1, 0, 0, 0, 0, 0),
    Budget(1, 1, 0, 1, 1, 0, 0, 0, 0),
    Budget(1, 0, 1, 1, 1, 0, 0, 0, 1),
    Budget(0, 1, 1, 0, 2, 0, 1, 0, 1),
    Budget(0, 2, 1, 0, 0, 2, 0, 1, 1) }

(* A queued pick behind one that fails. *)
QueuedBudgets == { Budget(2, 0, 0, 2, 0, 0, 0, 0, 0) }
=============================================================================
