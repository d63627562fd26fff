--------------------------- MODULE ModifierReducer ---------------------------
(***************************************************************************)
(* ModifierReducer.js: modifiers, Caps and the key under the mouse button.  *)
(* Each event gives the next state and the lines to write.                  *)
(*                                                                         *)
(* A position is named after the modifier it carries, LVL3 (the AltGr of    *)
(* the reserved symbols) and the caps' positions aside.  Fn changes what is *)
(* drawn and is left out.                                                   *)
(***************************************************************************)
EXTENDS Integers, Sequences

Modifiers == {"ctrl", "alt", "logo", "level5", "altgr", "shift"}
Clickable == Modifiers \ {"level5"}

NoPending == [position |-> "", wrap |-> {}, restore |-> {}, level3 |-> FALSE, stamp |-> 0]
NoClick == "none"

initialState == [mods |-> [m \in Modifiers |-> "idle"], caps |-> FALSE,
                 pending |-> NoPending, lastClick |-> NoClick, prevClick |-> NoClick]

InState(state, value) == {m \in Modifiers : state.mods[m] = value}
isActive(state, m) == state.mods[m] \in {"latched", "locked"}

(* Which key carries a modifier for one chord. *)
KeyOf(m, level3) == IF m = "altgr" /\ level3 THEN "LVL3" ELSE m

Down(key) == <<"down", key>>
Up(key) == <<"up", key>>
LineOf(verb, m, set, level3) ==
    IF m \in set THEN <<<<verb, KeyOf(m, level3)>>>> ELSE <<>>
(* ORDER, in which modifiers go down around a key, and the reverse. *)
Lines(verb, set, level3) ==
    LET Line(m) == LineOf(verb, m, set, level3)
    IN  Line("ctrl") \o Line("alt") \o Line("logo")
          \o Line("level5") \o Line("altgr") \o Line("shift")
Lift(set, level3) ==
    LET Line(m) == LineOf("up", m, set, level3)
    IN  Line("shift") \o Line("altgr") \o Line("level5")
          \o Line("logo") \o Line("alt") \o Line("ctrl")

-----------------------------------------------------------------------------
(* Clicks.  Only a lock is held at the device. *)

transition(state, m, target) ==
    [state |-> [state EXCEPT !.mods[m] = target],
     lines |-> IF (state.mods[m] = "locked") = (target = "locked") THEN <<>>
               ELSE IF target = "locked" THEN <<Down(m)>> ELSE <<Up(m)>>]

capsClick(state) == [state EXCEPT !.caps = ~@]

click(state, m) ==
    LET out == transition(state, m, IF state.mods[m] = "idle" THEN "latched" ELSE "idle")
    IN  [out EXCEPT !.state.prevClick = IF m = "shift" THEN state.lastClick ELSE NoClick,
                    !.state.lastClick = IF m = "shift" THEN state.mods[m] ELSE NoClick]

(* Shift before the first click of the gesture a double click ends. *)
gestureOrigin(state) ==
    IF state.prevClick # NoClick THEN state.prevClick
    ELSE IF state.lastClick # NoClick THEN state.lastClick
    ELSE state.mods["shift"]

doubleClick(state, m) ==
    LET target == IF m = "shift" /\ gestureOrigin(state) # "locked" THEN "locked" ELSE "idle"
    IN  [transition(state, m, target) EXCEPT !.state.lastClick = NoClick,
                                             !.state.prevClick = NoClick]

-----------------------------------------------------------------------------
(* Keys.  A cap is a record [position, letter, shift, altgr, level5, level3,
   exact]: what it asks of the chord it is typed with. *)

(* Caps swaps letters, and nothing else. *)
shiftWanted(state, cap, shiftLatched) ==
    IF cap.letter THEN state.caps # shiftLatched ELSE shiftLatched

shiftForPress(state, cap) ==
    LET shift == state.mods["shift"]
    IN  CASE cap.exact /\ shift = "locked"  -> IF cap.shift THEN "leave-down" ELSE "lift-around"
          [] cap.exact /\ shift # "locked"  -> IF cap.shift THEN "wrap" ELSE "ignore"
          [] ~cap.exact /\ shift = "locked" ->
                IF state.caps /\ cap.letter THEN "lift-around" ELSE "leave-down"
          [] ~cap.exact /\ shift = "latched" ->
                IF shiftWanted(state, cap, TRUE) THEN "wrap" ELSE "ignore"
          [] ~cap.exact /\ shift = "idle" ->
                IF cap.shift \/ shiftWanted(state, cap, FALSE) THEN "wrap" ELSE "ignore"

(* Every latch is spent by a key, applied or not. *)
spendLatches(state) ==
    [state EXCEPT !.mods = [m \in Modifiers |-> IF @[m] = "latched" THEN "idle" ELSE @[m]]]

(* Mutant: an exact cap applies whatever is latched. *)
latchesApplied(state, cap) == InState(state, "latched") \ {"shift"}
(* Latches that join the chord: Shift had its say, AltGr is an exact cap's. *)
latchesInChord(state, cap) ==
    InState(state, "latched") \ IF cap.exact THEN {"shift", "altgr"} ELSE {"shift"}

press(state, cap, stamp) ==
    LET plan == shiftForPress(state, cap)
        wrap == latchesInChord(state, cap)
                  \cup (IF plan = "wrap" THEN {"shift"} ELSE {})
                  \cup (IF cap.altgr THEN {"altgr"} ELSE {})
                  \cup (IF cap.level5 THEN {"level5"} ELSE {})
        restore == IF plan = "lift-around" THEN {"shift"} ELSE {}
    IN  [state |-> [spendLatches(state) EXCEPT
                      !.pending = [position |-> cap.position, wrap |-> wrap,
                                   restore |-> restore, level3 |-> cap.level3,
                                   stamp |-> stamp]],
         lines |-> Lift(restore, cap.level3) \o Lines("down", wrap, cap.level3)
                     \o <<Down(cap.position)>>]

(* Nothing pending, nothing to lift.  `restoring` is not dropRestore. *)
release(state, restoring) ==
    LET p == state.pending
    IN  IF p = NoPending THEN [state |-> state, lines |-> <<>>]
        ELSE [state |-> [state EXCEPT !.pending = NoPending],
              lines |-> <<Up(p.position)>> \o Lift(p.wrap, p.level3)
                          \o IF restoring THEN Lines("down", p.restore, p.level3) ELSE <<>>]

(* Mutant: a chord is forgotten by every drain, the one ahead of it too. *)
survivesNothing(pending, stamp) == FALSE
(* A chord pressed at or after the configure was sent is still down. *)
survives(pending, stamp) == pending # NoPending /\ pending.stamp >= stamp

(* A configure drained the helper (stamp -1: one failed). *)
configureDrain(state, stamp) ==
    [initialState EXCEPT !.caps = state.caps,
                         !.pending = IF survives(state.pending, stamp)
                                     THEN [state.pending EXCEPT !.restore = {}]
                                     ELSE NoPending]

(* The key under the button with its chord, then the locks it had not lifted. *)
releaseAll(state) ==
    [state |-> [initialState EXCEPT !.caps = state.caps],
     lines |-> release(state, FALSE).lines
                 \o Lift(InState(state, "locked") \ state.pending.restore, FALSE)]

(* A paste is one chord, whole, and never under a key still down. *)
paste(state, ctrl, shift, position) ==
    LET locked == state.mods["shift"] = "locked"
        wrap == (IF ctrl THEN {"ctrl"} ELSE {})
                  \cup (IF shift /\ ~locked THEN {"shift"} ELSE {})
        around == IF locked /\ ~shift THEN {"shift"} ELSE {}
    IN  IF state.pending # NoPending THEN [state |-> state, lines |-> <<>>]
        ELSE [state |-> spendLatches(state),
              lines |-> Lift(around, FALSE) \o Lines("down", wrap, FALSE)
                          \o <<Down(position), Up(position)>>
                          \o Lift(wrap, FALSE) \o Lines("down", around, FALSE)]

searchChar(state) == spendLatches(state)

=============================================================================
