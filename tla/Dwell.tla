-------------------------------- MODULE Dwell --------------------------------
(***************************************************************************)
(* The pure rules of a press, a hold and a rest on a cap: the rest machine *)
(* of Dwell.js, the caps that defer their typing (HoldColumn.js) and what  *)
(* the input profile switches (InputProfile.js).                           *)
(*                                                                         *)
(* Abstracted: time is counted in steps, Delay of them to a key and Window *)
(* more to the menu; a cap is its kind, and its column is there or not;    *)
(* unavailable caps and the panel's own command caps, which never rest or  *)
(* hold, are left out, and so is the underline's progress.                 *)
(***************************************************************************)
EXTENDS Integers

CONSTANTS
    Caps,     \* the caps of the board
    Keys,     \* modifiers and keysym caps: they act at the press
    Fixed,    \* caps whose label the panel draws itself, such as Space
    Exact,    \* caps that type one level of a position
    Delay,    \* steps of rest that type
    Window    \* steps a hold takes to open its column

ASSUME DwellAssumption ==
    /\ Keys \subseteq Caps /\ Fixed \subseteq Caps /\ Exact \subseteq Caps
    /\ Delay \in Nat \ {0} /\ Window \in Nat \ {0}

resolve(profile) ==
    IF profile.setting # "auto" THEN profile.setting
    ELSE IF profile.dwell THEN "mouse"
    ELSE IF profile.observed THEN "touch" ELSE "mouse"

dwellArms(profile) == profile.dwell /\ resolve(profile) # "touch"

(* facts: the gate (ready), the emoji search, and who has a column now. *)
eligible(facts) == facts.ready /\ ~facts.search

Holds(cap, facts) == cap \in facts.columns \ (Keys \cup Fixed \cup Exact)
shouldDefer(cap, facts) == eligible(facts) /\ Holds(cap, facts)
touchDefers(cap, facts) == eligible(facts) /\ cap \notin Keys \cup Fixed

defersTyping(profile, cap, facts) ==
    IF resolve(profile) = "touch" THEN touchDefers(cap, facts)
                                  ELSE ~profile.dwell /\ shouldDefer(cap, facts)

-----------------------------------------------------------------------------
(* A rest: its phase, the steps since it began, and the timer's remainder.  *)

NoRest == [phase |-> "dead", on |-> "none", column |-> FALSE, elapsed |-> 0, due |-> 0]

enter(target, column) ==
    [phase |-> "armed", on |-> target, column |-> column, elapsed |-> 0, due |-> Delay]

Deadline(rest) == IF rest.phase = "spent" THEN Delay + Window ELSE Delay

AtLeastOne(n) == IF n < 1 THEN 1 ELSE n
nextArmMs(rest) == AtLeastOne(Deadline(rest) - rest.elapsed)

(* Mutant: a rest that typed may type again. *)
tickAgain(rest) ==
    IF rest.elapsed < Deadline(rest) \/ rest.phase \notin {"armed", "spent"}
    THEN [action |-> "none", phase |-> rest.phase]
    ELSE [action |-> IF rest.phase = "armed" THEN "press" ELSE "menu",
          phase  |-> IF rest.phase = "armed" THEN "armed" ELSE "done"]

(* A deadline crossed: the key, and then the menu of a cap with a column. *)
tick(rest) ==
    IF rest.elapsed < Deadline(rest) \/ rest.phase \notin {"armed", "spent"}
    THEN [action |-> "none", phase |-> rest.phase]
    ELSE [action |-> IF rest.phase = "armed" THEN "press" ELSE "menu",
          phase  |-> IF rest.phase = "armed" /\ rest.column THEN "spent" ELSE "done"]
=============================================================================
