----------------------------- MODULE CapGestures -----------------------------
(***************************************************************************)
(* The pointer on the keyboard's caps (Keyboard.qml, HoldMenu.qml): a      *)
(* press types at once or at its release, a hold opens the menu of the     *)
(* cap's column, a rest types and then opens that menu, and an entry is    *)
(* clicked or rested on; beside them caps facts, the typing gate, the      *)
(* emoji search, the settings and the closing of the panel.                *)
(*                                                                         *)
(* Abstracted: one pointer, a mouse or a finger; what a key types is the   *)
(* reducer's; a timer fires up to a step early or late (Qt's coarse        *)
(* timers), the steps themselves being those of Dwell.                     *)
(***************************************************************************)
EXTENDS Dwell

CONSTANTS
    Budgets,   \* how often each thing happens, one per scenario
    Columns    \* the caps whose position may have a column

(* Nowhere, the surroundings and a menu's entry are not caps. *)
ASSUME GestureAssumption ==
    Columns \subseteq Caps /\ Caps \cap {"none", "out", "entry"} = {}

VARIABLES
    profile,   \* the setting, the observation and the dwell setting
    facts,     \* inputReady, searchMode, and the columns of capsFacts
    pointer,   \* what it is over, the cap whose button it holds, and how
    k,         \* what the keyboard remembers of the gesture
    quiet,     \* steps since the pointer last moved to or pressed anything
    budget

vars == <<profile, facts, pointer, k, quiet, budget>>

(* `live`: the delegate pressed, held or opened over is still on the board. *)
Away == [over |-> "out", cap |-> "none", live |-> FALSE, inside |-> FALSE]
NoHold == [cap |-> "none", live |-> FALSE, due |-> 0]
NoMenu == [cap |-> "none", live |-> FALSE]

(* `typed`: keys typed by the last click and the last rest; `opened`: the   *)
(* last click's hold opened a menu; `down`: the cap whose key is down.      *)
Init ==
    /\ profile \in [setting : {"auto", "mouse", "touch"}, observed : {FALSE}, dwell : BOOLEAN]
    /\ facts = [ready |-> TRUE, search |-> FALSE, columns |-> Columns]
    /\ pointer = Away
    /\ k = [hold |-> NoHold, menu |-> NoMenu, rest |-> NoRest, down |-> "none",
            typed |-> [click |-> 0, rest |-> 0], opened |-> FALSE]
    /\ quiet = 0 /\ budget \in Budgets

Spend(kind) == /\ budget[kind] > 0
               /\ budget' = [budget EXCEPT ![kind] = @ - 1]

-----------------------------------------------------------------------------
(* The keyboard's functions. *)

dwellReset(g) == [g EXCEPT !.rest = NoRest]
clearCapHold(g) == [g EXCEPT !.hold = NoHold]
closeHoldMenu(g) == [g EXCEPT !.menu = NoMenu]
releaseKey(g) == [g EXCEPT !.down = "none"]

FoldAll(g) == dwellReset(closeHoldMenu(clearCapHold(g)))

(* A search takes the key for its query, and a closed gate takes it away. *)
typeCap(g, cap, act) ==
    IF eligible(facts) THEN [g EXCEPT !.down = cap, !.typed[act] = @ + 1] ELSE g

dwellEnter(g, cap, p) ==
    LET r == dwellReset(g)
        f == closeHoldMenu(r)
    IN  IF ~dwellArms(p) THEN r
        ELSE IF ~eligible(facts) THEN f
        ELSE [f EXCEPT !.rest = enter(cap, cap \in facts.columns), !.typed.rest = 0]

dwellEnterEntry(g) ==
    IF dwellArms(profile) /\ eligible(facts)
    THEN [g EXCEPT !.rest = enter("entry", FALSE), !.typed.rest = 0]
    ELSE dwellReset(g)

dwellLeave(g, target) == IF g.rest.on = target THEN dwellReset(g) ELSE g

openHoldMenu(g) ==
    IF g.hold.cap = "none" \/ ~g.hold.live THEN clearCapHold(g)
    ELSE IF g.hold.cap \notin facts.columns THEN g
    ELSE [clearCapHold(g) EXCEPT !.menu = [cap |-> g.hold.cap, live |-> TRUE]]

pickHoldEntry(g, act) ==
    LET cap == g.menu.cap
    IN  IF cap = "none" THEN closeHoldMenu(g)
        ELSE releaseKey(typeCap(closeHoldMenu(g), cap, act))

-----------------------------------------------------------------------------
(* The pointer. *)

Pressing == pointer.cap # "none"
Menu == k.menu.cap # "none"

(* The pointer moves with no button down: what it leaves, what it enters. *)
Hover(x) ==
    /\ ~Pressing /\ x # pointer.over /\ (x = "entry" => Menu)
    /\ Spend("moves")
    /\ pointer' = [pointer EXCEPT !.over = x]
    /\ LET left == dwellLeave(k, pointer.over)
       IN  k' = CASE x = "out" -> left
                  [] x = "entry" -> dwellEnterEntry(left)
                  [] OTHER -> dwellEnter(left, x, profile)
    /\ quiet' = 0
    /\ UNCHANGED <<profile, facts>>

PressBegins(g) == [dwellReset(g) EXCEPT !.typed.click = 0, !.opened = FALSE]

(* Only a mouse hovers before it presses; the menu's catch area keeps every *)
(* cap from a press.                                                        *)
Press(cap, finger) ==
    /\ ~Pressing /\ ~Menu /\ pointer.over = IF finger THEN "out" ELSE cap
    /\ Spend("presses")
    /\ profile' = [profile EXCEPT !.observed = @ \/ finger]
    /\ pointer' = [pointer EXCEPT !.cap = cap, !.live = TRUE, !.inside = TRUE]
    /\ LET g == PressBegins(k)
       IN  k' = IF ~facts.ready THEN g
                ELSE IF cap \notin Keys /\ defersTyping(profile', cap, facts)
                THEN [g EXCEPT !.hold = [cap |-> cap, live |-> TRUE, due |-> Window]]
                ELSE typeCap(g, cap, "click")
    /\ quiet' = 0
    /\ UNCHANGED facts

(* With the button down the cap keeps the grab: it alone is left or entered. *)
Drag ==
    /\ Pressing /\ pointer.live /\ Spend("drags")
    /\ LET cap == pointer.cap
           goes == pointer.over = cap \/ (pointer.inside /\ resolve(profile) = "touch")
       IN  /\ pointer' = [pointer EXCEPT !.over = IF goes THEN "out" ELSE cap,
                                         !.inside = ~goes]
           /\ k' = IF goes THEN dwellLeave(k, cap) ELSE dwellEnter(k, cap, profile)
    /\ quiet' = 0
    /\ UNCHANGED <<profile, facts>>

(* endCapHold: what a release does, and whether the hold took it. *)
endCapHold(g, cap, inside) ==
    IF g.hold.cap # "none"
    THEN IF ~g.hold.live THEN [taken |-> FALSE, g |-> g]
         ELSE [taken |-> TRUE,
               g |-> IF inside THEN releaseKey(typeCap(clearCapHold(g), cap, "click"))
                               ELSE clearCapHold(g)]
    ELSE [taken |-> g.menu.cap = cap /\ g.menu.live, g |-> g]

Release ==
    /\ Pressing
    /\ LET cap == pointer.cap
           end == endCapHold(k, cap, pointer.inside \/ resolve(profile) # "touch")
           lifted == releaseKey(end.g)
       IN  k' = IF ~pointer.live THEN k
                ELSE IF end.taken THEN end.g
                ELSE IF dwellArms(profile) /\ pointer.over = cap
                     THEN dwellEnter(lifted, cap, profile) ELSE lifted
    /\ pointer' = [pointer EXCEPT !.cap = "none", !.live = FALSE, !.inside = FALSE]
    /\ UNCHANGED <<profile, facts, quiet, budget>>

(* The grab is lost, to a popup or another surface. *)
Cancel ==
    /\ Pressing /\ pointer.live /\ Spend("cancels")
    /\ LET cap == pointer.cap
           g == dwellReset(k)
       IN  k' = IF (g.hold.cap = cap /\ g.hold.live) \/ (g.menu.cap = cap /\ g.menu.live)
                THEN closeHoldMenu(clearCapHold(g)) ELSE releaseKey(g)
    /\ pointer' = Away
    /\ quiet' = 0
    /\ UNCHANGED <<profile, facts>>

(* A click on an entry picks it, and anywhere else folds the menu. *)
EntryClick ==
    /\ Menu /\ ~Pressing /\ pointer.over = "entry"
    /\ LET g == [PressBegins(k) EXCEPT !.typed.click = 0]
       IN  k' = IF facts.ready THEN pickHoldEntry(g, "click") ELSE g
    /\ quiet' = 0
    /\ UNCHANGED <<profile, facts, pointer, budget>>

ClickAway ==
    /\ Menu /\ ~Pressing
    /\ k' = closeHoldMenu(k)
    /\ UNCHANGED <<profile, facts, pointer, quiet, budget>>

(* The entries go with the menu, and the pointer is over what was beneath. *)
EntryGone ==
    /\ ~Menu /\ pointer.over = "entry"
    /\ pointer' = [pointer EXCEPT !.over = "out"]
    /\ k' = dwellLeave(k, "entry")
    /\ UNCHANGED <<profile, facts, quiet, budget>>

-----------------------------------------------------------------------------
(* The timers. *)

Resting == k.rest.phase \in {"armed", "spent"}
Holding == k.hold.cap # "none" /\ k.hold.due > -2

Tick ==
    /\ Resting \/ Holding
    /\ Resting => k.rest.due >= 0
    /\ Holding => k.hold.due >= 0
    /\ k' = [k EXCEPT !.rest.elapsed = IF Resting THEN @ + 1 ELSE @,
                      !.rest.due = IF Resting THEN @ - 1 ELSE @,
                      !.hold.due = IF Holding THEN @ - 1 ELSE @]
    /\ quiet' = IF quiet < Delay THEN quiet + 1 ELSE quiet
    /\ UNCHANGED <<profile, facts, pointer, budget>>

(* A hold whose cap has no column stays pending, its one timer spent. *)
HoldFires ==
    /\ Holding /\ k.hold.due <= 1
    /\ LET g == openHoldMenu([k EXCEPT !.hold.due = -2])
       IN  k' = [g EXCEPT !.opened = g.menu.cap # "none"]
    /\ UNCHANGED <<profile, facts, pointer, quiet, budget>>

(* dwellFire: the entry's pick, or the cap's key down and up. *)
dwellFire(g) ==
    IF g.rest.on = "entry"
    THEN IF eligible(facts) THEN pickHoldEntry(dwellReset(g), "rest") ELSE dwellReset(g)
    ELSE IF ~eligible(facts) THEN dwellReset(g)
    ELSE releaseKey(typeCap(g, g.rest.on, "rest"))

dwellOpenMenu(g) ==
    IF g.rest.on \notin facts.columns THEN dwellReset(g)
    ELSE openHoldMenu([dwellReset(g) EXCEPT
                          !.hold = [cap |-> g.rest.on, live |-> TRUE, due |-> -2]])

(* Mutant: a timer that fires before the deadline is not armed again. *)
RearmsNot(rest, phase) == [rest EXCEPT !.phase = phase, !.due = -2]

Rearms(rest, phase) ==
    LET next == [rest EXCEPT !.phase = phase] IN [next EXCEPT !.due = nextArmMs(next)]

dwellTick ==
    /\ Resting /\ k.rest.due \in {-1, 0, 1}
    /\ LET result == tick(k.rest)
           g == [k EXCEPT !.rest = Rearms(@, result.phase)]
       IN  k' = CASE result.action = "press" -> dwellFire(g)
                  [] result.action = "menu" -> dwellOpenMenu(g)
                  [] OTHER -> g
    /\ UNCHANGED <<profile, facts, pointer, quiet, budget>>

-----------------------------------------------------------------------------
(* What happens to the board under the pointer. *)

(* A rebuilt board has none of its delegates: no release reaches them. *)
Dead(g) == [g EXCEPT !.hold.live = FALSE, !.menu.live = FALSE]

(* Mutant: a rebuild leaves a pressed key to a release that cannot come. *)
RebuiltUnlifted(g) == Dead(dwellReset(g))

Rebuilt(g) == Dead(releaseKey(dwellReset(g)))

Grounded ==
    [pointer EXCEPT !.live = FALSE, !.over = IF @ \in Caps THEN "out" ELSE @]

RowsChange ==
    /\ Spend("turns")
    /\ k' = Rebuilt(k) /\ pointer' = Grounded
    /\ UNCHANGED <<profile, facts, quiet>>

(* New caps facts rebuild the rows when the caps drawn differ. *)
FactsChange(columns, rows) ==
    /\ Spend("turns") /\ columns # facts.columns
    /\ facts' = [facts EXCEPT !.columns = columns]
    /\ k' = dwellReset(closeHoldMenu(IF rows THEN Rebuilt(k) ELSE k))
    /\ pointer' = IF rows THEN Grounded ELSE pointer
    /\ UNCHANGED <<profile, quiet>>

GateTurns ==
    /\ Spend("turns")
    /\ facts' = [facts EXCEPT !.ready = ~@]
    /\ UNCHANGED <<profile, pointer, k, quiet>>

SearchTurns ==
    /\ Spend("turns")
    /\ facts' = [facts EXCEPT !.search = ~@]
    /\ k' = IF facts'.search THEN FoldAll(k) ELSE k
    /\ UNCHANGED <<profile, pointer, quiet>>

(* A rest dies with the profile it was made under, and with dwell itself. *)
SettingsTurn(next) ==
    /\ Spend("turns") /\ next # profile /\ next.observed = profile.observed
    /\ profile' = next
    /\ k' = IF resolve(next) # resolve(profile) \/ ~next.dwell THEN dwellReset(k) ELSE k
    /\ UNCHANGED <<facts, pointer, quiet>>

(* The panel closes: releaseModifiers, and the touch is forgotten. *)
Close ==
    /\ Spend("turns")
    /\ k' = releaseKey(FoldAll(k))
    /\ profile' = [profile EXCEPT !.observed = FALSE]
    /\ pointer' = Away
    /\ UNCHANGED <<facts, quiet>>

Settings == [setting : {"auto", "mouse", "touch"}, observed : BOOLEAN, dwell : BOOLEAN]

Next ==
    \/ \E x \in Caps \cup {"out", "entry"} : Hover(x)
    \/ \E cap \in Caps, finger \in BOOLEAN : Press(cap, finger)
    \/ Drag \/ Release \/ Cancel \/ EntryClick \/ ClickAway \/ EntryGone
    \/ Tick \/ HoldFires \/ dwellTick
    \/ RowsChange \/ GateTurns \/ SearchTurns \/ Close
    \/ \E columns \in SUBSET Columns, rows \in BOOLEAN : FactsChange(columns, rows)
    \/ \E next \in Settings : SettingsTurn(next)

Spec == Init /\ [][Next]_vars

(* Time passes, and a timer that is due fires. *)
FairSpec ==
    /\ Spec
    /\ WF_vars(Tick) /\ WF_vars(HoldFires) /\ WF_vars(dwellTick)
    /\ WF_vars(EntryGone)

-----------------------------------------------------------------------------
(* Each act types once: neither a click nor a rest types more than one key, *)
(* whatever happens between its press and its release, or in the course of  *)
(* the rest.  It counts per act; across acts see PressesSupersedeRests.     *)
OneActOneKey == k.typed.click <= 1 /\ k.typed.rest <= 1

(* Keyboard.qml, onRowModelChanged and onCanceled: a key is down only while *)
(* a cap that can still lift it is pressed.                                 *)
NothingIsLeftDown == k.down # "none" => pointer.cap = k.down /\ pointer.live

(* HoldColumn.js: the threshold firing strands no stray character.  A click *)
(* whose hold opened the menu types nothing, its release included.          *)
HeldMenusTypeNothing == k.opened => k.typed.click = 0

(* Keyboard.qml, dwellOpenMenu: no phantom hold.  A hold that some release  *)
(* could still type is that of the cap pressed now.                         *)
HoldsAreHeld ==
    k.hold.cap # "none" /\ k.hold.live => pointer.cap = k.hold.cap /\ pointer.live

(* Dwell.js: a rest types after the whole delay and is cancelled by a leave *)
(* or a press.  A key typed by a rest follows Delay steps in which nothing  *)
(* was entered, left or pressed, under a profile that lets a rest type.     *)
RestTypes == k'.typed.rest > k.typed.rest
RestsAreUndisturbed == [][RestTypes => quiet >= Delay /\ dwellArms(profile)]_vars

(* Keyboard.qml, dwellTick: "or the rest stays armed forever with no error". *)
(* Every rest ends: it types, and opens its menu or is over, or is let go.   *)
RestsAreDecided == Resting ~> ~Resting

(* Keyboard.qml: "A physical press supersedes any rest: dwell and click     *)
(* never double-type".  Read of the whole press: no rest types while the    *)
(* button is down.                                                          *)
PressesSupersedeRests == [][RestTypes => ~Pressing]_vars
=============================================================================
