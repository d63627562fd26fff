-------------------------- MODULE CapGestures_proofs --------------------------
(***************************************************************************)
(* What one act on the caps may do, for any caps, delays and budgets: it   *)
(* types at most one key, and no key stays down behind the pointer's back. *)
(* Neither promise is inductive: a pending hold and an armed rest are keys *)
(* still to come, so the invariant says that nothing was typed yet for     *)
(* them, and that no key is down under what will type or has opened.       *)
(***************************************************************************)
EXTENDS CapGestures, TLAPS

HoldStates == [cap : Caps \cup {"none"}, live : BOOLEAN, due : Int]
MenuStates == [cap : Caps \cup {"none"}, live : BOOLEAN]
RestStates ==
    [phase : {"dead", "armed", "spent", "done"}, on : Caps \cup {"none", "entry"},
     column : BOOLEAN, elapsed : Nat, due : Int]
Counts == [click : Nat, rest : Nat]

Gestures ==
    [hold : HoldStates, menu : MenuStates, rest : RestStates,
     down : Caps \cup {"none"}, typed : Counts, opened : BOOLEAN]

Pointers ==
    [over : Caps \cup {"out", "entry"}, cap : Caps \cup {"none"},
     live : BOOLEAN, inside : BOOLEAN]

CapFacts == [ready : BOOLEAN, search : BOOLEAN, columns : SUBSET Columns]

LiveHold(g) == g.hold.cap # "none" /\ g.hold.live

(* A key still to come has not been typed, and nothing is down under it.    *)
Owed(g) ==
    /\ LiveHold(g) => g.typed.click = 0
    /\ g.rest.phase = "armed" => g.typed.rest = 0
    /\ LiveHold(g) \/ g.menu.cap # "none" \/ g.rest.phase = "spent" => g.down = "none"

(* The hold and the key that is down are those of the cap pressed now.      *)
Pressed(g, p) ==
    /\ LiveHold(g) => p.cap = g.hold.cap /\ p.live
    /\ g.down # "none" => p.cap = g.down /\ p.live

Kept(g, p) ==
    /\ g \in Gestures
    /\ g.typed.click <= 1 /\ g.typed.rest <= 1
    /\ Owed(g) /\ Pressed(g, p)

IInv ==
    /\ profile \in Settings /\ facts \in CapFacts /\ pointer \in Pointers
    /\ Kept(k, pointer)

-----------------------------------------------------------------------------
(* The parts of a gesture.                                                  *)
LEMMA Parts ==
  ASSUME NEW g \in Gestures
  PROVE  /\ g.hold \in HoldStates /\ g.menu \in MenuStates /\ g.rest \in RestStates
         /\ g.typed \in Counts /\ g.down \in Caps \cup {"none"} /\ g.opened \in BOOLEAN
         /\ g.typed.click \in Nat /\ g.typed.rest \in Nat
  BY DEF Gestures, Counts

LEMMA Blanks ==
  NoRest \in RestStates /\ NoHold \in HoldStates /\ NoMenu \in MenuStates
  BY DEF NoRest, RestStates, NoHold, HoldStates, NoMenu, MenuStates

(* Another rest: it has typed nothing yet if it is armed, and nothing is    *)
(* down if it is spent.                                                     *)
LEMMA RestKeeps ==
  ASSUME NEW g, NEW p, Kept(g, p), NEW r \in RestStates,
         r.phase = "armed" => g.typed.rest = 0,
         r.phase = "spent" => g.down = "none"
  PROVE  Kept([g EXCEPT !.rest = r], p)
<1> DEFINE x == [g EXCEPT !.rest = r]
<1>1. /\ x \in Gestures /\ x.rest = r /\ x.hold = g.hold /\ x.menu = g.menu
      /\ x.down = g.down /\ x.typed = g.typed
  BY DEF Kept, Gestures
<1> SUFFICES Kept(x, p)
  OBVIOUS
<1> HIDE DEF x
<1> QED  BY <1>1 DEF Kept, Owed, Pressed, LiveHold

LEMMA ResetKeeps ==
  ASSUME NEW g, NEW p, Kept(g, p)
  PROVE  /\ Kept(dwellReset(g), p)
         /\ LiveHold(dwellReset(g)) = LiveHold(g) /\ dwellReset(g).down = g.down
         /\ dwellReset(g).typed = g.typed /\ dwellReset(g).rest.phase = "dead"
<1>1. Kept(dwellReset(g), p)
  BY RestKeeps, Blanks DEF dwellReset, NoRest
<1>2. /\ dwellReset(g).rest = NoRest /\ dwellReset(g).hold = g.hold
      /\ dwellReset(g).down = g.down /\ dwellReset(g).typed = g.typed
  BY DEF Kept, Gestures, dwellReset
<1>3. NoRest.phase = "dead"
  BY DEF NoRest
<1> QED  BY <1>1, <1>2, <1>3 DEF LiveHold

(* No hold: nothing is owed to one.                                         *)
LEMMA ClearKeeps ==
  ASSUME NEW g, NEW p, Kept(g, p)
  PROVE  /\ Kept(clearCapHold(g), p) /\ ~LiveHold(clearCapHold(g))
         /\ clearCapHold(g).down = g.down /\ clearCapHold(g).typed = g.typed
<1> DEFINE x == clearCapHold(g)
<1>1. /\ x \in Gestures /\ x.hold = NoHold /\ x.rest = g.rest /\ x.menu = g.menu
      /\ x.down = g.down /\ x.typed = g.typed
  BY Blanks DEF Kept, Gestures, clearCapHold
<1>2. NoHold.cap = "none"
  BY DEF NoHold
<1> HIDE DEF x
<1> QED  BY <1>1, <1>2 DEF Kept, Owed, Pressed, LiveHold, x

LEMMA CloseKeeps ==
  ASSUME NEW g, NEW p, Kept(g, p)
  PROVE  /\ Kept(closeHoldMenu(g), p)
         /\ LiveHold(closeHoldMenu(g)) = LiveHold(g) /\ closeHoldMenu(g).down = g.down
<1> DEFINE x == closeHoldMenu(g)
<1>1. /\ x \in Gestures /\ x.hold = g.hold /\ x.rest = g.rest /\ x.menu = NoMenu
      /\ x.down = g.down /\ x.typed = g.typed
  BY Blanks DEF Kept, Gestures, closeHoldMenu
<1>2. NoMenu.cap = "none"
  BY DEF NoMenu
<1> HIDE DEF x
<1> QED  BY <1>1, <1>2 DEF Kept, Owed, Pressed, LiveHold, x

(* A key that is lifted is down nowhere; what holds it does not matter then. *)
LEMMA LiftKeeps ==
  ASSUME NEW g, NEW p, Kept(g, p)
  PROVE  /\ Kept(releaseKey(g), p)
         /\ releaseKey(g).down = "none"
         /\ LiveHold(releaseKey(g)) = LiveHold(g)
<1> DEFINE x == releaseKey(g)
<1>1. /\ x \in Gestures /\ x.hold = g.hold /\ x.rest = g.rest /\ x.menu = g.menu
      /\ x.down = "none" /\ x.typed = g.typed
  BY DEF Kept, Gestures, releaseKey
<1> HIDE DEF x
<1> QED  BY <1>1 DEF Kept, Owed, Pressed, LiveHold, x

(* A key typed and lifted by one act, which typed none before and for which *)
(* no other is still to come.                                               *)
Spends(g, act) ==
    /\ g.typed[act] = 0
    /\ act = "click" => ~LiveHold(g)
    /\ act = "rest" => g.rest.phase # "armed"

LEMMA TapKeeps ==
  ASSUME NEW g, NEW p, Kept(g, p), NEW c \in Caps \cup {"none"},
         NEW act \in {"click", "rest"}, Spends(g, act)
  PROVE  LET x == releaseKey(typeCap(g, c, act))
         IN  Kept(x, p) /\ x.down = "none" /\ LiveHold(x) = LiveHold(g)
<1>1. CASE ~eligible(facts)
  BY <1>1, LiftKeeps DEF typeCap
<1>2. CASE eligible(facts)
  <2> DEFINE n == [g.typed EXCEPT ![act] = @ + 1]
             x == releaseKey(typeCap(g, c, act))
  <2>1. /\ x \in Gestures /\ x.hold = g.hold /\ x.rest = g.rest /\ x.menu = g.menu
        /\ x.down = "none" /\ x.typed = n
    <3> DEFINE y == [g EXCEPT !.down = c, !.typed = n]
    <3>1. x = [y EXCEPT !.down = "none"]
      BY <1>2 DEF typeCap, releaseKey
    <3>2. /\ y \in Gestures /\ y.hold = g.hold /\ y.rest = g.rest /\ y.menu = g.menu
          /\ y.typed = n
      <4>1. g \in Gestures
        BY DEF Kept
      <4>2. n \in Counts
        BY <4>1 DEF Gestures, Counts
      <4> HIDE DEF n
      <4> QED  BY <4>1, <4>2 DEF Gestures
    <3> HIDE DEF y, n
    <3> QED  BY <3>1, <3>2 DEF Gestures
  <2>2. /\ n.click = IF act = "click" THEN g.typed.click + 1 ELSE g.typed.click
        /\ n.rest = IF act = "rest" THEN g.typed.rest + 1 ELSE g.typed.rest
    BY Parts DEF Kept, Counts
  <2> HIDE DEF x, n
  <2>3. n.click <= 1 /\ n.rest <= 1
    BY <2>2 DEF Kept, Spends
  <2>4. Owed(x) /\ Pressed(x, p)
    BY <2>1, <2>2 DEF Kept, Owed, Pressed, LiveHold, Spends
  <2>5. Kept(x, p) /\ x.down = "none" /\ LiveHold(x) = LiveHold(g)
    BY <2>1, <2>3, <2>4 DEF Kept, LiveHold
  <2> QED  BY <2>5 DEF x
<1> QED  BY <1>1, <1>2

LEMMA PickKeeps ==
  ASSUME NEW g, NEW p, Kept(g, p), NEW act \in {"click", "rest"}, Spends(g, act)
  PROVE  Kept(pickHoldEntry(g, act), p)
<1> DEFINE x == closeHoldMenu(g)
<1>1. Kept(x, p)
  BY CloseKeeps
<1>2. x.hold = g.hold /\ x.rest = g.rest /\ x.typed = g.typed
  BY DEF Kept, Gestures, closeHoldMenu
<1> HIDE DEF x
<1>3. Spends(x, act)
  BY <1>2 DEF Spends, LiveHold
<1>4. CASE g.menu.cap = "none"
  BY <1>1, <1>4 DEF pickHoldEntry, x
<1>5. CASE g.menu.cap # "none"
  <2>1. g.menu.cap \in Caps
    BY <1>5, Parts DEF Kept, MenuStates
  <2> QED  BY <1>1, <1>3, <1>5, <2>1, TapKeeps DEF pickHoldEntry, x
<1> QED  BY <1>4, <1>5

(* The rest of a pointer that comes to a target has typed nothing yet.      *)
LEMMA ArmKeeps ==
  ASSUME NEW g, NEW p, Kept(g, p), NEW t \in Caps \cup {"entry"}, NEW c \in BOOLEAN
  PROVE  Kept([g EXCEPT !.rest = enter(t, c), !.typed.rest = 0], p)
<1> DEFINE r == enter(t, c)
           n == [g.typed EXCEPT !.rest = 0]
           x == [g EXCEPT !.rest = r, !.typed.rest = 0]
<1>1. r \in RestStates /\ r.phase = "armed"
  BY DwellAssumption DEF enter, RestStates
<1> HIDE DEF r
<1>2. /\ x \in Gestures /\ x.hold = g.hold /\ x.rest = r /\ x.menu = g.menu
      /\ x.down = g.down /\ x.typed = n
  BY <1>1 DEF Kept, Gestures, Counts
<1>3. n.click = g.typed.click /\ n.rest = 0
  BY Parts DEF Kept, Counts
<1> HIDE DEF x, n
<1>4. Kept(x, p)
  BY <1>1, <1>2, <1>3 DEF Kept, Owed, Pressed, LiveHold
<1> QED  BY <1>4 DEF x, r

LEMMA EnterKeeps ==
  ASSUME NEW g, NEW p, Kept(g, p), NEW t \in Caps, NEW pr
  PROVE  Kept(dwellEnter(g, t, pr), p)
<1>1. Kept(dwellReset(g), p) /\ Kept(closeHoldMenu(dwellReset(g)), p)
  BY ResetKeeps, CloseKeeps
<1>2. (t \in facts.columns) \in BOOLEAN
  OBVIOUS
<1> QED  BY <1>1, <1>2, ArmKeeps DEF dwellEnter

LEMMA EntryKeeps ==
  ASSUME NEW g, NEW p, Kept(g, p)
  PROVE  Kept(dwellEnterEntry(g), p)
  BY ResetKeeps, ArmKeeps DEF dwellEnterEntry

LEMMA LeaveKeeps ==
  ASSUME NEW g, NEW p, Kept(g, p), NEW t
  PROVE  Kept(dwellLeave(g, t), p)
  BY ResetKeeps DEF dwellLeave

(* A hold that opens its menu is over, and nothing is down under either.    *)
LEMMA OpenKeeps ==
  ASSUME NEW g, NEW p, g \in Gestures, Kept(clearCapHold(g), p),
         Kept(g, p) \/ (g.hold.cap \in facts.columns /\ LiveHold(g)),
         LiveHold(g) => g.down = "none"
  PROVE  Kept(openHoldMenu(g), p)
<1>1. CASE g.hold.cap = "none" \/ ~g.hold.live
  BY <1>1 DEF openHoldMenu
<1>2. CASE ~(g.hold.cap = "none" \/ ~g.hold.live) /\ g.hold.cap \notin facts.columns
  BY <1>2 DEF openHoldMenu
<1>3. CASE LiveHold(g) /\ g.hold.cap \in facts.columns
  <2> DEFINE y == clearCapHold(g)
             u == [cap |-> g.hold.cap, live |-> TRUE]
             x == [y EXCEPT !.menu = u]
  <2>1. openHoldMenu(g) = x
    BY <1>3 DEF openHoldMenu, LiveHold
  <2>2. u \in MenuStates
    BY Parts DEF MenuStates, HoldStates
  <2>3. y.down = "none"
    BY <1>3 DEF Gestures, clearCapHold
  <2> HIDE DEF u, y
  <2>4. /\ x \in Gestures /\ x.hold = y.hold /\ x.rest = y.rest /\ x.menu = u
        /\ x.down = y.down /\ x.typed = y.typed
    BY <2>2 DEF Kept, Gestures, y
  <2> HIDE DEF x
  <2>5. Kept(x, p)
    BY <2>3, <2>4 DEF Kept, Owed, Pressed, LiveHold, y
  <2> QED  BY <2>1, <2>5
<1> QED  BY <1>1, <1>2, <1>3 DEF LiveHold

-----------------------------------------------------------------------------
(* The pointer's own acts.                                                  *)

(* Where the pointer is does not matter, only what it presses.              *)
LEMMA KeptElsewhere ==
  ASSUME NEW g, NEW p, NEW q, Kept(g, p),
         LiveHold(g) \/ g.down # "none" => q.cap = p.cap /\ q.live = p.live
  PROVE  Kept(g, q)
  BY DEF Kept, Pressed

(* With no button down, nothing is held and no key is down.                 *)
LEMMA Unpressed ==
  ASSUME IInv, ~Pressing \/ ~pointer.live
  PROVE  ~LiveHold(k) /\ k.down = "none"
  BY DEF IInv, Kept, Pressed, LiveHold, Pressing

LEMMA HoverKeeps ==
  ASSUME IInv, NEW x \in Caps \cup {"out", "entry"}, Hover(x)
  PROVE  IInv'
<1> DEFINE left == dwellLeave(k, pointer.over)
<1>1. Kept(left, pointer)
  BY LeaveKeeps DEF IInv
<1>2. Kept(k', pointer)
  <2>1. x = "out" => k' = left
    BY DEF Hover
  <2>2. x = "entry" => k' = dwellEnterEntry(left)
    BY DEF Hover
  <2>3. x \notin {"out", "entry"} => x \in Caps /\ k' = dwellEnter(left, x, profile)
    BY DEF Hover
  <2> HIDE DEF left
  <2> QED  BY <1>1, <2>1, <2>2, <2>3, EntryKeeps, EnterKeeps
<1>3. pointer' \in Pointers /\ pointer'.cap = pointer.cap /\ pointer'.live = pointer.live
  BY DEF IInv, Pointers, Hover
<1>4. Kept(k', pointer')
  BY <1>2, <1>3, KeptElsewhere
<1> QED  BY <1>3, <1>4 DEF IInv, Hover

(* A press has typed nothing yet, and no rest survives it.                  *)
LEMMA BeginKeeps ==
  ASSUME NEW g, NEW p, Kept(g, p)
  PROVE  LET x == PressBegins(g)
         IN  /\ Kept(x, p) /\ x.hold = g.hold /\ x.menu = g.menu /\ x.down = g.down
             /\ x.typed.click = 0 /\ x.rest.phase = "dead"
<1> DEFINE y == dwellReset(g)
           n == [y.typed EXCEPT !.click = 0]
           x == [y EXCEPT !.typed.click = 0, !.opened = FALSE]
<1>1. /\ Kept(y, p) /\ y.hold = g.hold /\ y.menu = g.menu /\ y.down = g.down
      /\ y.rest.phase = "dead"
  <2>1. y.hold = g.hold /\ y.menu = g.menu
    BY DEF Kept, Gestures, dwellReset
  <2> QED  BY <2>1, ResetKeeps
<1> HIDE DEF y
<1>2. /\ x \in Gestures /\ x.hold = y.hold /\ x.rest = y.rest /\ x.menu = y.menu
      /\ x.down = y.down /\ x.typed = n
  BY <1>1 DEF Kept, Gestures, Counts
<1>3. n.click = 0 /\ n.rest = y.typed.rest
  BY <1>1, Parts DEF Kept, Counts
<1> HIDE DEF x, n
<1>4. Kept(x, p) /\ x.typed.click = 0
  BY <1>1, <1>2, <1>3 DEF Kept, Owed, Pressed, LiveHold
<1> QED  BY <1>1, <1>2, <1>4 DEF PressBegins, x, y

(* A press that is held down: the hold waits, or the key is down.           *)
LEMMA HoldKeeps ==
  ASSUME NEW g, NEW p, NEW q, Kept(g, p), g.down = "none", g.typed.click = 0,
         NEW c \in Caps, NEW due \in Int, q.cap = c, q.live = TRUE
  PROVE  Kept([g EXCEPT !.hold = [cap |-> c, live |-> TRUE, due |-> due]], q)
<1> DEFINE h == [cap |-> c, live |-> TRUE, due |-> due]
           x == [g EXCEPT !.hold = h]
<1>1. h \in HoldStates /\ h.cap = c
  BY DEF HoldStates
<1> HIDE DEF h
<1>2. /\ x \in Gestures /\ x.hold = h /\ x.rest = g.rest /\ x.menu = g.menu
      /\ x.down = g.down /\ x.typed = g.typed
  BY <1>1 DEF Kept, Gestures
<1> HIDE DEF x
<1>3. Kept(x, q)
  BY <1>1, <1>2 DEF Kept, Owed, Pressed, LiveHold
<1> QED  BY <1>3 DEF x, h

LEMMA DownKeeps ==
  ASSUME NEW g, NEW p, NEW q, Kept(g, p), ~LiveHold(g), g.menu.cap = "none",
         g.rest.phase = "dead", g.down = "none", g.typed.click = 0,
         NEW c \in Caps, q.cap = c, q.live = TRUE
  PROVE  Kept(typeCap(g, c, "click"), q)
<1>1. CASE ~eligible(facts)
  BY <1>1, KeptElsewhere DEF typeCap
<1>2. CASE eligible(facts)
  <2> DEFINE n == [g.typed EXCEPT !["click"] = @ + 1]
             x == [g EXCEPT !.down = c, !.typed["click"] = @ + 1]
  <2>1. /\ x \in Gestures /\ x.hold = g.hold /\ x.rest = g.rest /\ x.menu = g.menu
        /\ x.down = c /\ x.typed = n
    <3>1. x = [g EXCEPT !.down = c, !.typed = n]
      BY DEF Kept, Gestures
    <3>2. n \in Counts /\ g \in Gestures
      BY DEF Kept, Gestures, Counts
    <3> HIDE DEF n
    <3> QED  BY <3>1, <3>2 DEF Gestures
  <2>2. n.click = 1 /\ n.rest = g.typed.rest
    BY Parts DEF Kept, Counts
  <2> HIDE DEF x, n
  <2>3. Kept(x, q)
    BY <2>1, <2>2 DEF Kept, Owed, Pressed, LiveHold
  <2> QED  BY <1>2, <2>3 DEF typeCap, x
<1> QED  BY <1>1, <1>2

LEMMA PressKeeps ==
  ASSUME IInv, NEW cap \in Caps, NEW finger \in BOOLEAN, Press(cap, finger)
  PROVE  IInv'
<1> DEFINE g == PressBegins(k)
<1>1. ~LiveHold(k) /\ k.down = "none" /\ k.menu.cap = "none"
  BY Unpressed DEF Press, Menu
<1>2. /\ Kept(g, pointer) /\ ~LiveHold(g) /\ g.menu.cap = "none" /\ g.down = "none"
      /\ g.typed.click = 0 /\ g.rest.phase = "dead"
  BY <1>1, BeginKeeps DEF IInv, LiveHold
<1>3. /\ profile' \in Settings /\ pointer' \in Pointers
      /\ pointer'.cap = cap /\ pointer'.live = TRUE
  BY DEF IInv, Settings, Pointers, Press
<1>4. \/ k' = g
      \/ k' = [g EXCEPT !.hold = [cap |-> cap, live |-> TRUE, due |-> Window]]
      \/ k' = typeCap(g, cap, "click")
  BY DEF Press
<1>5. Kept(k', pointer')
  <2> HIDE DEF g
  <2>1. Window \in Int
    BY DwellAssumption
  <2>2. Kept(g, pointer')
    BY <1>2, KeptElsewhere
  <2>3. Kept([g EXCEPT !.hold = [cap |-> cap, live |-> TRUE, due |-> Window]], pointer')
    BY <1>2, <1>3, <2>1, HoldKeeps
  <2>4. Kept(typeCap(g, cap, "click"), pointer')
    BY <1>2, <1>3, DownKeeps
  <2> QED  BY <1>4, <2>2, <2>3, <2>4
<1> QED  BY <1>3, <1>5 DEF IInv, Press

LEMMA DragKeeps ==
  ASSUME IInv, Drag
  PROVE  IInv'
<1>1. pointer.cap \in Caps
  BY DEF IInv, Pointers, Drag, Pressing
<1>2. Kept(k', pointer)
  BY <1>1, LeaveKeeps, EnterKeeps DEF IInv, Drag
<1>3. pointer' \in Pointers /\ pointer'.cap = pointer.cap /\ pointer'.live = pointer.live
  BY <1>1 DEF IInv, Pointers, Drag
<1>4. Kept(k', pointer')
  BY <1>2, <1>3, KeptElsewhere
<1> QED  BY <1>3, <1>4 DEF IInv, Drag

(* A hold's release: it types once, having typed nothing, or not at all.    *)
LEMMA EndKeeps ==
  ASSUME NEW g, NEW p, Kept(g, p), NEW c \in Caps, NEW inside \in BOOLEAN
  PROVE  LET e == endCapHold(g, c, inside)
         IN  /\ Kept(e.g, p)
             /\ e.taken \in BOOLEAN
             /\ e.taken = TRUE => ~LiveHold(e.g) /\ e.g.down = "none"
             /\ e.taken = FALSE => e.g = g /\ ~LiveHold(g)
<1> DEFINE x == clearCapHold(g)
<1>1. Kept(x, p) /\ ~LiveHold(x) /\ x.down = g.down /\ x.typed = g.typed
  BY ClearKeeps
<1> HIDE DEF x
<1>2. CASE LiveHold(g)
  <2>1. Spends(x, "click") /\ x.down = "none"
    BY <1>1, <1>2 DEF Spends, Kept, Owed
  <2>2. LET t == releaseKey(typeCap(x, c, "click"))
        IN  Kept(t, p) /\ t.down = "none" /\ ~LiveHold(t)
    BY <1>1, <2>1, TapKeeps
  <2> QED  BY <1>1, <1>2, <2>1, <2>2 DEF endCapHold, LiveHold, x
<1>3. CASE ~LiveHold(g)
  <2>1. endCapHold(g, c, inside) =
          IF g.hold.cap # "none" THEN [taken |-> FALSE, g |-> g]
          ELSE [taken |-> g.menu.cap = c /\ g.menu.live, g |-> g]
    BY <1>3 DEF endCapHold, LiveHold
  <2>2. g.menu.live \in BOOLEAN
    BY DEF Kept, Gestures, MenuStates
  <2>3. g.menu.cap = c => g.down = "none"
    BY GestureAssumption DEF Kept, Owed
  <2> DEFINE e == endCapHold(g, c, inside)
  <2>4. e.g = g
    BY <2>1
  <2>5. e.taken = IF g.hold.cap # "none" THEN FALSE ELSE g.menu.cap = c /\ g.menu.live
    BY <2>1
  <2> HIDE DEF e
  <2>6. e.taken \in BOOLEAN /\ (e.taken = TRUE => g.menu.cap = c)
    BY <2>5
  <2> SUFFICES /\ Kept(e.g, p) /\ e.taken \in BOOLEAN
               /\ e.taken = TRUE => ~LiveHold(e.g) /\ e.g.down = "none"
               /\ e.taken = FALSE => e.g = g /\ ~LiveHold(g)
    BY DEF e
  <2> QED  BY <1>3, <2>3, <2>4, <2>6
<1> QED  BY <1>2, <1>3

LEMMA ReleaseKeeps ==
  ASSUME IInv, Release
  PROVE  IInv'
<1> DEFINE e == endCapHold(k, pointer.cap, pointer.inside \/ resolve(profile) # "touch")
           lifted == releaseKey(e.g)
<1>1. pointer.cap \in Caps
  BY DEF IInv, Pointers, Release, Pressing
<1>2. pointer' \in Pointers
  BY DEF IInv, Pointers, Release
<1>3. Kept(k', pointer')
  <2>1. CASE ~pointer.live
    BY <2>1, Unpressed, KeptElsewhere DEF IInv, Release
  <2>2. CASE pointer.live
    <3>1. /\ Kept(e.g, pointer) /\ e.taken \in BOOLEAN
          /\ e.taken = TRUE => ~LiveHold(e.g) /\ e.g.down = "none"
          /\ e.taken = FALSE => e.g = k /\ ~LiveHold(k)
      BY <1>1, EndKeeps DEF IInv
    <3>2. \/ e.taken = TRUE /\ k' = e.g
          \/ e.taken = FALSE /\ k' \in {dwellEnter(lifted, pointer.cap, profile), lifted}
      BY <2>2, <3>1 DEF Release
    <3>3. CASE e.taken = TRUE
      BY <3>1, <3>2, <3>3, KeptElsewhere
    <3>4. CASE e.taken = FALSE
      <4> HIDE DEF e
      <4>1. Kept(lifted, pointer) /\ ~LiveHold(lifted) /\ lifted.down = "none"
        BY <3>1, <3>4, LiftKeeps
      <4> HIDE DEF lifted
      <4>2. Kept(lifted, pointer')
        BY <4>1, KeptElsewhere
      <4> QED  BY <1>1, <3>2, <3>4, <4>2, EnterKeeps
    <3> QED  BY <3>1, <3>3, <3>4
  <2> QED  BY <2>1, <2>2
<1> QED  BY <1>2, <1>3 DEF IInv, Release

LEMMA CancelKeeps ==
  ASSUME IInv, Cancel
  PROVE  IInv'
<1> DEFINE g == dwellReset(k)
           held == \/ g.hold.cap = pointer.cap /\ g.hold.live
                   \/ g.menu.cap = pointer.cap /\ g.menu.live
<1>1. pointer.cap # "none" /\ pointer' = Away
  BY DEF Cancel, Pressing
<1>2. pointer' \in Pointers
  BY <1>1 DEF Pointers, Away
<1>3. Kept(g, pointer)
  BY ResetKeeps DEF IInv
<1>4. k' = IF held THEN closeHoldMenu(clearCapHold(g)) ELSE releaseKey(g)
  BY DEF Cancel
<1>5. Kept(k', pointer')
  <2> HIDE DEF g
  <2>1. CASE held
    <3> DEFINE c == clearCapHold(g)
    <3>1. g.down = "none"
      BY <1>1, <1>3, <2>1 DEF Kept, Owed, LiveHold
    <3>2. Kept(c, pointer) /\ ~LiveHold(c) /\ c.down = "none"
      BY <1>3, <3>1, ClearKeeps
    <3> HIDE DEF c
    <3>3. Kept(c, pointer')
      BY <3>2, KeptElsewhere
    <3> QED  BY <1>4, <2>1, <3>3, CloseKeeps DEF c
  <2>2. CASE ~held
    <3>1. ~LiveHold(g)
      BY <1>3, <2>2 DEF Kept, Pressed, LiveHold
    <3>2. Kept(releaseKey(g), pointer) /\ ~LiveHold(releaseKey(g))
          /\ releaseKey(g).down = "none"
      BY <1>3, <3>1, LiftKeeps
    <3>3. Kept(releaseKey(g), pointer')
      BY <3>2, KeptElsewhere
    <3> QED  BY <1>4, <2>2, <3>3
  <2> QED  BY <2>1, <2>2
<1> QED  BY <1>2, <1>5 DEF IInv, Cancel

LEMMA EntryClickKeeps ==
  ASSUME IInv, EntryClick
  PROVE  IInv'
<1> DEFINE x == PressBegins(k)
<1>1. ~LiveHold(k)
  BY Unpressed DEF EntryClick
<1>2. Kept(x, pointer) /\ x.hold = k.hold /\ x.typed.click = 0 /\ x.rest.phase = "dead"
  BY BeginKeeps DEF IInv
<1>3. k' = IF facts.ready THEN pickHoldEntry([x EXCEPT !.typed.click = 0], "click")
                          ELSE [x EXCEPT !.typed.click = 0]
  BY DEF EntryClick
<1> HIDE DEF x
<1>4. [x EXCEPT !.typed.click = 0] = x
  BY <1>2 DEF Kept, Gestures, Counts
<1>5. Spends(x, "click")
  BY <1>1, <1>2 DEF Spends, LiveHold
<1>6. Kept(pickHoldEntry(x, "click"), pointer)
  BY <1>2, <1>5, PickKeeps
<1>7. Kept(k', pointer)
  BY <1>2, <1>3, <1>4, <1>6
<1> QED  BY <1>7 DEF IInv, EntryClick

LEMMA ClickAwayKeeps ==
  ASSUME IInv, ClickAway
  PROVE  IInv'
  BY CloseKeeps DEF IInv, ClickAway

LEMMA EntryGoneKeeps ==
  ASSUME IInv, EntryGone
  PROVE  IInv'
<1>1. pointer' \in Pointers /\ pointer'.cap = pointer.cap /\ pointer'.live = pointer.live
  BY DEF IInv, Pointers, EntryGone
<1>2. Kept(k', pointer)
  BY LeaveKeeps DEF IInv, EntryGone
<1>3. Kept(k', pointer')
  BY <1>1, <1>2, KeptElsewhere
<1> QED  BY <1>1, <1>3 DEF IInv, EntryGone

-----------------------------------------------------------------------------
(* The timers.                                                              *)

LEMMA TickKeeps ==
  ASSUME IInv, Tick
  PROVE  IInv'
<1> DEFINE e == IF Resting THEN k.rest.elapsed + 1 ELSE k.rest.elapsed
           b == IF Resting THEN k.rest.due - 1 ELSE k.rest.due
           h == IF Holding THEN k.hold.due - 1 ELSE k.hold.due
           x == [k EXCEPT !.rest.elapsed = e, !.rest.due = b, !.hold.due = h]
<1>1. k' = x
  BY DEF Tick
<1>2. k \in Gestures /\ e \in Nat /\ b \in Int /\ h \in Int
  BY DEF IInv, Kept, Gestures, RestStates, HoldStates
<1> HIDE DEF e, b, h
<1>3. /\ x \in Gestures /\ x.typed = k.typed /\ x.rest.phase = k.rest.phase
      /\ x.hold.cap = k.hold.cap /\ x.hold.live = k.hold.live
      /\ x.menu = k.menu /\ x.down = k.down
  BY <1>2 DEF Gestures, RestStates, HoldStates
<1> HIDE DEF x
<1>4. Kept(k', pointer)
  BY <1>1, <1>3 DEF IInv, Kept, Owed, Pressed, LiveHold
<1> QED  BY <1>4 DEF IInv, Tick

LEMMA OpenedKeeps ==
  ASSUME NEW g, NEW p, Kept(g, p), NEW b \in BOOLEAN
  PROVE  Kept([g EXCEPT !.opened = b], p)
<1> DEFINE x == [g EXCEPT !.opened = b]
<1>1. /\ x \in Gestures /\ x.hold = g.hold /\ x.rest = g.rest /\ x.menu = g.menu
      /\ x.down = g.down /\ x.typed = g.typed
  BY DEF Kept, Gestures
<1> HIDE DEF x
<1>2. Kept(x, p)
  BY <1>1 DEF Kept, Owed, Pressed, LiveHold
<1> QED  BY <1>2 DEF x

LEMMA HoldFiresKeeps ==
  ASSUME IInv, HoldFires
  PROVE  IInv'
<1> DEFINE y == [k EXCEPT !.hold.due = -2]
           g == openHoldMenu(y)
<1>1. k' = [g EXCEPT !.opened = g.menu.cap # "none"]
  BY DEF HoldFires
<1>2. /\ y \in Gestures /\ y.typed = k.typed /\ y.rest = k.rest
      /\ y.hold.cap = k.hold.cap /\ y.hold.live = k.hold.live
      /\ y.menu = k.menu /\ y.down = k.down
  BY DEF IInv, Kept, Gestures, HoldStates
<1> HIDE DEF y
<1>3. Kept(y, pointer) /\ (LiveHold(y) => y.down = "none")
  BY <1>2 DEF IInv, Kept, Owed, Pressed, LiveHold
<1>4. Kept(clearCapHold(y), pointer)
  BY <1>3, ClearKeeps
<1>5. Kept(g, pointer)
  BY <1>2, <1>3, <1>4, OpenKeeps
<1> HIDE DEF g
<1>6. Kept(k', pointer)
  BY <1>1, <1>5, OpenedKeeps
<1> QED  BY <1>6 DEF IInv, HoldFires

(* A deadline crossed moves the rest on, and the timer is set again.        *)
LEMMA TickMoves ==
  ASSUME NEW r \in RestStates
  PROVE  LET t == tick(r)
             n == Rearms(r, t.phase)
         IN  /\ n \in RestStates /\ n.on = r.on /\ n.phase = t.phase
             /\ n.elapsed = r.elapsed
             /\ t.action = "press" => r.elapsed >= Delay
             /\ \/ t.action = "none" /\ t.phase = r.phase
                \/ t.action = "press" /\ r.phase = "armed" /\ t.phase \in {"spent", "done"}
                \/ t.action = "menu" /\ r.phase = "spent" /\ t.phase = "done"
<1> DEFINE t == tick(r)
           n == Rearms(r, t.phase)
<1>1. \/ t.action = "none" /\ t.phase = r.phase
      \/ t.action = "press" /\ r.phase = "armed" /\ t.phase \in {"spent", "done"}
      \/ t.action = "menu" /\ r.phase = "spent" /\ t.phase = "done"
  BY DEF tick, RestStates
<1>2. t.phase \in {"dead", "armed", "spent", "done"}
  BY <1>1 DEF RestStates
<1>7. t.action = "press" => r.elapsed >= Delay
  BY <1>1, DwellAssumption DEF tick, Deadline, RestStates
<1> HIDE DEF t
<1> DEFINE m == [r EXCEPT !.phase = t.phase]
<1>3. m \in RestStates /\ m.phase = t.phase /\ m.on = r.on /\ m.elapsed = r.elapsed
  BY <1>2 DEF RestStates
<1>4. nextArmMs(m) \in Int
  BY <1>3, DwellAssumption DEF nextArmMs, AtLeastOne, Deadline, RestStates
<1>5. n = [m EXCEPT !.due = nextArmMs(m)]
  BY DEF Rearms
<1> HIDE DEF m
<1>6. n \in RestStates /\ n.on = m.on /\ n.phase = m.phase /\ n.elapsed = m.elapsed
  BY <1>3, <1>4, <1>5 DEF RestStates
<1> QED  BY <1>1, <1>3, <1>6, <1>7 DEF t

(* The key of a rest is down and up again before anything else happens.     *)
LEMMA FireKeeps ==
  ASSUME NEW g, NEW p, Kept(g, p), g.rest.phase = "armed", NEW r \in RestStates,
         r.phase \in {"spent", "done"}
  PROVE  Kept(dwellFire([g EXCEPT !.rest = r]), p)
<1> DEFINE y == [g EXCEPT !.rest = r]
           u == releaseKey(g)
           x == [u EXCEPT !.rest = r]
<1>1. dwellReset(y) = dwellReset(g) /\ y.rest = r
  BY DEF Kept, Gestures, dwellReset
<1>2. Kept(dwellReset(g), p)
  BY ResetKeeps
<1>3. CASE r.on = "entry"
  <2>1. Spends(dwellReset(g), "rest")
    BY ResetKeeps DEF Spends, Kept, Owed
  <2>2. Kept(pickHoldEntry(dwellReset(g), "rest"), p)
    BY <1>2, <2>1, PickKeeps
  <2> QED  BY <1>1, <1>2, <1>3, <2>2 DEF dwellFire
<1>4. CASE r.on # "entry" /\ ~eligible(facts)
  BY <1>1, <1>2, <1>4 DEF dwellFire
<1>5. CASE r.on # "entry" /\ eligible(facts)
  <2>1. Kept(u, p) /\ u.down = "none"
    BY LiftKeeps
  <2>2. u.typed = g.typed
    BY DEF Kept, Gestures, releaseKey
  <2>3. u.typed.rest = 0
    BY <2>2 DEF Kept, Owed
  <2>4. releaseKey(typeCap(y, r.on, "rest")) = releaseKey(typeCap(x, r.on, "rest"))
    BY <1>5 DEF Kept, Gestures, releaseKey, typeCap
  <2>5. x.rest = r /\ x.typed = u.typed
    BY <2>1 DEF Kept, Gestures
  <2> HIDE DEF u
  <2>6. Kept(x, p)
    BY <2>1, <2>3, RestKeeps
  <2> HIDE DEF x
  <2>7. Spends(x, "rest")
    BY <2>3, <2>5 DEF Spends
  <2>8. r.on \in Caps \cup {"none"}
    BY <1>5 DEF RestStates
  <2>9. Kept(releaseKey(typeCap(x, r.on, "rest")), p)
    BY <2>6, <2>7, <2>8, TapKeeps
  <2> QED  BY <1>1, <1>5, <2>4, <2>9 DEF dwellFire
<1> QED  BY <1>3, <1>4, <1>5

(* The menu of a spent rest opens through a hold made for it.               *)
LEMMA DwellOpenKeeps ==
  ASSUME IInv, NEW g, Kept(g, pointer), g.down = "none"
  PROVE  Kept(dwellOpenMenu(g), pointer)
<1> DEFINE d == dwellReset(g)
           h == [cap |-> g.rest.on, live |-> TRUE, due |-> -2]
           y == [d EXCEPT !.hold = h]
<1>1. Kept(d, pointer) /\ d.down = "none"
  BY ResetKeeps
<1>2. CASE g.rest.on \notin facts.columns
  BY <1>1, <1>2 DEF dwellOpenMenu
<1>3. CASE g.rest.on \in facts.columns
  <2>1. g.rest.on \in Caps /\ g.rest.on # "none"
    BY <1>3, GestureAssumption DEF IInv, CapFacts
  <2>2. h \in HoldStates /\ h.cap = g.rest.on /\ h.live = TRUE
    BY <2>1 DEF HoldStates
  <2>3. dwellOpenMenu(g) = openHoldMenu(y)
    BY <1>3 DEF dwellOpenMenu
  <2> HIDE DEF d, h
  <2>4. y \in Gestures /\ y.hold = h /\ y.down = d.down
    BY <1>1, <2>2 DEF Kept, Gestures
  <2>5. clearCapHold(y) = clearCapHold(d)
    BY <1>1 DEF Kept, Gestures, clearCapHold
  <2> HIDE DEF y
  <2>6. Kept(clearCapHold(y), pointer)
    BY <1>1, <2>5, ClearKeeps
  <2>7. y.hold.cap \in facts.columns /\ LiveHold(y) /\ y.down = "none"
    BY <1>1, <1>3, <2>1, <2>2, <2>4 DEF LiveHold
  <2> QED  BY <2>3, <2>4, <2>6, <2>7, OpenKeeps
<1> QED  BY <1>2, <1>3

LEMMA DwellTickKeeps ==
  ASSUME IInv, dwellTick
  PROVE  IInv'
<1> DEFINE t == tick(k.rest)
           r == Rearms(k.rest, t.phase)
           g == [k EXCEPT !.rest = r]
<1>1. k' = CASE t.action = "press" -> dwellFire(g)
             [] t.action = "menu" -> dwellOpenMenu(g)
             [] OTHER -> g
  BY DEF dwellTick
<1>2. k.rest \in RestStates /\ Kept(k, pointer)
  BY Parts DEF IInv, Kept
<1>3. /\ r \in RestStates /\ r.phase = t.phase
      /\ \/ t.action = "none" /\ t.phase = k.rest.phase
         \/ t.action = "press" /\ k.rest.phase = "armed" /\ t.phase \in {"spent", "done"}
         \/ t.action = "menu" /\ k.rest.phase = "spent" /\ t.phase = "done"
  BY <1>2, TickMoves
<1> HIDE DEF t, r
<1>4. CASE t.action = "none" /\ t.phase = k.rest.phase
  <2>1. Kept(g, pointer)
    BY <1>2, <1>3, <1>4, RestKeeps DEF Kept, Owed
  <2> QED  BY <1>1, <1>4, <2>1 DEF IInv, dwellTick
<1>5. CASE t.action = "press" /\ k.rest.phase = "armed" /\ t.phase \in {"spent", "done"}
  <2>1. Kept(dwellFire(g), pointer)
    BY <1>2, <1>3, <1>5, FireKeeps
  <2> QED  BY <1>1, <1>5, <2>1 DEF IInv, dwellTick
<1>6. CASE t.action = "menu" /\ k.rest.phase = "spent" /\ t.phase = "done"
  <2>1. Kept(g, pointer)
    BY <1>2, <1>3, <1>6, RestKeeps DEF Kept
  <2>2. g.down = "none"
    BY <1>2, <1>6 DEF Kept, Owed, Gestures
  <2>3. Kept(dwellOpenMenu(g), pointer)
    BY <2>1, <2>2, DwellOpenKeeps
  <2> QED  BY <1>1, <1>6, <2>3 DEF IInv, dwellTick
<1> QED  BY <1>3, <1>4, <1>5, <1>6

-----------------------------------------------------------------------------
(* What happens to the board under the pointer.                             *)

(* A rebuilt board holds nothing and has no key down, wherever the pointer. *)
LEMMA RebuiltKeeps ==
  ASSUME NEW g, NEW p, Kept(g, p)
  PROVE  Kept(Rebuilt(g), p) /\ ~LiveHold(Rebuilt(g)) /\ Rebuilt(g).down = "none"
<1> DEFINE y == releaseKey(dwellReset(g))
           x == [y EXCEPT !.hold.live = FALSE, !.menu.live = FALSE]
<1>1. Kept(y, p) /\ y.down = "none"
  BY ResetKeeps, LiftKeeps
<1> HIDE DEF y
<1>2. /\ x \in Gestures /\ x.typed = y.typed /\ x.rest = y.rest /\ x.hold.live = FALSE
      /\ x.menu.cap = y.menu.cap /\ x.down = y.down
  BY <1>1 DEF Kept, Gestures, HoldStates, MenuStates
<1> HIDE DEF x
<1>3. Kept(x, p) /\ ~LiveHold(x) /\ x.down = "none"
  BY <1>1, <1>2 DEF Kept, Owed, Pressed, LiveHold
<1> QED  BY <1>3 DEF Rebuilt, Dead, x, y

LEMMA FoldKeeps ==
  ASSUME NEW g, NEW p, Kept(g, p)
  PROVE  Kept(FoldAll(g), p) /\ ~LiveHold(FoldAll(g))
  BY ClearKeeps, CloseKeeps, ResetKeeps DEF FoldAll

LEMMA Grounds ==
  ASSUME pointer \in Pointers
  PROVE  Grounded \in Pointers
  BY DEF Grounded, Pointers

LEMMA RowsChangeKeeps ==
  ASSUME IInv, RowsChange
  PROVE  IInv'
<1>1. Kept(k', pointer')
  BY RebuiltKeeps, KeptElsewhere DEF IInv, RowsChange
<1> QED  BY <1>1, Grounds DEF IInv, RowsChange

LEMMA FactsChangeKeeps ==
  ASSUME IInv, NEW columns \in SUBSET Columns, NEW rows \in BOOLEAN,
         FactsChange(columns, rows)
  PROVE  IInv'
<1> DEFINE g == IF rows THEN Rebuilt(k) ELSE k
<1>1. facts' \in CapFacts /\ pointer' \in Pointers
  BY Grounds DEF IInv, CapFacts, FactsChange
<1>2. Kept(g, pointer')
  BY RebuiltKeeps, KeptElsewhere DEF IInv, FactsChange
<1>3. k' = dwellReset(closeHoldMenu(g))
  BY DEF FactsChange
<1> HIDE DEF g
<1>4. Kept(k', pointer')
  BY <1>2, <1>3, CloseKeeps, ResetKeeps
<1> QED  BY <1>1, <1>4 DEF IInv, FactsChange

LEMMA SwitchesKeep ==
  ASSUME IInv, GateTurns \/ SearchTurns
  PROVE  IInv'
<1>1. facts' \in CapFacts
  BY DEF IInv, CapFacts, GateTurns, SearchTurns
<1>2. Kept(k', pointer')
  BY FoldKeeps DEF IInv, GateTurns, SearchTurns
<1> QED  BY <1>1, <1>2 DEF IInv, GateTurns, SearchTurns

LEMMA SettingsTurnKeeps ==
  ASSUME IInv, NEW next \in Settings, SettingsTurn(next)
  PROVE  IInv'
<1>1. Kept(k', pointer')
  BY ResetKeeps DEF IInv, SettingsTurn
<1> QED  BY <1>1 DEF IInv, SettingsTurn

LEMMA CloseActKeeps ==
  ASSUME IInv, Close
  PROVE  IInv'
<1>1. profile' \in Settings /\ pointer' \in Pointers
  BY DEF IInv, Settings, Pointers, Away, Close
<1>2. /\ Kept(releaseKey(FoldAll(k)), pointer) /\ ~LiveHold(releaseKey(FoldAll(k)))
      /\ releaseKey(FoldAll(k)).down = "none"
  BY FoldKeeps, LiftKeeps DEF IInv
<1>3. k' = releaseKey(FoldAll(k))
  BY DEF Close
<1>4. Kept(k', pointer')
  BY <1>2, <1>3, KeptElsewhere
<1> QED  BY <1>1, <1>4 DEF IInv, Close

-----------------------------------------------------------------------------
LEMMA InitIInv ==
  ASSUME Init
  PROVE  IInv
<1>1. profile \in Settings /\ facts \in CapFacts /\ pointer \in Pointers
  BY DEF Init, Settings, CapFacts, Pointers, Away
<1>2. k \in Gestures
  BY Blanks DEF Init, Gestures, Counts
<1>3. k.hold.cap = "none" /\ k.menu.cap = "none" /\ k.rest.phase = "dead"
      /\ k.down = "none" /\ k.typed.click = 0 /\ k.typed.rest = 0
  BY DEF Init, NoHold, NoMenu, NoRest
<1> QED  BY <1>1, <1>2, <1>3 DEF IInv, Kept, Owed, Pressed, LiveHold

LEMMA NextIInv ==
  ASSUME IInv, [Next]_vars
  PROVE  IInv'
<1>1. ASSUME NEW x \in Caps \cup {"out", "entry"}, Hover(x) PROVE IInv'
  BY <1>1, HoverKeeps
<1>2. ASSUME NEW cap \in Caps, NEW finger \in BOOLEAN, Press(cap, finger) PROVE IInv'
  BY <1>2, PressKeeps
<1>3. CASE Drag
  BY <1>3, DragKeeps
<1>4. CASE Release
  BY <1>4, ReleaseKeeps
<1>5. CASE Cancel
  BY <1>5, CancelKeeps
<1>6. CASE EntryClick
  BY <1>6, EntryClickKeeps
<1>7. CASE ClickAway
  BY <1>7, ClickAwayKeeps
<1>8. CASE EntryGone
  BY <1>8, EntryGoneKeeps
<1>9. CASE Tick
  BY <1>9, TickKeeps
<1>10. CASE HoldFires
  BY <1>10, HoldFiresKeeps
<1>11. CASE dwellTick
  BY <1>11, DwellTickKeeps
<1>12. CASE RowsChange
  BY <1>12, RowsChangeKeeps
<1>13. CASE GateTurns \/ SearchTurns
  BY <1>13, SwitchesKeep
<1>14. CASE Close
  BY <1>14, CloseActKeeps
<1>15. ASSUME NEW columns \in SUBSET Columns, NEW rows \in BOOLEAN,
              FactsChange(columns, rows)
       PROVE  IInv'
  BY <1>15, FactsChangeKeeps
<1>16. ASSUME NEW next \in Settings, SettingsTurn(next) PROVE IInv'
  BY <1>16, SettingsTurnKeeps
<1>17. CASE UNCHANGED vars
  BY <1>17 DEF vars, IInv
<1> QED
  BY <1>1, <1>2, <1>3, <1>4, <1>5, <1>6, <1>7, <1>8, <1>9, <1>10, <1>11, <1>12, <1>13,
     <1>14, <1>15, <1>16, <1>17 DEF Next

(* The inductive invariant holds in every reachable state.                  *)
THEOREM GesturesAreKept == Spec => []IInv
<1>1. Init => IInv
  BY InitIInv
<1>2. IInv /\ [Next]_vars => IInv'
  BY NextIInv
<1> QED  BY <1>1, <1>2, PTL DEF Spec

(* Keyboard.qml: no click and no rest types more than one key, whatever     *)
(* comes between its press and its release or in the course of the rest.    *)
THEOREM OneActTypesOneKey == Spec => []OneActOneKey
<1>1. IInv => OneActOneKey
  BY DEF IInv, Kept, OneActOneKey
<1> QED  BY <1>1, GesturesAreKept, PTL

(* Keyboard.qml, onRowModelChanged and onCanceled: a key is down only while *)
(* a cap that can still lift it is pressed.                                 *)
THEOREM NoKeyIsLeftDown == Spec => []NothingIsLeftDown
<1>1. IInv => NothingIsLeftDown
  BY DEF IInv, Kept, Pressed, NothingIsLeftDown
<1> QED  BY <1>1, GesturesAreKept, PTL

(* Keyboard.qml, dwellOpenMenu: a hold that a release could still type is   *)
(* that of the cap pressed now.                                             *)
THEOREM NoPhantomHold == Spec => []HoldsAreHeld
<1>1. IInv => HoldsAreHeld
  BY DEF IInv, Kept, Pressed, LiveHold, HoldsAreHeld
<1> QED  BY <1>1, GesturesAreKept, PTL

-----------------------------------------------------------------------------
(* What a rest types.  A rest is where the pointer is, under a profile that *)
(* lets it type, and has lasted no longer than the quiet.                   *)

Quiet(g, p, pr, q) ==
    g.rest.phase \in {"armed", "spent"} =>
        /\ g.rest.on = p.over /\ dwellArms(pr)
        /\ g.rest.phase = "armed" => q >= g.rest.elapsed \/ q >= Delay

QInv == IInv /\ quiet \in Nat /\ Quiet(k, pointer, profile, quiet)

(* Nothing of a rest but its end.                                           *)
Still(g, h) ==
    h \in Gestures /\ h.rest \in {g.rest, NoRest} /\ h.typed.rest = g.typed.rest

LEMMA NoRestIsOver == NoRest.phase = "dead"
  BY DEF NoRest

LEMMA StillTwice ==
  ASSUME NEW g, NEW h, NEW i, Still(g, h), Still(h, i)
  PROVE  Still(g, i)
  BY DEF Still

LEMMA StillSteps ==
  ASSUME NEW g \in Gestures
  PROVE  /\ Still(g, g) /\ Still(g, dwellReset(g)) /\ dwellReset(g).rest = NoRest
         /\ Still(g, clearCapHold(g)) /\ Still(g, closeHoldMenu(g)) /\ Still(g, releaseKey(g))
<1>1. Still(g, dwellReset(g)) /\ dwellReset(g).rest = NoRest
  BY Blanks DEF Still, dwellReset, Gestures
<1>2. Still(g, clearCapHold(g)) /\ Still(g, closeHoldMenu(g)) /\ Still(g, releaseKey(g))
  BY Blanks DEF Still, clearCapHold, closeHoldMenu, releaseKey, Gestures
<1> QED  BY <1>1, <1>2 DEF Still

LEMMA StillTyped ==
  ASSUME NEW g \in Gestures, NEW c \in Caps \cup {"none"}
  PROVE  Still(g, typeCap(g, c, "click"))
<1>1. CASE eligible(facts)
  <2> DEFINE n == [g.typed EXCEPT !["click"] = @ + 1]
             x == [g EXCEPT !.down = c, !.typed = n]
  <2>1. typeCap(g, c, "click") = x
    BY <1>1 DEF Gestures, typeCap
  <2>2. n \in Counts /\ n.rest = g.typed.rest
    BY DEF Gestures, Counts
  <2> HIDE DEF n
  <2> QED  BY <2>1, <2>2 DEF Still, Gestures
<1> QED  BY <1>1, StillSteps DEF typeCap

LEMMA StillTap ==
  ASSUME NEW g \in Gestures, NEW c \in Caps \cup {"none"}
  PROVE  Still(g, releaseKey(typeCap(g, c, "click")))
<1>1. Still(g, typeCap(g, c, "click"))
  BY StillTyped
<1>2. Still(typeCap(g, c, "click"), releaseKey(typeCap(g, c, "click")))
  BY <1>1, StillSteps DEF Still
<1> QED  BY <1>1, <1>2, StillTwice

LEMMA StillPick ==
  ASSUME NEW g \in Gestures
  PROVE  Still(g, pickHoldEntry(g, "click"))
<1> DEFINE c == closeHoldMenu(g)
<1>1. Still(g, c)
  BY StillSteps
<1>2. g.menu.cap \in Caps \cup {"none"}
  BY Parts DEF MenuStates
<1>3. Still(c, releaseKey(typeCap(c, g.menu.cap, "click")))
  BY <1>1, <1>2, StillTap DEF Still
<1> QED  BY <1>1, <1>3, StillTwice DEF pickHoldEntry

LEMMA StillEnd ==
  ASSUME NEW g \in Gestures, NEW c \in Caps, NEW inside
  PROVE  Still(g, endCapHold(g, c, inside).g)
<1> DEFINE x == clearCapHold(g)
           t == releaseKey(typeCap(x, c, "click"))
<1>1. Still(g, x) /\ Still(g, g)
  BY StillSteps
<1>2. Still(g, t)
  BY <1>1, StillTap, StillTwice DEF Still
<1>3. endCapHold(g, c, inside).g \in {g, x, t}
  BY DEF endCapHold
<1> HIDE DEF x, t
<1> QED  BY <1>1, <1>2, <1>3

LEMMA StillOpen ==
  ASSUME NEW g \in Gestures
  PROVE  Still(g, openHoldMenu(g))
<1> DEFINE y == clearCapHold(g)
           u == [cap |-> g.hold.cap, live |-> TRUE]
<1>1. Still(g, y) /\ Still(g, g)
  BY StillSteps
<1>2. u \in MenuStates
  BY Parts DEF MenuStates, HoldStates
<1>3. openHoldMenu(g) \in {y, g, [y EXCEPT !.menu = u]}
  BY DEF openHoldMenu
<1> HIDE DEF y, u
<1>4. Still(g, [y EXCEPT !.menu = u])
  BY <1>1, <1>2 DEF Still, Gestures
<1> QED  BY <1>1, <1>3, <1>4

(* A rest that only ends breaks no promise.                                 *)
LEMMA QuietStill ==
  ASSUME NEW g, NEW h, NEW p, NEW pr, NEW q, Quiet(g, p, pr, q), Still(g, h),
         NEW p2, p2.over = p.over
  PROVE  Quiet(h, p2, pr, q)
  BY NoRestIsOver DEF Quiet, Still

LEMMA QuietOver ==
  ASSUME NEW h, NEW p, NEW pr, NEW q, h.rest.phase \notin {"armed", "spent"}
  PROVE  Quiet(h, p, pr, q)
  BY DEF Quiet

(* Where the pointer comes to, a rest begins or there is none.              *)
LEMMA QuietEnter ==
  ASSUME NEW g \in Gestures, NEW t \in Caps, NEW pr, NEW p, p.over = t, NEW q \in Nat
  PROVE  /\ Quiet(dwellEnter(g, t, pr), p, pr, q)
         /\ dwellEnter(g, t, pr).typed.rest <= g.typed.rest
<1> DEFINE r == dwellReset(g)
           f == closeHoldMenu(r)
           e == enter(t, t \in facts.columns)
           x == [f EXCEPT !.rest = e, !.typed.rest = 0]
<1>1. Still(g, r) /\ r.rest = NoRest
  BY StillSteps
<1>2. Still(r, f)
  BY <1>1, StillSteps DEF Still
<1>3. f.rest = NoRest /\ Still(g, f)
  BY <1>1, <1>2, StillTwice DEF Still
<1>4. e.phase = "armed" /\ e.on = t /\ e.elapsed = 0
  BY DEF enter
<1>5. \/ dwellEnter(g, t, pr) \in {r, f}
      \/ dwellArms(pr) /\ dwellEnter(g, t, pr) = x
  BY DEF dwellEnter
<1> HIDE DEF r, f, e
<1>6. x.rest = e /\ x.typed.rest = 0
  BY <1>3 DEF Still, Gestures, Counts
<1> HIDE DEF x
<1>7. Quiet(r, p, pr, q) /\ Quiet(f, p, pr, q)
  BY <1>1, <1>3, NoRestIsOver, QuietOver
<1>8. dwellArms(pr) => Quiet(x, p, pr, q)
  BY <1>4, <1>6 DEF Quiet
<1>9. r.typed.rest <= g.typed.rest /\ f.typed.rest <= g.typed.rest /\ x.typed.rest <= g.typed.rest
  BY <1>1, <1>3, <1>6, Parts DEF Still
<1> QED  BY <1>5, <1>7, <1>8, <1>9

LEMMA QuietEntry ==
  ASSUME NEW g \in Gestures, NEW p, p.over = "entry", NEW q \in Nat
  PROVE  /\ Quiet(dwellEnterEntry(g), p, profile, q)
         /\ dwellEnterEntry(g).typed.rest <= g.typed.rest
<1> DEFINE r == dwellReset(g)
           e == enter("entry", FALSE)
           x == [g EXCEPT !.rest = e, !.typed.rest = 0]
<1>1. Still(g, r) /\ r.rest = NoRest
  BY StillSteps
<1>2. e.phase = "armed" /\ e.on = "entry" /\ e.elapsed = 0
  BY DEF enter
<1>3. dwellEnterEntry(g) = r \/ (dwellArms(profile) /\ dwellEnterEntry(g) = x)
  BY DEF dwellEnterEntry
<1> HIDE DEF r, e
<1>4. x.rest = e /\ x.typed.rest = 0
  BY DEF Gestures, Counts
<1> HIDE DEF x
<1>5. Quiet(r, p, profile, q)
  BY <1>1, NoRestIsOver, QuietOver
<1>6. dwellArms(profile) => Quiet(x, p, profile, q)
  BY <1>2, <1>4 DEF Quiet
<1>7. r.typed.rest <= g.typed.rest /\ x.typed.rest <= g.typed.rest
  BY <1>1, <1>4, Parts DEF Still
<1> QED  BY <1>3, <1>5, <1>6, <1>7

(* A target left is rested on no more.                                      *)
LEMMA QuietLeave ==
  ASSUME NEW g \in Gestures, NEW p, NEW pr, NEW q, Quiet(g, p, pr, q)
  PROVE  /\ Still(g, dwellLeave(g, p.over))
         /\ dwellLeave(g, p.over).rest.phase \notin {"armed", "spent"}
  BY StillSteps, NoRestIsOver DEF Quiet, dwellLeave

Undisturbed ==
    /\ quiet' \in Nat /\ Quiet(k', pointer', profile', quiet')
    /\ RestTypes => quiet >= Delay /\ dwellArms(profile)

LEMMA NoMore ==
  ASSUME IInv, IInv', k'.typed.rest <= k.typed.rest
  PROVE  ~RestTypes
<1>1. k.typed.rest \in Nat /\ k'.typed.rest \in Nat
  BY Parts DEF IInv, Kept
<1> QED  BY <1>1 DEF RestTypes

(* An act in which the rest goes on as it was, or ends.                     *)
LEMMA StillAct ==
  ASSUME QInv, IInv', Still(k, k'), pointer'.over = pointer.over,
         profile' = profile, quiet' = quiet
  PROVE  Undisturbed
<1>1. k'.typed.rest <= k.typed.rest
  BY Parts DEF QInv, IInv, Kept, Still
<1> QED  BY <1>1, NoMore, QuietStill DEF QInv, Undisturbed

LEMMA OverAct ==
  ASSUME QInv, IInv', Still(k, k'), k'.rest.phase \notin {"armed", "spent"}, quiet' \in Nat
  PROVE  Undisturbed
<1>1. k'.typed.rest <= k.typed.rest
  BY Parts DEF QInv, IInv, Kept, Still
<1> QED  BY <1>1, NoMore, QuietOver DEF QInv, Undisturbed

LEMMA HoverQuiet ==
  ASSUME QInv, IInv', NEW x \in Caps \cup {"out", "entry"}, Hover(x)
  PROVE  Undisturbed
<1> DEFINE left == dwellLeave(k, pointer.over)
<1>1. k \in Gestures /\ quiet' = 0 /\ pointer'.over = x
  BY DEF QInv, IInv, Kept, Pointers, Hover
<1>2. Still(k, left) /\ left.rest.phase \notin {"armed", "spent"}
  BY <1>1, QuietLeave DEF QInv
<1>3. left \in Gestures /\ left.typed.rest = k.typed.rest
  BY <1>2 DEF Still
<1>4. CASE x = "out"
  BY <1>1, <1>2, <1>4, OverAct DEF Hover
<1>5. CASE x = "entry"
  <2>1. k' = dwellEnterEntry(left)
    BY <1>5 DEF Hover
  <2> HIDE DEF left
  <2>2. Quiet(k', pointer', profile, 0) /\ k'.typed.rest <= left.typed.rest
    BY <1>1, <1>3, <1>5, <2>1, QuietEntry
  <2> QED  BY <1>1, <1>3, <2>2, NoMore DEF QInv, Undisturbed, Hover
<1>6. CASE x \notin {"out", "entry"}
  <2>1. x \in Caps /\ k' = dwellEnter(left, x, profile)
    BY <1>6 DEF Hover
  <2> HIDE DEF left
  <2>2. Quiet(k', pointer', profile, 0) /\ k'.typed.rest <= left.typed.rest
    BY <1>1, <1>3, <2>1, QuietEnter
  <2> QED  BY <1>1, <1>3, <2>2, NoMore DEF QInv, Undisturbed, Hover
<1> QED  BY <1>4, <1>5, <1>6

LEMMA StillBegins ==
  ASSUME NEW g \in Gestures
  PROVE  Still(g, PressBegins(g)) /\ PressBegins(g).rest = NoRest
<1> DEFINE y == dwellReset(g)
           x == [y EXCEPT !.typed.click = 0, !.opened = FALSE]
<1>1. Still(g, y) /\ y.rest = NoRest
  BY StillSteps
<1> HIDE DEF y
<1>2. Still(y, x) /\ x.rest = y.rest
  BY <1>1 DEF Still, Gestures, Counts
<1> QED  BY <1>1, <1>2, StillTwice DEF PressBegins, y

LEMMA PressQuiet ==
  ASSUME QInv, IInv', NEW cap \in Caps, NEW finger \in BOOLEAN, Press(cap, finger)
  PROVE  Undisturbed
<1> DEFINE g == PressBegins(k)
           h == [cap |-> cap, live |-> TRUE, due |-> Window]
           x == [g EXCEPT !.hold = h]
           t == typeCap(g, cap, "click")
<1>1. Still(k, g) /\ g.rest = NoRest
  BY StillBegins DEF QInv, IInv, Kept
<1>2. k' \in {g, x, t}
  BY DEF Press
<1>3. h \in HoldStates
  BY DwellAssumption DEF HoldStates
<1> HIDE DEF g, h
<1>4. Still(g, x)
  BY <1>1, <1>3 DEF Still, Gestures
<1>5. Still(g, t)
  BY <1>1, StillTyped DEF Still
<1> HIDE DEF x, t
<1>6. Still(k, k') /\ k'.rest = NoRest
  BY <1>1, <1>2, <1>4, <1>5 DEF Still
<1> QED  BY <1>6, NoRestIsOver, OverAct DEF Press

(* Under a finger no rest types, so one that goes leaves none behind.       *)
LEMMA DragQuiet ==
  ASSUME QInv, IInv', Drag
  PROVE  Undisturbed
<1> DEFINE goes == \/ pointer.over = pointer.cap
                   \/ pointer.inside /\ resolve(profile) = "touch"
<1>1. k \in Gestures /\ pointer.cap \in Caps /\ quiet' = 0 /\ profile' = profile
  BY DEF QInv, IInv, Kept, Pointers, Drag, Pressing
<1>2. CASE goes
  <2>1. k' = dwellLeave(k, pointer.cap)
    BY <1>2 DEF Drag
  <2>2. Still(k, k')
    BY <1>1, <2>1, StillSteps DEF dwellLeave
  <2>3. k'.rest.phase \notin {"armed", "spent"}
    <3>1. CASE pointer.over = pointer.cap
      BY <1>1, <2>1, <3>1, QuietLeave DEF QInv
    <3>2. CASE resolve(profile) = "touch"
      <4>1. k.rest.phase \notin {"armed", "spent"}
        BY <3>2 DEF QInv, Quiet, dwellArms
      <4> QED  BY <2>2, <4>1, NoRestIsOver DEF Still
    <3> QED  BY <1>2, <3>1, <3>2
  <2> QED  BY <1>1, <2>2, <2>3, OverAct
<1>3. CASE ~goes
  <2>1. k' = dwellEnter(k, pointer.cap, profile) /\ pointer'.over = pointer.cap
    BY <1>3 DEF QInv, IInv, Pointers, Drag
  <2>2. Quiet(k', pointer', profile, 0) /\ k'.typed.rest <= k.typed.rest
    BY <1>1, <2>1, QuietEnter
  <2> QED  BY <1>1, <2>2, NoMore DEF QInv, Undisturbed
<1> QED  BY <1>2, <1>3

LEMMA ReleaseQuiet ==
  ASSUME QInv, IInv', Release
  PROVE  Undisturbed
<1> DEFINE e == endCapHold(k, pointer.cap, pointer.inside \/ resolve(profile) # "touch")
           lifted == releaseKey(e.g)
<1>1. /\ k \in Gestures /\ pointer.cap \in Caps /\ quiet' = quiet /\ profile' = profile
      /\ pointer'.over = pointer.over /\ quiet \in Nat
  BY DEF QInv, IInv, Kept, Pointers, Release, Pressing
<1>2. \/ k' \in {k, e.g, lifted}
      \/ k' = dwellEnter(lifted, pointer.cap, profile) /\ pointer.over = pointer.cap
  BY DEF Release
<1>3. Still(k, e.g)
  BY <1>1, StillEnd
<1> HIDE DEF e
<1>4. Still(k, lifted) /\ lifted \in Gestures /\ lifted.typed.rest = k.typed.rest
  BY <1>3, StillSteps, StillTwice DEF Still
<1> HIDE DEF lifted
<1>5. CASE k' \in {k, e.g, lifted}
  <2>1. Still(k, k')
    BY <1>1, <1>3, <1>4, <1>5, StillSteps
  <2> QED  BY <1>1, <2>1, StillAct
<1>6. CASE k' = dwellEnter(lifted, pointer.cap, profile) /\ pointer.over = pointer.cap
  <2>1. Quiet(k', pointer', profile, quiet) /\ k'.typed.rest <= k.typed.rest
    BY <1>1, <1>4, <1>6, QuietEnter
  <2> QED  BY <1>1, <2>1, NoMore DEF QInv, Undisturbed
<1> QED  BY <1>2, <1>5, <1>6

LEMMA CancelQuiet ==
  ASSUME QInv, IInv', Cancel
  PROVE  Undisturbed
<1> DEFINE g == dwellReset(k)
           c == clearCapHold(g)
<1>1. Still(k, g) /\ g.rest = NoRest
  BY StillSteps DEF QInv, IInv, Kept
<1>2. k' \in {closeHoldMenu(c), releaseKey(g)}
  BY DEF Cancel
<1> HIDE DEF g
<1>3. Still(g, c) /\ Still(g, releaseKey(g))
  BY <1>1, StillSteps DEF Still
<1> HIDE DEF c
<1>4. Still(c, closeHoldMenu(c))
  BY <1>3, StillSteps DEF Still
<1>5. Still(g, k')
  BY <1>2, <1>3, <1>4, StillTwice
<1>6. Still(k, k') /\ k'.rest = NoRest
  BY <1>1, <1>5 DEF Still
<1> QED  BY <1>6, NoRestIsOver, OverAct DEF Cancel

LEMMA EntryClickQuiet ==
  ASSUME QInv, IInv', EntryClick
  PROVE  Undisturbed
<1> DEFINE x == PressBegins(k)
           y == [x EXCEPT !.typed.click = 0]
<1>1. Still(k, x) /\ x.rest = NoRest
  BY StillBegins DEF QInv, IInv, Kept
<1>2. k' \in {pickHoldEntry(y, "click"), y}
  BY DEF EntryClick
<1> HIDE DEF x
<1>3. Still(x, y)
  BY <1>1 DEF Still, Gestures, Counts
<1> HIDE DEF y
<1>4. Still(y, pickHoldEntry(y, "click"))
  BY <1>3, StillPick DEF Still
<1>5. Still(x, k')
  BY <1>2, <1>3, <1>4, StillTwice
<1>6. Still(k, k') /\ k'.rest = NoRest
  BY <1>1, <1>5 DEF Still
<1> QED  BY <1>6, NoRestIsOver, OverAct DEF EntryClick

LEMMA MenuActsQuiet ==
  ASSUME QInv, IInv', ClickAway \/ EntryGone
  PROVE  Undisturbed
<1>1. k \in Gestures
  BY DEF QInv, IInv, Kept
<1>2. CASE ClickAway
  BY <1>1, <1>2, StillSteps, StillAct DEF ClickAway
<1>3. CASE EntryGone
  <2>1. k' = dwellLeave(k, pointer.over)
    BY <1>3 DEF EntryGone
  <2>2. Still(k, k') /\ k'.rest.phase \notin {"armed", "spent"}
    BY <1>1, <2>1, QuietLeave DEF QInv
  <2> QED  BY <1>3, <2>2, OverAct DEF QInv, EntryGone
<1> QED  BY <1>2, <1>3

LEMMA TickQuiet ==
  ASSUME QInv, IInv', Tick
  PROVE  Undisturbed
<1> DEFINE e == IF Resting THEN k.rest.elapsed + 1 ELSE k.rest.elapsed
           b == IF Resting THEN k.rest.due - 1 ELSE k.rest.due
           h == IF Holding THEN k.hold.due - 1 ELSE k.hold.due
           x == [k EXCEPT !.rest.elapsed = e, !.rest.due = b, !.hold.due = h]
<1>1. k' = x
  BY DEF Tick
<1>2. k \in Gestures /\ k.rest.elapsed \in Nat /\ quiet \in Nat
  BY DEF QInv, IInv, Kept, Gestures, RestStates
<1>3. e = IF Resting THEN k.rest.elapsed + 1 ELSE k.rest.elapsed
  OBVIOUS
<1> HIDE DEF e, b, h
<1>4. /\ x.typed = k.typed /\ x.rest.phase = k.rest.phase
      /\ x.rest.on = k.rest.on /\ x.rest.elapsed = e
  BY <1>2 DEF Gestures, RestStates, HoldStates
<1> HIDE DEF x
<1>5. /\ quiet' = (IF quiet < Delay THEN quiet + 1 ELSE quiet)
      /\ pointer' = pointer /\ profile' = profile
  BY DEF Tick
<1>6. quiet' \in Nat /\ Quiet(k', pointer', profile', quiet')
  BY <1>1, <1>2, <1>3, <1>4, <1>5, DwellAssumption DEF QInv, Quiet, Resting
<1>7. k'.typed.rest <= k.typed.rest
  BY <1>1, <1>2, <1>4, Parts
<1> QED  BY <1>6, <1>7, NoMore DEF QInv, Undisturbed

LEMMA HoldFiresQuiet ==
  ASSUME QInv, IInv', HoldFires
  PROVE  Undisturbed
<1> DEFINE y == [k EXCEPT !.hold.due = -2]
           g == openHoldMenu(y)
           x == [g EXCEPT !.opened = g.menu.cap # "none"]
<1>1. k' = x
  BY DEF HoldFires
<1>2. Still(k, y)
  BY DEF QInv, IInv, Kept, Gestures, HoldStates, Still
<1> HIDE DEF y
<1>3. Still(k, g)
  BY <1>2, StillOpen, StillTwice DEF Still
<1>4. (g.menu.cap # "none") \in BOOLEAN
  OBVIOUS
<1> DEFINE b == g.menu.cap # "none"
<1> HIDE DEF g, b
<1>5. Still(g, [g EXCEPT !.opened = b])
  BY <1>3, <1>4 DEF Still, Gestures, b
<1>6. Still(k, k')
  BY <1>1, <1>3, <1>5, StillTwice DEF b
<1> QED  BY <1>6, StillAct DEF HoldFires

(* A key typed by a rest leaves the rest as it was, or over.                *)
LEMMA FireRest ==
  ASSUME NEW g \in Gestures, NEW r \in RestStates
  PROVE  dwellFire([g EXCEPT !.rest = r]).rest \in {r, NoRest}
<1> DEFINE y == [g EXCEPT !.rest = r]
           d == dwellReset(y)
<1>1. y \in Gestures /\ y.rest = r
  BY DEF Gestures
<1> HIDE DEF y
<1>2. d \in Gestures /\ d.rest = NoRest
  BY <1>1, StillSteps DEF Still
<1> HIDE DEF d
<1>3. \A h \in Gestures, c \in Caps \cup {"none"} :
        releaseKey(typeCap(h, c, "rest")).rest = h.rest
  BY DEF Gestures, releaseKey, typeCap
<1>4. pickHoldEntry(d, "rest").rest = NoRest
  <2>1. closeHoldMenu(d) \in Gestures /\ closeHoldMenu(d).rest = NoRest
    BY <1>2, Blanks DEF Gestures, closeHoldMenu
  <2>2. d.menu.cap \in Caps \cup {"none"}
    BY <1>2, Parts DEF MenuStates
  <2> QED  BY <1>3, <2>1, <2>2 DEF pickHoldEntry
<1>5. r.on # "entry" => r.on \in Caps \cup {"none"}
  BY DEF RestStates
<1>6. dwellFire(y) \in {d, pickHoldEntry(d, "rest"), releaseKey(typeCap(y, r.on, "rest"))}
  BY <1>1 DEF dwellFire, d
<1>7. r.on = "entry" => dwellFire(y) \in {d, pickHoldEntry(d, "rest")}
  BY <1>1 DEF dwellFire, d
<1>8. dwellFire(y).rest \in {r, NoRest}
  BY <1>1, <1>2, <1>3, <1>4, <1>5, <1>6, <1>7
<1> QED  BY <1>8 DEF y

LEMMA DwellTickQuiet ==
  ASSUME QInv, IInv', dwellTick
  PROVE  Undisturbed
<1> DEFINE t == tick(k.rest)
           r == Rearms(k.rest, t.phase)
           g == [k EXCEPT !.rest = r]
<1>1. k' = CASE t.action = "press" -> dwellFire(g)
             [] t.action = "menu" -> dwellOpenMenu(g)
             [] OTHER -> g
  BY DEF dwellTick
<1>2. k \in Gestures /\ k.rest \in RestStates /\ quiet \in Nat /\ k.rest.elapsed \in Nat
  BY Parts DEF QInv, IInv, Kept, RestStates
<1>3. /\ r \in RestStates /\ r.phase = t.phase /\ r.on = k.rest.on
      /\ r.elapsed = k.rest.elapsed /\ (t.action = "press" => k.rest.elapsed >= Delay)
      /\ \/ t.action = "none" /\ t.phase = k.rest.phase
         \/ t.action = "press" /\ k.rest.phase = "armed" /\ t.phase \in {"spent", "done"}
         \/ t.action = "menu" /\ k.rest.phase = "spent" /\ t.phase = "done"
  BY <1>2, TickMoves
<1>4. UNCHANGED <<pointer, profile, quiet>>
  BY DEF dwellTick
<1> HIDE DEF t, r
<1>5. g \in Gestures /\ g.rest = r /\ g.typed = k.typed
  BY <1>2, <1>3 DEF Gestures
<1>6. CASE t.action = "none" /\ t.phase = k.rest.phase
  <2>1. k' = g
    BY <1>1, <1>6
  <2> HIDE DEF g
  <2>2. k'.typed.rest <= k.typed.rest
    BY <1>2, <1>5, <2>1, Parts
  <2>3. Quiet(k', pointer', profile', quiet')
    BY <1>3, <1>4, <1>5, <1>6, <2>1 DEF QInv, Quiet
  <2> QED  BY <1>2, <1>4, <2>2, <2>3, NoMore DEF QInv, Undisturbed
<1>7. CASE t.action = "press" /\ k.rest.phase = "armed" /\ t.phase \in {"spent", "done"}
  <2>1. k'.rest \in {r, NoRest}
    BY <1>1, <1>2, <1>3, <1>7, FireRest
  <2>2. Quiet(k', pointer', profile', quiet')
    BY <1>3, <1>4, <1>7, <2>1, NoRestIsOver DEF QInv, Quiet
  <2>3. quiet >= Delay /\ dwellArms(profile)
    BY <1>2, <1>3, <1>7, DwellAssumption DEF QInv, Quiet
  <2> QED  BY <1>2, <1>4, <2>2, <2>3 DEF Undisturbed
<1>8. CASE t.action = "menu" /\ k.rest.phase = "spent" /\ t.phase = "done"
  <2> DEFINE d == dwellReset(g)
             y == [d EXCEPT !.hold = [cap |-> g.rest.on, live |-> TRUE, due |-> -2]]
  <2>1. Still(g, d) /\ d.rest = NoRest
    BY <1>5, StillSteps
  <2>2. \/ k' = d
        \/ k' = openHoldMenu(y) /\ g.rest.on \in facts.columns
    BY <1>1, <1>8 DEF dwellOpenMenu
  <2> HIDE DEF g
  <2>3. g.rest.on \in facts.columns => Still(d, y)
    <3> DEFINE h == [cap |-> g.rest.on, live |-> TRUE, due |-> -2]
    <3>1. g.rest.on \in facts.columns => h \in HoldStates
      BY GestureAssumption DEF QInv, IInv, CapFacts, HoldStates
    <3> HIDE DEF d, h
    <3>2. g.rest.on \in facts.columns => Still(d, [d EXCEPT !.hold = h])
      BY <2>1, <3>1 DEF Still, Gestures
    <3> QED  BY <3>2 DEF h
  <2> HIDE DEF d, y
  <2>4. k'.rest = NoRest /\ k'.typed.rest = k.typed.rest
    BY <1>5, <2>1, <2>2, <2>3, StillOpen DEF Still
  <2>5. k'.typed.rest <= k.typed.rest
    BY <1>2, <2>4, Parts
  <2> QED  BY <1>2, <1>4, <2>4, <2>5, NoMore, NoRestIsOver, QuietOver DEF QInv, Undisturbed
<1> QED  BY <1>3, <1>6, <1>7, <1>8

LEMMA StillRebuilt ==
  ASSUME NEW g \in Gestures
  PROVE  Still(g, Rebuilt(g)) /\ Rebuilt(g).rest = NoRest
<1> DEFINE d == dwellReset(g)
           y == releaseKey(d)
           x == [y EXCEPT !.hold.live = FALSE, !.menu.live = FALSE]
<1>1. Still(g, d) /\ d.rest = NoRest
  BY StillSteps
<1> HIDE DEF d
<1>2. Still(g, y) /\ y.rest = NoRest
  BY <1>1, StillSteps, StillTwice DEF Still
<1> HIDE DEF y
<1>3. Still(g, x) /\ x.rest = NoRest
  BY <1>2 DEF Still, Gestures, HoldStates, MenuStates
<1> QED  BY <1>3 DEF Rebuilt, Dead, x, y, d

LEMMA StillFolded ==
  ASSUME NEW g \in Gestures
  PROVE  Still(g, FoldAll(g)) /\ FoldAll(g).rest = NoRest
<1> DEFINE c == clearCapHold(g)
           m == closeHoldMenu(c)
<1>1. Still(g, c)
  BY StillSteps
<1> HIDE DEF c
<1>2. Still(g, m)
  BY <1>1, StillSteps, StillTwice DEF Still
<1> HIDE DEF m
<1>3. Still(g, dwellReset(m)) /\ dwellReset(m).rest = NoRest
  BY <1>2, StillSteps, StillTwice DEF Still
<1> QED  BY <1>3 DEF FoldAll, m, c

LEMMA BoardQuiet ==
  ASSUME QInv, IInv',
         \/ RowsChange
         \/ \E columns \in SUBSET Columns, rows \in BOOLEAN : FactsChange(columns, rows)
  PROVE  Undisturbed
<1>1. k \in Gestures /\ quiet' = quiet /\ quiet \in Nat
  BY DEF QInv, IInv, Kept, RowsChange, FactsChange
<1>2. Still(k, k') /\ k'.rest = NoRest
  <2>1. CASE RowsChange
    BY <1>1, <2>1, StillRebuilt DEF RowsChange
  <2>2. ASSUME NEW columns \in SUBSET Columns, NEW rows \in BOOLEAN,
               FactsChange(columns, rows)
        PROVE  Still(k, k') /\ k'.rest = NoRest
    <3> DEFINE g == IF rows THEN Rebuilt(k) ELSE k
               m == closeHoldMenu(g)
    <3>1. Still(k, g)
      BY <1>1, StillRebuilt, StillSteps
    <3>2. k' = dwellReset(m)
      BY <2>2 DEF FactsChange
    <3> HIDE DEF g
    <3>3. Still(k, m)
      BY <3>1, StillSteps, StillTwice DEF Still
    <3> HIDE DEF m
    <3> QED  BY <3>2, <3>3, StillSteps, StillTwice DEF Still
  <2> QED  BY <2>1, <2>2
<1> QED  BY <1>1, <1>2, NoRestIsOver, OverAct

LEMMA SwitchesQuiet ==
  ASSUME QInv, IInv', GateTurns \/ SearchTurns
  PROVE  Undisturbed
<1>1. Still(k, k')
  BY StillFolded, StillSteps DEF QInv, IInv, Kept, GateTurns, SearchTurns
<1> QED  BY <1>1, StillAct DEF GateTurns, SearchTurns

(* A profile that changes keeps only the rests it would let type.           *)
LEMMA SettingsTurnQuiet ==
  ASSUME QInv, IInv', NEW next \in Settings, SettingsTurn(next)
  PROVE  Undisturbed
<1>1. k \in Gestures /\ quiet' = quiet /\ quiet \in Nat
  BY DEF QInv, IInv, Kept, SettingsTurn
<1>2. CASE resolve(next) # resolve(profile) \/ ~next.dwell
  <2>1. Still(k, k') /\ k'.rest = NoRest
    BY <1>1, <1>2, StillSteps DEF SettingsTurn
  <2> QED  BY <1>1, <2>1, NoRestIsOver, OverAct
<1>3. CASE ~(resolve(next) # resolve(profile) \/ ~next.dwell)
  <2>1. k' = k /\ pointer' = pointer /\ profile' = next
    BY <1>3 DEF SettingsTurn
  <2>2. dwellArms(profile) => dwellArms(next)
    BY <1>3 DEF dwellArms
  <2>3. Quiet(k', pointer', profile', quiet')
    BY <1>1, <2>1, <2>2 DEF QInv, Quiet
  <2>4. k'.typed.rest <= k.typed.rest
    BY <1>1, <2>1, Parts
  <2> QED  BY <1>1, <2>3, <2>4, NoMore DEF QInv, Undisturbed
<1> QED  BY <1>2, <1>3

LEMMA CloseQuiet ==
  ASSUME QInv, IInv', Close
  PROVE  Undisturbed
<1> DEFINE f == FoldAll(k)
<1>1. Still(k, f) /\ f.rest = NoRest
  BY StillFolded DEF QInv, IInv, Kept
<1>2. k' = releaseKey(f) /\ quiet' = quiet
  BY DEF Close
<1> HIDE DEF f
<1>3. Still(k, k') /\ k'.rest = NoRest
  BY <1>1, <1>2, StillSteps, StillTwice DEF Still
<1> QED  BY <1>2, <1>3, NoRestIsOver, OverAct DEF QInv

LEMMA NextQuiet ==
  ASSUME QInv, Next
  PROVE  IInv' /\ Undisturbed
<1>0. IInv'
  BY NextIInv DEF QInv
<1>1. ASSUME NEW x \in Caps \cup {"out", "entry"}, Hover(x) PROVE Undisturbed
  BY <1>0, <1>1, HoverQuiet
<1>2. ASSUME NEW cap \in Caps, NEW finger \in BOOLEAN, Press(cap, finger) PROVE Undisturbed
  BY <1>0, <1>2, PressQuiet
<1>3. CASE Drag
  BY <1>0, <1>3, DragQuiet
<1>4. CASE Release
  BY <1>0, <1>4, ReleaseQuiet
<1>5. CASE Cancel
  BY <1>0, <1>5, CancelQuiet
<1>6. CASE EntryClick
  BY <1>0, <1>6, EntryClickQuiet
<1>7. CASE ClickAway \/ EntryGone
  BY <1>0, <1>7, MenuActsQuiet
<1>8. CASE Tick
  BY <1>0, <1>8, TickQuiet
<1>9. CASE HoldFires
  BY <1>0, <1>9, HoldFiresQuiet
<1>10. CASE dwellTick
  BY <1>0, <1>10, DwellTickQuiet
<1>11. CASE RowsChange
  BY <1>0, <1>11, BoardQuiet
<1>12. CASE GateTurns \/ SearchTurns
  BY <1>0, <1>12, SwitchesQuiet
<1>13. CASE Close
  BY <1>0, <1>13, CloseQuiet
<1>14. CASE \E columns \in SUBSET Columns, rows \in BOOLEAN : FactsChange(columns, rows)
  BY <1>0, <1>14, BoardQuiet
<1>15. ASSUME NEW next \in Settings, SettingsTurn(next) PROVE Undisturbed
  BY <1>0, <1>15, SettingsTurnQuiet
<1> QED
  BY <1>0, <1>1, <1>2, <1>3, <1>4, <1>5, <1>6, <1>7, <1>8, <1>9, <1>10, <1>11, <1>12,
     <1>13, <1>14, <1>15 DEF Next

(* Dwell.js: a key typed by a rest follows a whole delay in which nothing   *)
(* was entered, left or pressed, under a profile that lets a rest type.     *)
THEOREM RestsTypeInQuiet == Spec => RestsAreUndisturbed
<1>1. Init => QInv
  <2>1. ASSUME Init PROVE quiet \in Nat /\ k.rest.phase = "dead"
    BY <2>1 DEF Init, NoRest
  <2> QED  BY <2>1, InitIInv, QuietOver DEF QInv
<1>2. QInv /\ [Next]_vars => QInv'
  <2>1. CASE QInv /\ Next
    BY <2>1, NextQuiet DEF QInv, Undisturbed
  <2>2. CASE QInv /\ UNCHANGED vars
    <3>1. IInv'
      BY <2>2, NextIInv DEF QInv
    <3> QED  BY <2>2, <3>1 DEF QInv, vars
  <2> QED  BY <2>1, <2>2
<1>3. QInv /\ [Next]_vars => [RestTypes => quiet >= Delay /\ dwellArms(profile)]_vars
  BY NextQuiet DEF Undisturbed
<1> QED  BY <1>1, <1>2, <1>3, PTL DEF Spec, RestsAreUndisturbed

=============================================================================
