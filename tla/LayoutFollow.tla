---------------------------- MODULE LayoutFollow ----------------------------
(***************************************************************************)
(* How the panel follows the seat's layout: layout events and readings in,  *)
(* the group it configures the helper with out (Keyboard.qml's              *)
(* ingestSeatFacts and switchToGroup, HelperReplies' eventLine, seatReply   *)
(* and motionQuiet, over SeatMotion, LayoutDevices and SettleGuard).        *)
(*                                                                         *)
(* The seat around it: a user who toggles the keyboard under their hands,   *)
(* a compositor that re-applies keymaps or is told to switch every device,  *)
(* an input method that takes the `main` flag off the typed keyboard.       *)
(*                                                                         *)
(* Time is a tick of the quiet interval.  A burst is over within a tick, an *)
(* event is heard and a timer runs within the tick it is due in; a reading  *)
(* may take longer and overtake the events of what it saw when SlowSeat.    *)
(* A configure is acknowledged at once, so `remembered` is the group        *)
(* configured (SessionLink has the acks).                                   *)
(***************************************************************************)
EXTENDS SeatMotion, Sequences, SequencesExt

CONSTANTS WindowTicks, QuiesceTicks, EchoTicks,
          Order,                 \* the compositor's enumeration of the devices
          SlowSeat,            \* a reading may take ticks, and overtake events
          MaxToggles, MaxBursts, MaxClicks, MaxDrops,   \* bounds: events of each kind
          MaxEvents                                    \* and of all kinds

Guard == INSTANCE SettleGuard

ASSUME FollowAssumption ==
    /\ {WindowTicks, QuiesceTicks, EchoTicks} \subseteq Nat \ {0}
    /\ QuiesceTicks < WindowTicks /\ EchoTicks < WindowTicks
    /\ SlowSeat \in BOOLEAN
    /\ Order \in Seq(Devices) /\ IsInjective(Order) /\ Range(Order) = Devices
    /\ {MaxToggles, MaxBursts, MaxClicks, MaxDrops, MaxEvents} \subseteq Nat

VARIABLES
    groups,       \* the compositor's group per device
    main,         \* who holds the flag
    ime,          \* an input method holds it instead, for good
    moves,        \* the rest of a burst: <<[device, group], ...>>
    events,       \* layout events on their way
    seatAsk,      \* "idle", "asked", "again"
    answer,       \* the reading the helper took, not heard yet
    linked,       \* the helper's connection is up and greeted
    guard,        \* root.settleGuard
    motion,       \* root.seatMotion
    recheck,      \* ticks until settleRecheck, or -1
    anchor,       \* root.anchorKeyboardName
    remembered,   \* root.rememberedLayoutGroup
    touched,      \* the keyboards the user has toggled
    alone,        \* the keyboard of the last move, toggled by the user in a quiet seat
    seen,         \* what readings answered: the group, and since how many ticks
    spent

seatVars  == <<groups, main, ime, touched, alone>>
panelVars == <<guard, motion, recheck, anchor, remembered, seen>>
wireVars  == <<moves, events, seatAsk, answer, linked>>
followVars == <<seatVars, panelVars, wireVars, spent>>

NoAnswer == [taken |-> FALSE, groups |-> [d \in Devices |-> 0], main |-> NoDevice]
RecheckTicks == QuiesceTicks + 1

FollowTypeOK ==
    /\ groups \in [Devices -> LayoutGroups]
    /\ main \in Safe \cup {NoDevice} /\ touched \subseteq Safe /\ ime \in BOOLEAN
    /\ seatAsk \in {"idle", "asked", "again"} /\ linked \in BOOLEAN
    /\ guard.followed \in LayoutGroups \cup {-1}
    /\ recheck \in -1 .. RecheckTicks
    /\ anchor \in Safe /\ remembered \in LayoutGroups

FollowInit ==
    /\ groups \in [Devices -> LayoutGroups] /\ \A d \in Others : groups[d] = 0
    /\ ime \in BOOLEAN
    /\ main \in IF ime THEN {NoDevice} ELSE Safe
    /\ moves = <<>> /\ events = <<>> /\ seatAsk = "asked" /\ answer = NoAnswer
    /\ linked = TRUE
    /\ guard = Guard!initial /\ motion = still /\ recheck = -1
    /\ anchor = CHOOSE d \in Safe : TRUE
    /\ remembered \in LayoutGroups
    /\ touched = {} /\ alone = NoDevice
    /\ seen = [group |-> -1, age |-> 0]
    /\ spent = [toggles |-> 0, bursts |-> 0, clicks |-> 0, drops |-> 0]

CanSpend(kind, bound) ==
    /\ spent[kind] < bound
    /\ spent.toggles + spent.bursts + spent.clicks + spent.drops < MaxEvents
Spends(kind) == spent' = [spent EXCEPT ![kind] = @ + 1]

-----------------------------------------------------------------------------
(* The seat. *)

Announce(d, g) ==
    events' = IF linked THEN Append(events, [device |-> d, group |-> g]) ELSE events

(* Nothing moved within the quiet, or is about to; nothing is left to read or to
   judge. *)
SeatIsQuiet ==
    /\ moves = <<>> /\ events = <<>> /\ seatAsk = "idle"
    /\ motion.lastAge >= QuietTicks /\ motion.candidate = NoDevice

(* A toggle is per device; the press puts the flag there, if no input method
   takes it away.  It is `alone` where the panel can tell: the keyboard it reads
   already, or any once the window is over. *)
UserToggles(d, g) ==
    /\ CanSpend("toggles", MaxToggles) /\ Spends("toggles")
    /\ g # groups[d]
    /\ groups' = [groups EXCEPT ![d] = g]
    /\ main' = IF ime THEN NoDevice ELSE d
    /\ touched' = touched \cup {d}
    /\ alone' = IF /\ SeatIsQuiet /\ linked /\ guard.followed # Guard!NoGroup
                   /\ Guard!InWindow(guard) =>
                        d = anchor /\ guard.commanded = Guard!NoGroup
                THEN d ELSE NoDevice
    /\ Announce(d, g)
    /\ UNCHANGED <<ime, moves, seatAsk, answer, linked, panelVars>>

MovesOf(order, g) == [i \in DOMAIN order |-> [device |-> order[i], group |-> g]]

(* Re-application, or a switch of every device: in enumeration order. *)
BurstBegins(g) ==
    /\ CanSpend("bursts", MaxBursts) /\ Spends("bursts")
    /\ moves = <<>>
    /\ moves' = MovesOf(Order, g)
    /\ UNCHANGED <<seatVars, panelVars, events, seatAsk, answer, linked>>

Moves ==
    LET m == Head(moves)
    IN  /\ moves # <<>>
        /\ moves' = Tail(moves)
        /\ groups' = [groups EXCEPT ![m.device] = m.group]
        /\ alone' = NoDevice
        /\ Announce(m.device, m.group)
        /\ UNCHANGED <<main, ime, touched, seatAsk, answer, linked, panelVars, spent>>

-----------------------------------------------------------------------------
(* The panel. *)

(* The one sequence of those devices in the compositor's order. *)
InOrder(devices) ==
    {s \in [1 .. Cardinality(devices) -> devices] :
        \A i, j \in DOMAIN s : i < j =>
            \E a, b \in DOMAIN Order : a < b /\ Order[a] = s[i] /\ Order[b] = s[j]}

(* switchToGroup: the guard is told, then every keyboard of the set is moved. *)
Click(g) ==
    /\ CanSpend("clicks", MaxClicks) /\ Spends("clicks")
    /\ linked /\ guard.followed # Guard!NoGroup /\ moves = <<>>
    /\ guard' = Guard!commanded(guard, g, Safe)
    /\ \E switched \in InOrder(Safe) : moves' = MovesOf(switched, g)
    /\ UNCHANGED <<seatVars, motion, recheck, anchor, remembered, seen, events,
                   seatAsk, answer, linked>>

AskedAgain == IF seatAsk = "idle" THEN "asked" ELSE "again"

(* eventLine: any device is evidence of motion, a typed one asks for a reading. *)
HearEvent ==
    LET e == Head(events)
    IN  /\ events # <<>>
        /\ events' = Tail(events)
        /\ motion' = event(motion, e.device, Guard!isEcho(guard, e.device, e.group))
        /\ seatAsk' = IF e.device \in Safe THEN AskedAgain ELSE seatAsk
        /\ UNCHANGED <<seatVars, guard, recheck, anchor, remembered, seen, moves,
                       answer, linked, spent>>

(* motionQuiet: the quiet held, the next reading judges. *)
QuietTimer ==
    /\ linked /\ quietHeld(motion)
    /\ motion' = quiet(motion)
    /\ seatAsk' = AskedAgain
    /\ UNCHANGED <<seatVars, guard, recheck, anchor, remembered, seen, moves, events,
                   answer, linked, spent>>

SettleRecheck ==
    /\ recheck = 0
    /\ recheck' = -1
    /\ seatAsk' = IF linked THEN AskedAgain ELSE seatAsk
    /\ UNCHANGED <<seatVars, guard, motion, anchor, remembered, seen, moves, events,
                   answer, linked, spent>>

(* The helper runs `seat`. *)
TakeReading ==
    /\ linked /\ seatAsk # "idle" /\ ~answer.taken
    /\ SlowSeat \/ events = <<>>
    /\ answer' = [taken |-> TRUE, groups |-> groups, main |-> main]
    /\ UNCHANGED <<seatVars, panelVars, moves, events, seatAsk, linked, spent>>

Picked == select(answer.groups, answer.main, anchor, remembered, motion.mover,
                 motionOf(motion))
Decided == Guard!decide(guard, Picked.group, loneAnchor(Picked, anchor))

Learns == anchorAfter(Picked, Decided.follow, anchor)

(* Mutant: nothing asks again about a flip that was held. *)
NoSecondLook == recheck
(* A held flip is looked at again once its quiesce is over. *)
SecondLook == IF Decided.follow THEN recheck ELSE RecheckTicks

(* ingestSeatFacts, and the ask repeated if something changed meanwhile. *)
HearReading ==
    /\ answer.taken
    /\ answer' = NoAnswer
    /\ seatAsk' = IF seatAsk = "again" THEN "asked" ELSE "idle"
    /\ motion' = reading(motion, answer.groups)
    /\ guard' = Decided.state
    /\ recheck' = SecondLook
    /\ anchor' = Learns
    /\ remembered' = Decided.held
    /\ seen' = IF seen.group = Picked.group THEN seen
               ELSE [group |-> Picked.group, age |-> 0]
    /\ UNCHANGED <<seatVars, moves, events, linked, spent>>

(* The helper's connection is lost with everything on it; what moves meanwhile is
   not announced. *)
Unlink ==
    /\ linked /\ CanSpend("drops", MaxDrops) /\ Spends("drops")
    /\ linked' = FALSE
    /\ events' = <<>> /\ answer' = NoAnswer /\ seatAsk' = "idle"
    /\ motion' = reconnected(motion)
    /\ alone' = NoDevice
    /\ UNCHANGED <<groups, main, ime, touched, moves, guard, recheck, anchor, remembered, seen>>

(* helloAcked on a fresh connection; reconnecting takes longer than a burst. *)
Relink ==
    /\ ~linked /\ moves = <<>>
    /\ linked' = TRUE
    /\ guard' = Guard!connected(guard)
    /\ motion' = reconnected(motion)
    /\ seatAsk' = AskedAgain
    /\ UNCHANGED <<seatVars, recheck, anchor, remembered, seen, moves, events, answer,
                   spent>>

-----------------------------------------------------------------------------
TimersRan == recheck # 0 /\ ~(linked /\ quietHeld(motion))

Tick ==
    /\ moves = <<>> /\ events = <<>> /\ TimersRan
    /\ SlowSeat \/ seatAsk = "idle"
    /\ guard' = Guard!aged(guard)
    /\ motion' = motionAged(motion)
    /\ recheck' = IF recheck > 0 THEN recheck - 1 ELSE recheck
    /\ seen' = [seen EXCEPT !.age = IF @ < QuiesceTicks THEN @ + 1 ELSE @]
    /\ UNCHANGED <<seatVars, anchor, remembered, wireVars, spent>>

FollowNext ==
    \/ \E d \in Safe, g \in LayoutGroups : UserToggles(d, g)
    \/ \E g \in LayoutGroups : BurstBegins(g) \/ Click(g)
    \/ Moves \/ HearEvent \/ QuietTimer \/ SettleRecheck
    \/ TakeReading \/ HearReading \/ Unlink \/ Relink \/ Tick

FollowSpec == FollowInit /\ [][FollowNext]_followVars

(* Time passes; both processes run what has reached them, the timers fire. *)
FollowFairness == /\ WF_followVars(Moves) /\ WF_followVars(HearEvent) /\ WF_followVars(QuietTimer)
            /\ WF_followVars(SettleRecheck) /\ WF_followVars(TakeReading)
            /\ WF_followVars(HearReading) /\ WF_followVars(Relink) /\ WF_followVars(Tick)
FollowFairSpec == FollowSpec /\ FollowFairness

-----------------------------------------------------------------------------
(* Properties *)

(* A keyboard the panel takes for toggled by itself, on the connection it heard
   the move on, is one the user toggled: the panel's own click and a burst are
   never taken for it, whatever order their events and readings arrive in. *)
LoneMoveIsTheUsers ==
    [][answer.taken /\ ~answer'.taken /\ linked' /\ ~motion.gap /\ Picked.movedAlone # NoDevice
         => Picked.movedAlone \in touched]_followVars

(* Inside the window the group followed changes only to the click's, with a lone
   move of the keyboard read, or to a group every reading has answered for a whole
   quiesce: churn that comes and goes never moves it. *)
ChurnIsNotFollowed ==
    [][guard.followed # guard'.followed /\ Guard!InWindow(guard) /\ linked
         => \/ guard'.followed \in {guard.commanded, Guard!NoGroup}
            \/ loneAnchor(Picked, anchor)
            \/ guard'.followed = seen.group /\ seen.age >= QuiesceTicks]_followVars

(* A seat whose keyboards agree for good is what the helper types. *)
SeatAgrees(g) == \A d \in Safe : groups[d] = g
AgreedSeatIsFollowed ==
    \A g \in LayoutGroups : <>[]SeatAgrees(g) => <>[](remembered = g)

(* The last keyboard toggled by itself is the one whose group the helper types,
   the rest of the seat asleep on another one. *)
LoneToggleIsFollowed ==
    \A d \in Safe : <>[](alone = d) => <>[](remembered = groups[d])

=============================================================================
