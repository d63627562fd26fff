----------------------------- MODULE PanelTyping -----------------------------
(***************************************************************************)
(* The caps under a pointer, the reducer's ledger of what is down, and the  *)
(* helper's device, with configures in between that drain it.               *)
(*                                                                         *)
(* applyModifierEvent writes a chord's lines and never waits; the helper    *)
(* runs lines in order and its keymap changes lift everything it holds, so  *)
(* the ledger follows a device it hears of only by the configures' replies. *)
(* There is one pointer: no two keys are under the button at once.  What    *)
(* the helper lifts after fifteen seconds, and other clients' claims, are   *)
(* HelperDevice's.                                                          *)
(***************************************************************************)
EXTENDS KeyboardSession, ModifierReducer, FiniteSets

CONSTANTS
    Caps,            \* the caps that type
    Clicked,         \* the modifiers clicked
    MaxConfigures, MaxGestures, MaxForeign, MaxDrops   \* bounds

ModifierKeys == Modifiers \cup {"LVL3"}

ASSUME TypingAssumption ==
    /\ Clicked \subseteq Clickable
    /\ \A cap \in Caps :
          /\ cap.position \notin ModifierKeys \cup {""}
          /\ {cap.letter, cap.shift, cap.altgr, cap.level5, cap.level3, cap.exact} \subseteq BOOLEAN
    /\ {MaxConfigures, MaxGestures, MaxForeign, MaxDrops} \subseteq Nat

VARIABLES
    session,      \* root.session (KeyboardSession)
    sends,        \* session.sends
    stamps,       \* the `seq` of each entry of session.queue
    inputReady,   \* root.inputReady
    ledger,       \* root.modifierState
    pointer,      \* the button is down on a typing cap
    gesture,      \* a Shift click that may become a double click: the lock before it
    linked,       \* the connection is up
    wire,         \* lines to the helper
    replies,      \* what it answered to configures
    held,         \* the keys this connection holds at the device
    installedGen, \* the helper's keymap generation
    installedMap, \* and identity
    meant,        \* the modifiers each key on the wire is to be typed with, and
                  \* whether the locks drawn then were put down
    blind,        \* keys pressed behind a drain the panel did not foresee, before it heard
    blindLines,   \* how many lines of the wire were written so
    withheld,     \* a lock was left up at a release, for a drain that was ahead
    spent

panel == <<session, sends, stamps, inputReady, ledger, pointer, gesture>>
helper == <<held, installedGen, installedMap>>
typingVars == <<panel, linked, wire, replies, helper, meant, blind, blindLines, withheld, spent>>

TypingTypeOK ==
    /\ inputReady \in BOOLEAN /\ pointer \in BOOLEAN /\ linked \in BOOLEAN
    /\ Len(stamps) = Len(session.queue)
    /\ held \subseteq ModifierKeys \cup {cap.position : cap \in Caps} \cup {"PASTE"}
    /\ ledger.mods \in [Modifiers -> {"idle", "latched", "locked"}]

TypingInit ==
    /\ session = [initial EXCEPT !.helloOk = TRUE]
    /\ sends = 0 /\ stamps = <<>> /\ inputReady = FALSE
    /\ ledger = initialState
    /\ pointer = FALSE /\ gesture = "none"
    /\ linked = TRUE /\ wire = <<>> /\ replies = <<>>
    /\ held = {} /\ installedGen = 1 /\ installedMap = NoKeymap
    /\ meant = <<>> /\ blind = {} /\ blindLines = 0 /\ withheld = FALSE
    /\ spent = [configures |-> 0, gestures |-> 0, foreign |-> 0, drops |-> 0]

CanSpend(kind, bound) == spent[kind] < bound
Spend(kind) == spent' = [spent EXCEPT ![kind] = @ + 1]

-----------------------------------------------------------------------------
(* What a cap is to be typed with, from what is drawn. *)

ShiftMeant(cap) ==
    IF cap.exact THEN cap.shift
    ELSE IF isActive(ledger, "shift") THEN ~(ledger.caps /\ cap.letter)
    ELSE cap.shift \/ (ledger.caps /\ cap.letter)

Meant(cap) ==
    {m \in {"ctrl", "alt", "logo"} : isActive(ledger, m)}
        \cup (IF cap.level5 THEN {"level5"} ELSE {})
        \cup (IF cap.altgr \/ (~cap.exact /\ isActive(ledger, "altgr"))
             THEN {KeyOf("altgr", cap.level3)} ELSE {})
        \cup (IF ShiftMeant(cap) THEN {"shift"} ELSE {})

-----------------------------------------------------------------------------
(* The panel.  applyModifierEvent: the reducer's state, its lines written. *)

Means(modifiers) == meant' = Append(meant, [modifiers |-> modifiers, sure |-> ~withheld])

Write(lines) == wire' = IF linked THEN wire \o lines ELSE wire
Applied(outcome) == ledger' = outcome.state /\ Write(outcome.lines)
NoReply == UNCHANGED <<session, sends, stamps, inputReady, replies>>
Outside == UNCHANGED <<linked, helper, blind, blindLines, withheld>>

PressCap(cap) ==
    /\ ~pointer /\ inputReady /\ CanSpend("gestures", MaxGestures) /\ Spend("gestures")
    /\ Applied(press(ledger, cap, sends))
    /\ Means(Meant(cap))
    /\ pointer' = TRUE /\ gesture' = "none"
    /\ NoReply /\ Outside

(* A lock lifted for the key goes back down, unless a drain was sent meanwhile. *)
Restores == ~hasDrainAhead(session)

(* Always live, and once per press. *)
ReleaseCap ==
    /\ pointer
    /\ Applied(release(ledger, Restores))
    /\ pointer' = FALSE
    /\ withheld' = (withheld \/ (ledger.pending.restore # {} /\ ~Restores))
    /\ UNCHANGED <<gesture, meant, spent, linked, helper, blind, blindLines>> /\ NoReply

(* A modifier acts on the way down, if the gate is open. *)
ClickModifier(m) ==
    /\ ~pointer /\ CanSpend("gestures", MaxGestures) /\ Spend("gestures")
    /\ Applied(IF inputReady THEN click(ledger, m) ELSE [state |-> ledger, lines |-> <<>>])
    /\ gesture' = CASE m # "shift"                  -> "none"
                    [] m = "shift" /\ ~inputReady -> "lost"
                    [] m = "shift" /\ inputReady  ->
                          IF ledger.mods["shift"] = "locked" THEN "locked" ELSE "free"
    /\ UNCHANGED <<pointer, meant>> /\ NoReply /\ Outside

(* The second press of the two is a click of its own first. *)
DoubleClickShift ==
    LET second == click(ledger, "shift")
        double == doubleClick(second.state, "shift")
    IN  /\ gesture # "none" /\ ~pointer /\ inputReady
        /\ Applied([state |-> double.state, lines |-> second.lines \o double.lines])
        /\ gesture' = "none"
        /\ UNCHANGED <<pointer, meant, spent>> /\ NoReply /\ Outside

ClickCaps ==
    /\ CanSpend("gestures", MaxGestures) /\ Spend("gestures")
    /\ ledger' = capsClick(ledger)
    /\ UNCHANGED <<pointer, gesture, meant, wire>> /\ NoReply /\ Outside

(* A key the emoji search took instead. *)
SearchKey ==
    /\ ~pointer /\ CanSpend("gestures", MaxGestures) /\ Spend("gestures")
    /\ ledger' = searchChar(ledger)
    /\ UNCHANGED <<pointer, gesture, meant, wire>> /\ NoReply /\ Outside

(* The header's paste, unpaced. *)
PasteNow(ctrl, shift) ==
    /\ inputReady /\ ledger.pending = NoPending
    /\ CanSpend("gestures", MaxGestures) /\ Spend("gestures")
    /\ Applied(paste(ledger, ctrl, shift, "PASTE"))
    /\ Means((IF ctrl THEN {"ctrl"} ELSE {}) \cup (IF shift THEN {"shift"} ELSE {}))
    /\ gesture' = "none"
    /\ UNCHANGED pointer /\ NoReply /\ Outside

(* The panel is closed. *)
ReleaseModifiers ==
    /\ CanSpend("gestures", MaxGestures) /\ Spend("gestures")
    /\ Applied(releaseAll(ledger))
    /\ pointer' = FALSE /\ gesture' = "none"
    /\ UNCHANGED meant /\ NoReply /\ Outside

(* configureHeld. *)
SendConfigure(k) ==
    /\ linked /\ CanSpend("configures", MaxConfigures) /\ Spend("configures")
    /\ inputReady' = (inputReady /\ k = installed(session))
    /\ session' = configureSent(session, k, 0)
    /\ sends' = sends + 1 /\ stamps' = Append(stamps, sends + 1)
    /\ Write(<<<<"configure", k>>>>)
    /\ UNCHANGED <<ledger, pointer, gesture, replies, meant>> /\ Outside

-----------------------------------------------------------------------------
(* The replies. *)

Drains(reply) ==
    \/ Head(session.queue).changed
    \/ session.ackedGen # 0 /\ reply.gen # session.ackedGen

(* Mutant: the ledger believes what the configure promised. *)
SettledByPromise(reply) ==
    IF Head(session.queue).changed THEN configureDrain(ledger, Head(stamps)) ELSE ledger
(* settleConfigure: a generation jump is a drain, whatever was promised. *)
SettledBy(reply) ==
    IF Drains(reply) THEN configureDrain(ledger, Head(stamps)) ELSE ledger

HearsReply(word) == replies # <<>> /\ Head(replies).word = word
ReadReply == replies' = Tail(replies) /\ stamps' = Tail(stamps)

HearConfigured ==
    /\ HearsReply("configured")
    /\ ReadReply
    /\ session' = configureAck(session, Head(replies).gen)
    /\ ledger' = SettledBy(Head(replies))
    /\ gesture' = IF Drains(Head(replies)) THEN "none" ELSE gesture
    /\ inputReady' = typingReady(session')
    /\ withheld' = (withheld /\ ~Drains(Head(replies)))
    /\ blindLines' = IF Drains(Head(replies)) /\ ~Head(session.queue).changed
                     THEN Len(wire) ELSE blindLines
    /\ UNCHANGED <<sends, pointer, wire, meant, spent, linked, helper, blind>>

LocksToLift == InState(ledger, "locked")

(* Nothing is known of the device: what was locked is lifted for real. *)
HearCannotConfigure ==
    /\ HearsReply("cannot")
    /\ ReadReply
    /\ session' = configureFailed(session)
    /\ ledger' = configureDrain(ledger, -1)
    /\ gesture' = "none"
    /\ inputReady' = FALSE
    /\ Write(Lines("up", LocksToLift, FALSE))
    /\ withheld' = FALSE
    /\ UNCHANGED <<sends, pointer, meant, spent, linked, helper, blind, blindLines>>

(* Refused before any drain: the lock shown is still held. *)
HearBadGroup ==
    /\ HearsReply("bad group")
    /\ ReadReply
    /\ session' = configureFailed(session)
    /\ UNCHANGED <<sends, inputReady, ledger, pointer, gesture, wire, meant, spent>>
    /\ Outside

(* The facts of the acknowledged keymap arrive. *)
HearCaps ==
    /\ linked /\ session.ackedGen > 0
    /\ session' = capsFacts(session, session.ackedGen, 0, session.acked)
    /\ inputReady' = (inputReady \/ typingReady(session'))
    /\ <<session', inputReady'>> # <<session, inputReady>>
    /\ UNCHANGED <<sends, stamps, ledger, pointer, gesture, wire, replies, meant, spent>>
    /\ Outside

-----------------------------------------------------------------------------
(* The helper. *)

HelperRuns(word) == wire # <<>> /\ Head(wire)[1] = word
Ran ==
    /\ wire' = Tail(wire)
    /\ blindLines' = IF blindLines > 0 THEN blindLines - 1 ELSE 0
Told(word, gen) == replies' = Append(replies, [word |-> word, gen |-> gen])

(* An unforeseen drain whose reply is still on its way. *)
Unforeseen(gen, i) == ~session.queue[i].changed /\ gen # session.ackedGen
DrainUnheard ==
    \E i \in DOMAIN replies :
        replies[i].word = "configured" /\ Unforeseen(replies[i].gen, i)

RunDown ==
    LET key == Head(wire)[2]
    IN  /\ HelperRuns("down") /\ Ran
        /\ held' = held \cup {key}
        /\ meant' = IF key \in ModifierKeys THEN meant ELSE Tail(meant)
        /\ blind' = IF DrainUnheard \/ blindLines > 0 THEN blind \cup {key}
                    ELSE blind \ {key}
        /\ UNCHANGED <<panel, linked, replies, installedGen, installedMap, withheld, spent>>

RunUp ==
    LET key == Head(wire)[2]
    IN  /\ HelperRuns("up") /\ Ran
        /\ held' = held \ {key} /\ blind' = blind \ {key}
        /\ UNCHANGED <<panel, linked, replies, installedGen, installedMap, meant, withheld, spent>>

(* The keymap it has keeps everything; another drains, and counts. *)
RunConfigure ==
    LET k == Head(wire)[2]
        gen == IF k = installedMap THEN installedGen ELSE installedGen + 1
    IN  /\ HelperRuns("configure") /\ Ran
        /\ held' = IF k = installedMap THEN held ELSE {}
        /\ blind' = IF k = installedMap THEN blind ELSE {}
        /\ installedMap' = k /\ installedGen' = gen
        /\ Told("configured", gen)
        /\ UNCHANGED <<panel, linked, meant, withheld, spent>>

(* The compiler, the rate limit or the group refuses before the drain. *)
RunConfigureRefused ==
    /\ HelperRuns("configure") /\ Ran
    /\ \E word \in {"cannot", "bad group"} : Told(word, 0)
    /\ UNCHANGED <<panel, linked, helper, meant, blind, withheld, spent>>

(* The upload fails after it. *)
RunUploadFails ==
    /\ HelperRuns("configure") /\ Ran
    /\ Head(wire)[2] # installedMap
    /\ held' = {} /\ blind' = {}
    /\ Told("cannot", 0)
    /\ UNCHANGED <<panel, linked, installedGen, installedMap, meant, withheld, spent>>

(* Another client installs a keymap, or the user's file has new content. *)
KeymapMoves(drained) ==
    /\ CanSpend("foreign", MaxForeign) /\ Spend("foreign")
    /\ installedMap # NoKeymap
    /\ installedMap' = NoKeymap
    /\ IF drained THEN installedGen' = installedGen + 1 /\ held' = {} /\ blind' = {}
                   ELSE UNCHANGED <<installedGen, held, blind>>
    /\ UNCHANGED <<panel, linked, wire, replies, meant, blindLines, withheld>>

-----------------------------------------------------------------------------
(* The connection. *)

(* The helper lifts what the connection held; the ledger keeps it until the next
   hello.  A restarted helper counts from one again. *)
Drop(restarts) ==
    /\ linked /\ CanSpend("drops", MaxDrops) /\ Spend("drops")
    /\ linked' = FALSE
    /\ held' = {} /\ wire' = <<>> /\ replies' = <<>> /\ meant' = <<>>
    /\ blind' = {} /\ blindLines' = 0
    /\ installedGen' = IF restarts THEN 1 ELSE installedGen
    /\ installedMap' = IF restarts THEN NoKeymap ELSE installedMap
    /\ session' = connectionDown(session) /\ inputReady' = FALSE
    /\ UNCHANGED <<sends, stamps, ledger, pointer, gesture, withheld>>

(* helloAcked on a new connection: the lines of releaseAll are not written. *)
LedgerAnew == releaseAll(ledger).state

Reconnect ==
    /\ ~linked /\ linked' = TRUE
    /\ session' = helloAcked(session, TRUE)
    /\ sends' = 0 /\ stamps' = <<>>
    /\ ledger' = LedgerAnew /\ gesture' = "none"
    /\ withheld' = FALSE
    /\ UNCHANGED <<inputReady, pointer, wire, replies, helper, meant, blind, blindLines, spent>>

-----------------------------------------------------------------------------
TypingNext ==
    \/ \E cap \in Caps : PressCap(cap)
    \/ \E m \in Clicked : ClickModifier(m)
    \/ \E ctrl, shift \in BOOLEAN : (ctrl \/ shift) /\ PasteNow(ctrl, shift)
    \/ ReleaseCap \/ DoubleClickShift \/ ClickCaps \/ SearchKey \/ ReleaseModifiers
    \/ \E k \in Keymaps : SendConfigure(k)
    \/ HearConfigured \/ HearCannotConfigure \/ HearBadGroup \/ HearCaps
    \/ RunDown \/ RunUp \/ RunConfigure \/ RunConfigureRefused \/ RunUploadFails
    \/ \E flag \in BOOLEAN : KeymapMoves(flag) \/ Drop(flag)
    \/ Reconnect

TypingSpec == TypingInit /\ [][TypingNext]_typingVars

-----------------------------------------------------------------------------
(* Properties *)

(* What the ledger says is down: locks it has not lifted around a key, and the
   chord under the button. *)
LedgerHolds ==
    LET p == ledger.pending
    IN  (InState(ledger, "locked") \ p.restore)
          \cup IF p = NoPending THEN {}
               ELSE {p.position} \cup {KeyOf(m, p.level3) : m \in p.wrap}

(* The keymap at the device is the one the panel was told of. *)
KeymapIsKnown == session.acked = installedMap /\ session.ackedGen = installedGen

LineAtRest == linked /\ wire = <<>> /\ replies = <<>>

(* With nothing on the wire, no key is down that the ledger does not account for,
   whatever drained the helper and whenever the panel heard - a key pressed behind
   a drain the panel could not foresee is the one exception. *)
NothingIsStuck == LineAtRest => held \ blind \subseteq LedgerHolds

(* And a lock that is drawn is held, unless the keymap moved and no configure has
   told the panel yet, or a release left it up for a configure then refused. *)
LocksAreHeld ==
    LineAtRest /\ KeymapIsKnown /\ ~withheld
        => InState(ledger, "locked") \ ledger.pending.restore \subseteq held

(* A key reaches the device under the modifiers its cap was drawn with, and no
   other: latches, locks, Caps and levels, whatever configures lie between - unless
   it was drawn with a lock that a release had left up. *)
KeysAreTypedAsDrawn ==
    [][HelperRuns("down") /\ Head(wire)[2] \notin ModifierKeys /\ wire' = Tail(wire)
        /\ KeymapIsKnown /\ blind = {} /\ blindLines = 0 /\ Head(meant).sure
         => held \cap ModifierKeys = Head(meant).modifiers]_typingVars

(* What the device holds for this connection is what its ledger says, the other
   clients' keymaps or not: what makes the lock indicator true. *)
IndicatorIsTrue == LineAtRest => held \subseteq LedgerHolds

(* A lock the panel shows is a lock the device still holds, as long as no other
   hand moved the keymap. *)
LockShownIsHeld ==
    LineAtRest /\ KeymapIsKnown
        => InState(ledger, "locked") \ ledger.pending.restore \subseteq held

=============================================================================
