----------------------------- MODULE PasteChord -----------------------------
(***************************************************************************)
(* A paste chord from the click to its one verdict: PasteChords.qml and    *)
(* PasteFlow.js over the reply queue of ChordAcks, the input gate and the  *)
(* reply dispatch of Keyboard.qml and HelperReplies.js, and a connection   *)
(* (HelperLink.qml, SocketWatch.js) that is dropped, lies, is rebuilt and  *)
(* whose far end answers in its own time.                                  *)
(*                                                                         *)
(* Abstractions:                                                           *)
(*   - The three chords differ in their modifiers and in whether they are  *)
(*     paced; INS and V are one key.  Of the keys the user types there is  *)
(*     one, A, and of the modifiers they lock only Shift, as in the code.  *)
(*   - The handshake is two lines, `hello` and the configure its seat      *)
(*     reading leads to; keycap facts arrive with the configure's answer.  *)
(*     `install` is a configure that changes the keymap and so drains every*)
(*     key, `refresh` one that does not.                                   *)
(*   - Timers are steps that may come at any time, except that a queued    *)
(*     teardown comes before them, and the 35 ms tick of a paced chord     *)
(*     before the 150 ms of a hello that a dial started during the chord.  *)
(*     A configure may be answered between two ticks.                      *)
(*   - Writes never fail: the socket object always exists.  On a socket    *)
(*     whose far end is gone they are lost, and occupy a slot all the same.*)
(***************************************************************************)
EXTENDS ChordAcks

CONSTANTS
    Kinds,       \* the chords pasted: "gtk", "terminal", "wine"
    NextTick,    \* Qt.callLater runs before any other event of the panel
    MaxPastes,   \* bound: pastes clicked
    MaxConns,    \* bound: connections dialled
    MaxInstalls, \* bound: keymap changes by the user
    MaxStrokes,  \* bound: keys and locks pressed by the user
    MaxLane      \* bound: the user waits while more lines are unanswered

ASSUME PasteAssumption ==
    /\ Kinds \subseteq {"gtk", "terminal", "wine"}
    /\ NextTick \in BOOLEAN
    /\ MaxPastes \in Nat /\ MaxConns \in Nat \ {0}
    /\ MaxInstalls \in Nat /\ MaxStrokes \in Nat /\ MaxLane \in Nat

VARIABLES
    acks,     \* the ledger of ChordAcks
    flow,     \* PasteFlow: "idle", "paced" or "awaiting"
    chord,    \* the paced chord: its lines, how many went out, the lock it saw
    gate,     \* inputReady
    shift,    \* the panel believes Shift locked
    pending,  \* the panel believes A held
    sock,     \* "open", "stale" (reads connected, nobody there) or "closed"
    teardown, \* a rebuild's Qt.callLater is due
    probe,    \* helloInFlight
    hello,    \* helloTimer runs
    fresh,    \* socketReconnected
    epoch,    \* the connection dialled last
    wire,     \* connection -> lines the helper has not run
    replies,  \* answers the panel has not read, on the last connection
    greeted,  \* connections that completed hello
    claims,   \* connection -> keys it holds down
    pastes,   \* pastes clicked
    installs, strokes, \* counters of the bounds
    verdict,  \* paste -> "none", or what its callback was told
    landed,   \* pastes whose key was pressed
    strays,   \* presses under other modifiers than planned; 0 is the user's
    drained   \* pastes that heard of a keymap change between two of their ticks

panel == <<acks, flow, chord, gate, shift, pending>>
link == <<sock, teardown, probe, hello, fresh, epoch>>
device == <<claims, landed, strays, drained>>
counts == <<pastes, installs, strokes>>
vars == <<panel, link, wire, replies, greeted, device, counts, verdict>>

Modifiers == {"Ctrl", "Shift"}
Keys == Modifiers \cup {"V", "A"}
Pastes == 1..MaxPastes
Epochs == 1..MaxConns
Said == {"none", "ok", "failed", "timedOut", "twice"}

ModsOf(kind) ==
    CASE kind = "gtk" -> {"Shift"}
      [] kind = "terminal" -> {"Ctrl", "Shift"}
      [] kind = "wine" -> {"Ctrl"}

Line == [verb : {"hello", "ping", "install", "refresh", "down", "up"},
         key  : Keys \cup {"none"},
         of   : 0..MaxPastes,        \* the paste whose key it presses
         want : SUBSET Modifiers]    \* the modifiers planned for a press
Cmd(verb) == [verb |-> verb, key |-> "none", of |-> 0, want |-> {}]
Down(k) == [Cmd("down") EXCEPT !.key = k]
Up(k) == [Cmd("up") EXCEPT !.key = k]

Words == {"ok", "err", "notHolding", "refused", "hello", "pong", "configured"}

TypeOK ==
    /\ acks \in [queue : Seq([final : BOOLEAN,
                              verb  : {"hello", "ping", "install",
                                       "refresh", "down", "up"}]),
                 done : 0..MaxPastes, from : Nat, error : BOOLEAN]
    /\ flow \in {"idle", "paced", "awaiting"}
    /\ chord \in [lines : Seq(Line), sent : Nat, lock : BOOLEAN]
    /\ {gate, shift, pending, teardown, probe, hello, fresh} \subseteq BOOLEAN
    /\ sock \in {"open", "stale", "closed"}
    /\ epoch \in Epochs
    /\ wire \in [Epochs -> Seq(Line)]
    /\ replies \in Seq([word : Words, verb : {"hello", "ping", "install",
                                             "refresh", "down", "up"}])
    /\ greeted \in SUBSET Epochs
    /\ claims \in [Epochs -> SUBSET Keys]
    /\ pastes \in 0..MaxPastes /\ installs \in 0..MaxInstalls /\ strokes \in 0..MaxStrokes
    /\ verdict \in [Pastes -> Said]
    /\ landed \in SUBSET Pastes
    /\ strays \in SUBSET (0..MaxPastes)
    /\ drained \in SUBSET Pastes

NoPace == [lines |-> <<>>, sent |-> 0, lock |-> FALSE]

(* A session that is up: the first connection has been greeted and configured. *)
Init ==
    /\ acks = Initial
    /\ flow = "idle" /\ chord = NoPace
    /\ gate = TRUE /\ shift = FALSE /\ pending = FALSE
    /\ sock = "open" /\ teardown = FALSE /\ probe = FALSE /\ hello = FALSE
    /\ fresh = FALSE /\ epoch = 1
    /\ wire = [e \in Epochs |-> <<>>] /\ replies = <<>> /\ greeted = {1}
    /\ claims = [e \in Epochs |-> {}] /\ landed = {} /\ strays = {}
    /\ pastes = 0 /\ installs = 0 /\ strokes = 0
    /\ verdict = [p \in Pastes |-> "none"] /\ drained = {}

(* The panel's thread gets to an event. *)
Awake == ~(teardown /\ NextTick)
(* The user does not run ahead of the lane for ever. *)
Patient == Len(acks.queue) <= MaxLane

-----------------------------------------------------------------------------
(* Writing *)

(* sendCommandUnchecked, line by line *)
Written(lines) == IF sock = "open" THEN [wire EXCEPT ![epoch] = @ \o lines] ELSE wire
Emit(ledger, lines) == acks' = Sent(ledger, lines) /\ wire' = Written(lines)

When(b, lines) == IF b THEN lines ELSE <<>>

(* ModifierReducer.releaseAll: the pending key first, then the lock. *)
ReleaseAll == When(pending, <<Up("A")>>) \o When(shift, <<Up("Shift")>>)

(* ModifierReducer.paste: a lock the chord does not want is lifted around it. *)
ChordLines(kind, p) ==
    LET want  == ModsOf(kind)
        ctrl  == "Ctrl" \in want
        wrap  == "Shift" \in want /\ ~shift
        lift  == "Shift" \notin want /\ shift
        press == [verb |-> "down", key |-> "V", of |-> p, want |-> want]
    IN  When(lift, <<Up("Shift")>>) \o When(ctrl, <<Down("Ctrl")>>)
        \o When(wrap, <<Down("Shift")>>) \o <<press, Up("V")>>
        \o When(wrap, <<Up("Shift")>>) \o When(ctrl, <<Up("Ctrl")>>)
        \o When(lift, <<Down("Shift")>>)

(* ClipboardPaste.compensatingReleases: the presses of the sent prefix that
   are neither lifted in it nor a restore, last pressed first; a chord presses
   Ctrl, then Shift, then its key. *)
Owed(sent) ==
    LET prefix == SubSeq(chord.lines, 1, sent)
        open(k) == /\ \E i \in DOMAIN prefix : prefix[i].verb = "down" /\ prefix[i].key = k
                   /\ \A i \in DOMAIN prefix : prefix[i] # Up(k)
        lift(k) == When(open(k), <<Up(k)>>)
    IN  lift("V") \o lift("Shift") \o lift("Ctrl")

(* The callback of paste p is called: once, or else the record says so. *)
Told(p, word) == [verdict EXCEPT ![p] = IF @ = "none" THEN word ELSE "twice"]

(* Mutant: an abort drops the chord and its callback with it. *)
AbortedUntold ==
    IF flow = "paced"
    THEN flow' = "idle" /\ chord' = NoPace /\ UNCHANGED verdict
    ELSE UNCHANGED <<flow, chord, verdict>>
(* abortPacedPaste, where a paced chord is under way: what it writes, that the
   callback hears of it, and that no lock survives it. *)
AbortLines == When(flow = "paced", Owed(chord.sent) \o ReleaseAll)
Aborted ==
    IF flow = "paced"
    THEN flow' = "idle" /\ chord' = NoPace /\ verdict' = Told(pastes, "failed")
    ELSE UNCHANGED <<flow, chord, verdict>>
LockLeft == shift /\ flow # "paced"

(* A configure is unanswered; one that drains is. *)
Asked == \E i \in DOMAIN acks.queue : acks.queue[i].verb \in {"install", "refresh"}
DrainAhead(ledger) == \E i \in DOMAIN ledger.queue : ledger.queue[i].verb = "install"

-----------------------------------------------------------------------------
(* Pasting *)

(* pasteCurrent.  A paste bounces while another is live, touching nothing. *)
Clicked ==
    /\ Awake /\ Patient
    /\ flow = "idle"
    /\ pastes < MaxPastes
    /\ pastes' = pastes + 1
    /\ UNCHANGED <<gate, shift, pending, link, replies, greeted, device,
                   installs, strokes>>

PasteRefused ==
    /\ Clicked
    /\ ~gate \/ pending
    /\ acks' = ChordStart(acks)
    /\ verdict' = Told(pastes', "failed")
    /\ UNCHANGED <<flow, chord, wire>>

PasteAtOnce(kind) ==
    /\ Clicked
    /\ gate /\ ~pending
    /\ kind # "wine"
    /\ LET lines == ChordLines(kind, pastes')
       IN  /\ acks' = ChordArmed(Sent(ChordStart(acks), lines), pastes')
           /\ wire' = Written(lines)
    /\ flow' = "awaiting"
    /\ UNCHANGED <<chord, verdict>>

PastePaced(kind) ==
    /\ Clicked
    /\ gate /\ ~pending
    /\ kind = "wine"
    /\ acks' = ChordStart(acks)
    /\ flow' = "paced"
    /\ chord' = [lines |-> ChordLines(kind, pastes'), sent |-> 0, lock |-> shift]
    /\ UNCHANGED <<verdict, wire>>

(* Mutant: the pacer looks at the locks alone. *)
LocksHold == shift = chord.lock
(* What the pacer checks before each line. *)
AssumptionsHold == gate /\ ~pending /\ shift = chord.lock

(* pastePacedTick *)
Tick ==
    /\ Awake
    /\ flow = "paced"
    /\ IF AssumptionsHold
       THEN LET next == chord.lines[chord.sent + 1]
                last == chord.sent + 1 = Len(chord.lines)
            IN  /\ acks' = IF last THEN ChordArmed(Sent(acks, <<next>>), pastes)
                                   ELSE Sent(acks, <<next>>)
                /\ wire' = Written(<<next>>)
                /\ flow' = IF last THEN "awaiting" ELSE "paced"
                /\ chord' = IF last THEN NoPace ELSE [chord EXCEPT !.sent = @ + 1]
                /\ UNCHANGED <<shift, pending, verdict>>
       ELSE /\ Emit(acks, AbortLines)
            /\ Aborted
            /\ shift' = FALSE /\ pending' = FALSE
    /\ UNCHANGED <<gate, link, replies, greeted, device, counts>>

-----------------------------------------------------------------------------
(* The user, through applyModifierEvent *)

User == UNCHANGED <<gate, link, replies, greeted, device, pastes>>

(* A cap goes down.  A paced chord is aborted before its line is planned. *)
Press ==
    /\ Awake /\ Patient
    /\ gate /\ ~pending
    /\ strokes < MaxStrokes /\ strokes' = strokes + 1
    /\ LET press == [Down("A") EXCEPT !.want = IF LockLeft THEN {"Shift"} ELSE {}]
       IN  Emit(acks, AbortLines \o <<press>>)
    /\ Aborted
    /\ pending' = TRUE /\ shift' = LockLeft
    /\ User /\ UNCHANGED installs

(* ... and comes up, whatever the gate says. *)
Release ==
    /\ Awake
    /\ pending
    /\ Emit(acks, <<Up("A")>>)
    /\ pending' = FALSE
    /\ User /\ UNCHANGED <<flow, chord, shift, verdict, installs, strokes>>

(* A double click on Shift, or a click that unlocks it. *)
ClickShift ==
    /\ Awake /\ Patient
    /\ gate
    /\ strokes < MaxStrokes /\ strokes' = strokes + 1
    /\ LET turn == IF LockLeft THEN Up("Shift") ELSE Down("Shift")
       IN  Emit(acks, AbortLines \o <<turn>>)
    /\ Aborted
    /\ shift' = ~LockLeft
    /\ pending' = (pending /\ flow # "paced")
    /\ User /\ UNCHANGED installs

(* releaseModifiers *)
ClosePanel ==
    /\ Awake
    /\ flow = "paced" \/ shift \/ pending
    /\ Emit(acks, IF flow = "paced" THEN AbortLines ELSE ReleaseAll)
    /\ Aborted
    /\ shift' = FALSE /\ pending' = FALSE
    /\ User /\ UNCHANGED <<installs, strokes>>

(* configureHeld: a reading that changes the keymap. *)
Install ==
    /\ Awake /\ Patient
    /\ gate /\ ~Asked
    /\ installs < MaxInstalls
    /\ installs' = installs + 1
    /\ Emit(acks, <<Cmd("install")>>)
    /\ gate' = FALSE
    /\ UNCHANGED <<flow, chord, shift, pending, link, replies, greeted, device,
                   pastes, strokes, verdict>>

-----------------------------------------------------------------------------
(* The helper *)

(* The panel still reads what this connection answers. *)
Heard(e) == e = epoch /\ sock = "open"
Alone(e) == \A o \in Epochs \ {e} : claims[o] = {}
Held(e) == claims[e] \cap Modifiers

(* The word a line earns, and the claims it leaves. *)
Outcomes(e, line) ==
    LET k    == line.key
        mine == [claims EXCEPT ![e] = @ \ {k}]
        none == [o \in Epochs |-> {}]
    IN  IF e \notin greeted /\ line.verb # "hello" THEN {<<"err", claims>>}
        ELSE CASE line.verb = "hello" -> {<<"hello", claims>>}
          [] line.verb = "ping" -> {<<"pong", claims>>}
          [] line.verb = "refresh" -> {<<"configured", claims>>}
          [] line.verb = "install" ->
                {<<"configured", none>>, <<"refused", claims>>, <<"refused", none>>}
          [] line.verb = "down" ->
                {<<"ok", [claims EXCEPT ![e] = @ \cup {k}]>>}
                \cup (IF k = "V" THEN {<<"err", claims>>} ELSE {})
          [] line.verb = "up" ->
                IF k \notin claims[e] /\ \E o \in Epochs : k \in claims[o]
                THEN {<<"notHolding", claims>>} ELSE {<<"ok", mine>>}

(* A configure comes a hello delay and a seat reading after its connection was
   dialled; by then the helper is done with what older ones had queued. *)
InTurn(e) ==
    Head(wire[e]).verb \in {"install", "refresh"} => \A o \in 1..e - 1 : wire[o] = <<>>

(* One line of a connection: run, then answered.  On a connection the panel
   has closed the write of the answer fails, and the rest is dropped. *)
Run(e) ==
    /\ wire[e] # <<>> /\ InTurn(e)
    /\ LET line == Head(wire[e])
       IN  \E outcome \in Outcomes(e, line) :
             LET pressed == line.verb = "down" /\ line.key \in {"V", "A"}
                            /\ outcome[1] = "ok"
             IN  /\ claims' = outcome[2]
                 /\ landed' = IF pressed /\ line.of # 0 THEN landed \cup {line.of}
                                                        ELSE landed
                 /\ strays' = IF pressed /\ Heard(e) /\ Alone(e) /\ Held(e) # line.want
                              THEN strays \cup {line.of} ELSE strays
                 /\ greeted' = IF line.verb = "hello" THEN greeted \cup {e} ELSE greeted
                 /\ IF Heard(e)
                    THEN /\ wire' = [wire EXCEPT ![e] = Tail(@)]
                         /\ replies' = Append(replies, [word |-> outcome[1],
                                                        verb |-> line.verb])
                    ELSE /\ wire' = [wire EXCEPT ![e] = <<>>]
                         /\ UNCHANGED replies
    /\ UNCHANGED <<panel, link, counts, verdict, drained>>

(* The end of a connection the panel has closed: its claims are released. *)
Depart(e) ==
    /\ ~Heard(e) /\ wire[e] = <<>> /\ claims[e] # {}
    /\ claims' = [claims EXCEPT ![e] = {}]
    /\ UNCHANGED <<panel, link, wire, replies, greeted, landed, strays, drained,
                   counts, verdict>>

(* The helper stops: it releases its keys, the panel's socket may not tell. *)
HelperDies ==
    /\ sock = "open" /\ epoch < MaxConns
    /\ sock' = "stale"
    /\ wire' = [e \in Epochs |-> <<>>]
    /\ claims' = [e \in Epochs |-> {}]
    /\ UNCHANGED <<panel, teardown, probe, hello, fresh, epoch, replies, greeted,
                   landed, strays, drained, counts, verdict>>

-----------------------------------------------------------------------------
(* A reply: the pop, then the route *)

HelloAcked(after) ==
    /\ gate' = FALSE /\ fresh' = FALSE
    /\ IF fresh THEN shift' = FALSE /\ pending' = FALSE
                ELSE UNCHANGED <<shift, pending>>
    /\ \E verb \in {"install", "refresh"} :
         /\ fresh \/ verb = "refresh"
         /\ Emit(after, <<Cmd(verb)>>)

(* Mutant: a draining configure leaves the panel's ledger as it was. *)
ConfiguredKeeps(after, verb) ==
    /\ gate' = ~DrainAhead(after)
    /\ Emit(after, <<>>)
    /\ UNCHANGED <<shift, pending, fresh>>
Configured(after, verb) ==
    /\ gate' = ~DrainAhead(after)
    /\ IF verb = "install" THEN shift' = FALSE /\ pending' = FALSE
                           ELSE UNCHANGED <<shift, pending>>
    /\ Emit(after, <<>>)
    /\ UNCHANGED fresh

(* cannotConfigure: the locks are lifted, a key under the pointer stays. *)
Refused(after) ==
    /\ gate' = FALSE /\ shift' = FALSE
    /\ Emit(after, When(shift, <<Up("Shift")>>))
    /\ UNCHANGED <<pending, fresh>>

Route(word, verb, after) ==
    CASE word = "hello" -> HelloAcked(after)
      [] word = "configured" -> Configured(after, verb)
      [] word = "refused" -> Refused(after)
      [] word = "err" ->
            gate' = FALSE /\ Emit(after, <<>>) /\ UNCHANGED <<shift, pending, fresh>>
      [] OTHER -> Emit(after, <<>>) /\ UNCHANGED <<gate, shift, pending, fresh>>

(* A keymap change went in, or what holds now is not known: nothing is held. *)
Drains(word, verb) == word = "refused" \/ (word = "configured" /\ verb = "install")

Reply ==
    /\ Awake
    /\ sock # "closed" /\ replies # <<>>
    /\ LET word == Head(replies).word
           verb == IF acks.queue = <<>> THEN "none" ELSE Head(acks.queue).verb
       IN  /\ Route(word, verb, ReplyReceived(acks, word))
           /\ IF Settles(acks)
              THEN /\ flow' = "idle"
                   /\ verdict' = Told(acks.done, IF Succeeds(acks, word)
                                                 THEN "ok" ELSE "failed")
              ELSE UNCHANGED <<flow, verdict>>
           /\ drained' = IF flow = "paced" /\ Drains(word, verb)
                         THEN drained \cup {pastes} ELSE drained
    /\ replies' = Tail(replies)
    /\ probe' = FALSE
    /\ UNCHANGED <<chord, sock, teardown, hello, epoch, greeted, claims, landed, strays,
                   counts>>

-----------------------------------------------------------------------------
(* The connection *)

(* Mutant: the wait of an armed chord dies with the ledger. *)
ConnectionLostUntold ==
    /\ gate' = FALSE /\ probe' = FALSE
    /\ acks' = Initial
    /\ UNCHANGED <<flow, verdict, chord, shift, pending>>
(* HelperReplies.connectionLost, with the gate its callers close. *)
ConnectionLost ==
    /\ gate' = FALSE /\ probe' = FALSE
    /\ acks' = Initial
    /\ IF acks.done # NoChord
       THEN flow' = "idle" /\ verdict' = Told(acks.done, "timedOut")
       ELSE UNCHANGED <<flow, verdict>>
    /\ UNCHANGED <<chord, shift, pending>>

(* A socket object dials: it opens a connection of its own, or finds none. *)
Dial ==
    \/ /\ epoch < MaxConns
       /\ epoch' = epoch + 1 /\ sock' = "open" /\ fresh' = TRUE /\ hello' = TRUE
    \/ sock' = "closed" /\ UNCHANGED <<epoch, fresh, hello>>

(* The disconnect is reported; the same object redials. *)
Notice ==
    /\ Awake
    /\ sock = "stale" /\ replies = <<>>
    /\ ConnectionLost
    /\ Dial
    /\ UNCHANGED <<teardown, wire, replies, greeted, device, counts>>

(* HelperLink.rebuild, by the chord guard, the watchdog, an error on a socket
   that reads connected, or the path check. *)
Rebuild ==
    /\ Awake /\ ~teardown
    /\ \/ acks.done # NoChord
       \/ probe /\ sock # "closed"
       \/ sock = "stale"
       \/ sock = "closed" /\ ~gate
    /\ ConnectionLost
    /\ teardown' = TRUE
    /\ UNCHANGED <<sock, hello, fresh, epoch, wire, replies, greeted, device, counts>>

(* Its Qt.callLater: the socket object goes and a new one dials. *)
Teardown ==
    /\ teardown
    /\ teardown' = FALSE
    /\ replies' = <<>>
    /\ Dial
    /\ UNCHANGED <<panel, probe, wire, greeted, device, counts, verdict>>

(* A dial starts it anew: the tick of a chord that was paced then is sooner. *)
HelloTimer ==
    /\ ~teardown
    /\ hello /\ (flow = "paced" => ~fresh)
    /\ hello' = FALSE /\ probe' = TRUE
    /\ Emit(acks, <<Cmd("hello")>>)
    /\ UNCHANGED <<flow, chord, gate, shift, pending, sock, teardown, fresh, epoch,
                   replies, greeted, device, counts, verdict>>

ProbeHold == flow = "paced" \/ acks.done # NoChord

(* reconnectTimer, where SocketWatch answers "hello" or "ping". *)
RepairTick ==
    /\ ~teardown /\ Patient
    /\ sock # "closed" /\ ~probe /\ ~ProbeHold
    /\ IF gate /\ ~Asked
       THEN Emit(acks, <<Cmd("ping")>>) /\ probe' = TRUE /\ UNCHANGED hello
       ELSE hello' = TRUE /\ UNCHANGED <<acks, wire, probe>>
    /\ UNCHANGED <<flow, chord, gate, shift, pending, sock, teardown, fresh, epoch,
                   replies, greeted, device, counts, verdict>>

-----------------------------------------------------------------------------
Paste == PasteRefused \/ \E kind \in Kinds : PasteAtOnce(kind) \/ PastePaced(kind)

Next ==
    \/ Paste \/ Tick
    \/ Press \/ Release \/ ClickShift \/ ClosePanel \/ Install
    \/ \E e \in Epochs : Run(e) \/ Depart(e)
    \/ HelperDies
    \/ Reply
    \/ Notice \/ Rebuild \/ Teardown \/ HelloTimer \/ RepairTick

Spec == Init /\ [][Next]_vars

(* The event loop runs what is due: the pacer's tick, though rebuilds come and
   go meanwhile, a queued teardown, and the guard of a chord nobody answers. *)
Fairness == SF_vars(Tick) /\ WF_vars(Teardown) /\ WF_vars(Rebuild)
FairSpec == Spec /\ Fairness

-----------------------------------------------------------------------------
(* Properties *)

(* A paste's callback is called once: never for a paste that is live, always
   for one that is not, and never a second time whatever order the guard, the
   reply, an abort and a lost connection come in. *)
OneVerdict ==
    \A p \in Pastes :
        /\ verdict[p] # "twice"
        /\ (verdict[p] = "none") <=> (p > pastes \/ (p = pastes /\ flow # "idle"))

(* Every reply the panel has yet to read pops the slot of the command it
   answers, on every connection of the panel's life (ChordAcks.js). *)
Verbs(seq) == [i \in DOMAIN seq |-> seq[i].verb]
LedgerAligned ==
    sock = "open" /\ ~teardown =>
        Verbs(acks.queue) = Verbs(replies) \o Verbs(wire[epoch])

(* A success means the paste's key was pressed, and under exactly its own
   modifiers (the emoji page records the use and restores the clipboard),
   unless a keymap change was answered between two ticks of the chord: the
   tick finds the gate open again and the locks as they were (PasteChords.qml
   128, 152), and goes on although the helper has let go of the chord's Ctrl. *)
SuccessMeansPasted ==
    \A p \in Pastes : verdict[p] = "ok" => p \in landed /\ (p \in strays => p \in drained)

(* No key ever lands under modifiers it was not meant for: neither the
   chord's under the user's lock, nor the user's under the chord's Ctrl.  The
   one exception is the key of a chord that went on across a keymap change. *)
KeysAreNotMixed == strays \subseteq drained

(* When the lane is quiet and the gate open, the helper holds what the panel
   shows: the locked Shift and the key under the pointer, nothing of a chord. *)
Quiet ==
    sock = "open" /\ ~teardown /\ gate /\ flow = "idle"
    /\ acks.queue = <<>> /\ wire[epoch] = <<>> /\ replies = <<>>
NothingLeftHeld ==
    Quiet => /\ claims[epoch] \ {"A"} = IF shift THEN {"Shift"} ELSE {}
             /\ ~pending => "A" \notin claims[epoch]

(* A paste reported as timed out is not typed afterwards (Keyboard.qml 1228). *)
NeverPastesLate ==
    [][\A p \in Pastes : p \in landed' \ landed => verdict[p] # "timedOut"]_vars

(* Every paste is answered for. *)
EveryPasteSettles == \A p \in Pastes : pastes = p ~> verdict[p] # "none"

-----------------------------------------------------------------------------
(* What the documentation says, and the code does not do. *)

(* docs/decisions.md 1368-1369: "A chord also aborts when the held-modifier
   world it planned around changes under it (a draining configure, a close)",
   and PasteChords.qml 106-109 the same.  The pacer would have to remember the
   drain; it compares the locks, which a drain leaves alone when none was on. *)
DrainsAbort == \A p \in drained : verdict[p] # "ok"
=============================================================================
