---------------------------- MODULE SessionLink ----------------------------
(***************************************************************************)
(* The panel's session on one connection to the helper: configures         *)
(* pipelined behind each other, the keymap generations their answers name, *)
(* the keycap facts asked for and refused, the typing gate, the seat       *)
(* readings that cause the configures and the shares the facts lead to     *)
(* (HelperReplies.js, KeyboardSession.js, ShareQueue.js, Keyboard.qml).    *)
(*                                                                         *)
(* The world around it: a user who switches layouts, edits them and        *)
(* reloads the compositor's configuration; another client of the helper    *)
(* that installs a keymap of its own; a helper that refuses, that restarts *)
(* and that loses the connection.                                          *)
(*                                                                         *)
(* Abstracted: a reply carries the verb of the line it answers (that it    *)
(* pops this one is LedgerAligned of PasteChord); lines whose answer means *)
(* nothing here (`mods 0`, `up`, `ping`, the `ok` of `events on`) get      *)
(* none; one share is one step of the helper (KbFileShare has its steps);  *)
(* the settle guard follows every reading (LayoutFollow has the guard).    *)
(***************************************************************************)
EXTENDS KeyboardSession, ShareQueue, FiniteSets, SequencesExt

CONSTANTS
    DefaultMap,    \* what a starting helper compiles
    HelperGroups,  \* [Keymaps -> Nat]: groups the compiled keymap carries
    ListedGroups,  \* [Keymaps -> Nat]: groups the layout list names
    MaxAttempts,   \* failed runs retried before a share is given up (5 in the code)
    MaxWire,       \* bound: lines and replies under way at once
    MaxMoves, MaxEdits, MaxForeign, MaxRefusals, MaxMissed, MaxDrops,
                   \* bounds: events of each kind
    MaxTotal       \* bound: events of all kinds

ASSUME SessionAssumption ==
    /\ DefaultMap \in Keymaps
    /\ HelperGroups \in [Keymaps -> Nat \ {0}]
    /\ ListedGroups \in [Keymaps -> Nat \ {0}]
    /\ {MaxAttempts, MaxWire, MaxMoves, MaxEdits, MaxForeign, MaxRefusals,
        MaxMissed, MaxDrops, MaxTotal} \subseteq Nat

VARIABLES
    session,          \* root.session
    inputReady,       \* the typing gate
    capsFactsFailed,
    seatAsk,          \* "idle", "asked", "again"
    share,            \* root.shareQueue; sharedKeymapGen mirrors share.shared
    attempts,         \* root.shareAttempts
    retry,            \* shareRetry is running
    link,             \* [up, fresh (socketReconnected), probe (helloInFlight)]
    up, down,         \* lines the helper has not run, replies the panel has not read
    helper,           \* [gen, keymap, group, events]
    lifted,           \* keys were drained that no answer has told the panel of
    seat,             \* the compositor's layouts: [keymap, group]
    kbFile,           \* [published, keymap]: is kb_file ours, and what was compiled
    spent             \* events of each bounded kind

panel == <<session, inputReady, capsFactsFailed, seatAsk, share, attempts, retry>>
world == <<seat, kbFile>>
vars  == <<panel, link, up, down, helper, lifted, world, spent>>

Groups == 0 .. 3
Line(verb, keymap, group) == [verb |-> verb, keymap |-> keymap, group |-> group]
Plain(verb) == Line(verb, NoKeymap, 0)
Answer(line, word) ==
    [verb |-> line.verb, word |-> word, keymap |-> line.keymap,
     group |-> line.group, gen |-> 0, lifted |-> FALSE]
Event == Answer(Plain("event"), "event")

SessionTypeOK ==
    /\ session.acked \in Keymaps \cup {NoKeymap}
    /\ \A i \in DOMAIN session.queue : session.queue[i] \in
          [keymap : Keymaps, changed : BOOLEAN, group : Groups]
    /\ inputReady \in BOOLEAN /\ capsFactsFailed \in BOOLEAN
    /\ seatAsk \in {"idle", "asked", "again"}
    /\ share \in [running : BOOLEAN, launched : Nat, wished : Nat, shared : Nat]
    /\ attempts \in 0 .. MaxAttempts /\ retry \in BOOLEAN
    /\ link \in [up : BOOLEAN, fresh : BOOLEAN, probe : BOOLEAN]
    /\ helper \in [gen : Nat, keymap : Keymaps, group : Groups, events : BOOLEAN]
    /\ lifted \in BOOLEAN
    /\ seat \in [keymap : Keymaps, group : Groups]
    /\ kbFile \in [published : BOOLEAN, keymap : Keymaps]

Init ==
    /\ session = initial
    /\ inputReady = FALSE /\ capsFactsFailed = FALSE
    /\ seatAsk = "idle"
    /\ share = NoRun /\ attempts = 0 /\ retry = FALSE
    /\ link = [up |-> FALSE, fresh |-> FALSE, probe |-> FALSE]
    /\ up = <<>> /\ down = <<>>
    /\ helper = [gen |-> 1, keymap |-> DefaultMap, group |-> 0, events |-> FALSE]
    /\ lifted = FALSE
    /\ seat \in [keymap : Keymaps, group : {0}]
    /\ kbFile = [published |-> FALSE, keymap |-> seat.keymap]
    /\ spent = [moves |-> 0, edits |-> 0, foreign |-> 0, refusals |-> 0, missed |-> 0,
              drops |-> 0]

CanSpend(kind, bound) ==
    /\ spent[kind] < bound
    /\ FoldFunction(+, 0, spent) < MaxTotal
Spend(kind) == spent' = [spent EXCEPT ![kind] = @ + 1]
RoomOnTheWire == Len(up) + Len(down) < MaxWire

-----------------------------------------------------------------------------
(* The world. *)

(* What the compositor announces reaches a subscribed panel.  The event's own
   thread writes it, ahead of an answer computed but not written yet or after it. *)
Announced ==
    IF link.up /\ helper.events
    THEN {Append(down, Event)} \cup
         (IF down = <<>> THEN {} ELSE {Append(Front(down), Event) \o <<Last(down)>>})
    ELSE {down}

UserSwitches(g) ==
    /\ CanSpend("moves", MaxMoves) /\ Spend("moves") /\ RoomOnTheWire
    /\ g # seat.group /\ g < ListedGroups[seat.keymap]
    /\ seat' = [seat EXCEPT !.group = g]
    /\ down' \in Announced
    /\ UNCHANGED <<panel, link, up, helper, lifted, kbFile>>

(* A reload of the compositor's configuration: other layouts, or the same ones,
   and a runtime kb_file goes back to what the file says. *)
UserReloads(k) ==
    /\ CanSpend("edits", MaxEdits) /\ Spend("edits") /\ RoomOnTheWire
    /\ seat' = [keymap |-> k, group |-> 0]
    /\ kbFile' = [published |-> FALSE, keymap |-> k]
    /\ down' \in Announced
    /\ UNCHANGED <<panel, link, up, helper, lifted>>

(* install_config for a keymap the helper does not have. *)
Installs(k, g) ==
    helper' = [helper EXCEPT !.gen = @ + 1, !.keymap = k, !.group = g]

AnotherClientConfigures(k) ==
    /\ CanSpend("foreign", MaxForeign) /\ Spend("foreign")
    /\ k # helper.keymap
    /\ Installs(k, 0)
    /\ lifted' = TRUE
    /\ UNCHANGED <<panel, link, up, down, world>>

-----------------------------------------------------------------------------
(* The helper runs the first line. *)

Reply(r) == /\ up # <<>>
            /\ up' = Tail(up)
            /\ down' = Append(down, r)
            /\ UNCHANGED <<panel, link>>

Next1 == Head(up)
Asks(verb) == up # <<>> /\ Next1.verb = verb

RunHello ==
    /\ Asks("hello")
    /\ Reply(Answer(Next1, "hello"))
    /\ UNCHANGED <<helper, lifted, world, spent>>

RunEvents ==
    /\ Asks("events")
    /\ up' = Tail(up)
    /\ helper' = [helper EXCEPT !.events = TRUE]
    /\ UNCHANGED <<panel, link, down, lifted, world, spent>>

RunSeat ==
    /\ Asks("seat")
    /\ Reply([Answer(Next1, IF kbFile.published THEN "ours" ELSE "theirs")
                EXCEPT !.keymap = seat.keymap, !.group = seat.group])
    /\ UNCHANGED <<helper, lifted, world, spent>>

Configured(gen, drained) ==
    [Answer(Next1, "configured") EXCEPT !.gen = gen, !.lifted = drained]

(* The same keymap only moves the group; another one lifts what is held. *)
RunConfigure ==
    /\ Asks("configure")
    /\ Next1.group < HelperGroups[Next1.keymap]
    /\ IF Next1.keymap = helper.keymap
       THEN /\ helper' = [helper EXCEPT !.group = Next1.group]
            /\ Reply(Configured(helper.gen, lifted))
       ELSE /\ Installs(Next1.keymap, Next1.group)
            /\ Reply(Configured(helper.gen + 1, TRUE))
    /\ lifted' = FALSE
    /\ UNCHANGED <<world, spent>>

(* Refused by the rate limit or the compiler before anything is lifted, or by
   the upload after everything was. *)
RunConfigureFails ==
    /\ Asks("configure") /\ Next1.keymap # helper.keymap
    /\ CanSpend("refusals", MaxRefusals) /\ Spend("refusals")
    /\ Reply(Answer(Next1, "cannot configure"))
    /\ lifted' = FALSE
    /\ UNCHANGED <<helper, world>>

RunCaps ==
    /\ Asks("caps") /\ Next1.group < HelperGroups[helper.keymap]
    /\ Reply([Answer(Next1, "caps") EXCEPT !.gen = helper.gen, !.keymap = helper.keymap])
    /\ UNCHANGED <<helper, lifted, world, spent>>

RunBadGroup ==
    /\ \/ Asks("configure") /\ Next1.group >= HelperGroups[Next1.keymap]
       \/ Asks("caps") /\ Next1.group >= HelperGroups[helper.keymap]
    /\ Reply(Answer(Next1, "bad group"))
    /\ UNCHANGED <<helper, lifted, world, spent>>

RunShare ==
    /\ Asks("share")
    /\ Reply(Answer(Next1, "ok"))
    /\ kbFile' = [published |-> TRUE, keymap |-> helper.keymap]
    /\ UNCHANGED <<helper, lifted, seat, spent>>

RunShareFails ==
    /\ Asks("share")
    /\ CanSpend("refusals", MaxRefusals) /\ Spend("refusals")
    /\ Reply(Answer(Next1, "err share"))
    /\ UNCHANGED <<helper, lifted, world>>

RunSeatFails ==
    /\ Asks("seat")
    /\ CanSpend("missed", MaxMissed) /\ Spend("missed")
    /\ Reply(Answer(Next1, "err seat"))
    /\ UNCHANGED <<helper, lifted, world>>

HelperRuns ==
    \/ RunHello \/ RunEvents \/ RunSeat \/ RunSeatFails
    \/ RunConfigure \/ RunConfigureFails \/ RunCaps \/ RunBadGroup
    \/ RunShare \/ RunShareFails

-----------------------------------------------------------------------------
(* The connection. *)

(* onConnectionDropped.  A helper that restarted is back at its default keymap
   and its first generation; one that did an orderly exit gave kb_file back. *)
Drop(restarted, gaveBack) ==
    /\ link.up
    /\ CanSpend("drops", MaxDrops) /\ Spend("drops")
    /\ link' = [up |-> FALSE, fresh |-> FALSE, probe |-> FALSE]
    /\ up' = <<>> /\ down' = <<>>
    /\ inputReady' = FALSE
    /\ session' = connectionDown(session)
    /\ seatAsk' = "idle"
    /\ share' = NoRun /\ attempts' = 0 /\ retry' = FALSE
    /\ helper' = IF restarted
                   THEN [gen |-> 1, keymap |-> DefaultMap, group |-> 0, events |-> FALSE]
                   ELSE [helper EXCEPT !.events = FALSE]
    /\ kbFile' = IF gaveBack THEN [published |-> FALSE, keymap |-> seat.keymap]
                             ELSE kbFile
    /\ gaveBack => restarted
    /\ lifted' = FALSE
    /\ UNCHANGED <<capsFactsFailed, seat>>

Connect ==
    /\ ~link.up
    /\ link' = [up |-> TRUE, fresh |-> TRUE, probe |-> TRUE]
    /\ up' = <<Plain("hello")>>
    /\ UNCHANGED <<panel, down, helper, lifted, world, spent>>

(* reconnectTimer: a hello while the gate is shut or a configure is owed. *)
RepairTick ==
    /\ link.up /\ ~link.probe /\ RoomOnTheWire
    /\ ~(inputReady /\ settled(session))
    /\ link' = [link EXCEPT !.probe = TRUE]
    /\ up' = Append(up, Plain("hello"))
    /\ UNCHANGED <<panel, down, helper, lifted, world, spent>>

-----------------------------------------------------------------------------
(* The panel reads the first reply. *)

Heard == Head(down)
Hears(word) == down # <<>> /\ Heard.word = word
(* Any reply but a pushed event lifts the probe's debt. *)
Read == /\ down' = Tail(down)
        /\ link' = [link EXCEPT !.probe = FALSE]
        /\ UNCHANGED <<helper, lifted, world, spent>>

(* askSeat: one request out, and one more owed when a change is announced. *)
AskedSeat == IF seatAsk = "idle" THEN "asked" ELSE "again"
SeatLine == IF seatAsk = "idle" THEN <<Plain("seat")>> ELSE <<>>

HearHello ==
    /\ Hears("hello")
    /\ down' = Tail(down)
    /\ link' = [link EXCEPT !.probe = FALSE, !.fresh = FALSE]
    /\ inputReady' = FALSE
    /\ capsFactsFailed' = (capsFactsFailed /\ ~link.fresh)
    /\ session' = helloAcked(session, link.fresh)
    /\ seatAsk' = AskedSeat
    /\ up' = up \o (IF link.fresh THEN <<Plain("events")>> ELSE <<>>) \o SeatLine
    /\ UNCHANGED <<share, attempts, retry, helper, lifted, world, spent>>

HearEvent ==
    /\ Hears("event")
    /\ down' = Tail(down)
    /\ seatAsk' = AskedSeat
    /\ up' = up \o SeatLine
    /\ UNCHANGED <<session, inputReady, capsFactsFailed, share, attempts, retry, link,
                   helper, lifted, world, spent>>

(* Mutant: the answer settles the ask, whatever was announced meanwhile. *)
SeatSettledOnce == [ask |-> "idle", lines |-> <<>>]
(* Either way the ask is settled, and repeated if something changed meanwhile. *)
SeatSettled ==
    IF seatAsk = "again" THEN [ask |-> "asked", lines |-> <<Plain("seat")>>]
                         ELSE [ask |-> "idle", lines |-> <<>>]

Started(run) == IF run.start THEN <<Plain("share")>> ELSE <<>>

(* Mutant: the gate stands while a configure that changes the keymap is sent. *)
GateLeftOpen(k) == inputReady
(* configureHeld shuts the gate ahead of a configure that will change it. *)
GateBefore(k) == inputReady /\ k = installed(session)

(* ingestSeatFacts: a kb_file that is not ours after it was shared voids the
   share; the configure follows. *)
Ingest(k, g, displacedNow) ==
    LET run == IF displacedNow THEN acked(displaced(share), session.ackedGen)
                               ELSE [state |-> share, start |-> FALSE]
    IN  /\ share' = run.state
        /\ inputReady' = GateBefore(k)
        /\ session' = configureSent(session, k, g)
        /\ seatAsk' = SeatSettled.ask
        /\ up' = up \o Started(run) \o <<Line("configure", k, g)>> \o SeatSettled.lines

HearSeat ==
    /\ Hears("ours") \/ Hears("theirs")
    /\ Ingest(Heard.keymap, Heard.group, Heard.word = "theirs" /\ share.shared # 0)
    /\ Read
    /\ UNCHANGED <<capsFactsFailed, attempts, retry>>

HearSeatRefused ==
    /\ Hears("err seat")
    /\ seatAsk' = SeatSettled.ask
    /\ up' = up \o SeatSettled.lines
    /\ Read
    /\ UNCHANGED <<session, inputReady, capsFactsFailed, share, attempts, retry>>

(* In ascending order of the groups. *)
CapsLines(groups) ==
    [i \in 1 .. Cardinality(groups) |->
        Line("caps", NoKeymap,
             CHOOSE g \in groups : Cardinality({h \in groups : h < g}) = i - 1)]

(* settleConfigure's answer to "did the helper lift what we hold?". *)
JumpIgnored(state, gen) == Head(state.queue).changed
Drained(state, gen) ==
    \/ Head(state.queue).changed
    \/ state.ackedGen # 0 /\ gen # state.ackedGen

HearConfigured ==
    LET next == configureAck(session, Heard.gen)
    IN  /\ Hears("configured")
        /\ session' = next
        /\ up' = up \o (IF settled(next)
                          THEN CapsLines(missingCapGroups(next, ListedGroups[next.acked]))
                          ELSE <<>>)
        /\ inputReady' = typingReady(next)
        /\ Read
        /\ UNCHANGED <<capsFactsFailed, seatAsk, share, attempts, retry>>

NoticeCleared == FALSE

(* Accepted facts clear the notice, share the keymap and may open the gate;
   refused ones do nothing. *)
HearCaps ==
    LET next == capsFacts(session, Heard.gen, Heard.group, Heard.keymap)
        run  == acked(share, session.ackedGen)
    IN  /\ Hears("caps")
        /\ IF Heard.gen = session.ackedGen
           THEN /\ session' = next
                /\ capsFactsFailed' = NoticeCleared
                /\ share' = run.state
                /\ up' = up \o Started(run)
                /\ inputReady' = (inputReady \/ typingReady(next))
           ELSE UNCHANGED <<session, capsFactsFailed, share, up, inputReady>>
        /\ Read
        /\ UNCHANGED <<seatAsk, attempts, retry>>

BadGroupSettles == configureFailed(session)

HearBadGroup ==
    /\ Hears("bad group")
    /\ IF Heard.verb = "configure"
       THEN session' = BadGroupSettles /\ UNCHANGED <<capsFactsFailed, inputReady>>
       ELSE /\ capsFactsFailed' = ~capsCurrent(session)
            /\ inputReady' = (inputReady /\ capsCurrent(session))
            /\ UNCHANGED session
    /\ Read
    /\ UNCHANGED <<up, seatAsk, share, attempts, retry>>

HearCannotConfigure ==
    /\ Hears("cannot configure")
    /\ session' = configureFailed(session)
    /\ inputReady' = FALSE
    /\ Read
    /\ UNCHANGED <<up, capsFactsFailed, seatAsk, share, attempts, retry>>

(* shareFinished: a success may go on to the pending wish; a failure is retried
   later, and given up after MaxAttempts of them. *)
HearShare ==
    LET done == runFinished(share, Heard.word = "ok")
        more == share.running /\ Heard.word # "ok" /\ attempts < MaxAttempts
    IN  /\ Hears("ok") \/ Hears("err share")
        /\ share' = IF share.running /\ Heard.word # "ok" /\ ~more
                      THEN runAbandoned(share) ELSE done.state
        /\ attempts' = IF more THEN attempts + 1 ELSE 0
        /\ retry' = (retry \/ more)
        /\ up' = up \o Started(done)
        /\ Read
        /\ UNCHANGED <<session, inputReady, capsFactsFailed, seatAsk>>

ShareRetry ==
    /\ retry
    /\ retry' = FALSE
    /\ up' = IF share.running THEN Append(up, Plain("share")) ELSE up
    /\ UNCHANGED <<session, inputReady, capsFactsFailed, seatAsk, share, attempts,
                   link, down, helper, lifted, world, spent>>

PanelHears ==
    \/ HearHello \/ HearEvent \/ HearSeat \/ HearSeatRefused \/ HearConfigured
    \/ HearCaps \/ HearBadGroup \/ HearCannotConfigure \/ HearShare

-----------------------------------------------------------------------------
Next ==
    \/ \E g \in Groups : UserSwitches(g)
    \/ \E k \in Keymaps : UserReloads(k) \/ AnotherClientConfigures(k)
    \/ HelperRuns \/ PanelHears
    \/ \E r, b \in BOOLEAN : Drop(r, b)
    \/ Connect \/ RepairTick \/ ShareRetry

Spec == Init /\ [][Next]_vars

(* Both processes run what has reached them, and the timers fire. *)
Fairness == /\ WF_vars(HelperRuns) /\ WF_vars(PanelHears)
            /\ WF_vars(Connect) /\ WF_vars(RepairTick) /\ WF_vars(ShareRetry)
FairSpec == Spec /\ Fairness

-----------------------------------------------------------------------------
(* Properties *)

Configures(seq) == SelectSeq(seq, LAMBDA m : m.verb = "configure")
What(m) == [keymap |-> m.keymap, group |-> m.group]

(* Each entry of the session's queue is a configure the helper has yet to run or
   whose answer the panel has yet to read, in that order: an answer settles the
   configure it answers, through refusals, repairs and reconnections. *)
QueueIsOwed ==
    session.helloOk =>
        [i \in DOMAIN session.queue |-> What(session.queue[i])]
            = [i \in DOMAIN Configures(down \o up) |-> What(Configures(down \o up)[i])]

(* inputReady is a copy the replies keep: while it is open, the handshake holds,
   no configure owed will change the keymap, and the facts drawn are those of the
   acknowledged generation and group. *)
GateIsHonest == inputReady => typingReady(session)

(* While the gate is open, a key pressed now is typed by the keymap its cap was
   drawn from, unless another client has installed one behind the panel: the
   facts in use are those of the helper's keymap, and no configure still under
   way will change it ahead of the key. *)
GateAnswersTheKeymap ==
    inputReady /\ helper.gen = session.ackedGen =>
        /\ session.caps.byGroup[session.group] = helper.keymap
        /\ \A i \in DOMAIN up : up[i].verb = "configure" => up[i].keymap = helper.keymap

(* The panel never keeps believing in keys that were lifted: whenever the helper
   drained, for this configure or for another client's before it, the answer
   that follows is judged a drain. *)
DrainsAreForeseen ==
    Hears("configured") /\ Heard.lifted => Drained(session, Heard.gen)

(* The header never says "unavailable" over a keyboard that types. *)
NoticeMatchesTheGate == inputReady => ~capsFactsFailed

(* A seat the helper can type on: its group is one the keymap has. *)
Typable == seat.group < HelperGroups[seat.keymap]

(* The repair timer's 2 s are longer than the exchange it starts. *)
TickFindsRest == [][RepairTick => up = <<>> /\ down = <<>>]_vars

(* Once the seat is typable and ticks do not overtake repairs, the gate opens for
   good, refused configures and shares included; and the helper types the seat's
   keymap and group, which is also what the compositor compiled, unless a reading
   was refused (nothing asks again) or another client configured (nothing tells),
   or the share was given up, its wish left standing with no run to carry it. *)
FollowsTheSeat == helper.keymap = seat.keymap /\ helper.group = seat.group
IsShared == kbFile.published /\ kbFile.keymap = helper.keymap
GivenUp == spent.refusals > MaxAttempts /\ ~share.running /\ share.wished > share.shared
AtRest == /\ inputReady
          /\ spent.foreign = 0 /\ spent.missed = 0 =>
                FollowsTheSeat /\ (IsShared \/ GivenUp)
ComesToRest == <>[]Typable /\ <>TickFindsRest => <>[]AtRest

=============================================================================
