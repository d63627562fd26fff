# OSKar, specified

A TLA+ development of OSKar, the on-screen keyboard: what the Rust helper and
the Quickshell panel do with the one virtual keyboard, with the compositor's
`input:kb_file`, with the lines that run between them, and with what the panel
does with the clipboard, the pointer, the compositor's options and its own
files. Every definition is translated from the source; `PROJECT.json` names the lines it stands for.

Contents: [the system](#the-system), [plan](#plan),
[what is modelled](#what-is-modelled), [runs](#runs), [fairness](#fairness),
[proofs](#proofs), [what rests on an assumption](#what-rests-on-an-assumption),
[not modelled](#not-modelled).

## The system

OSKar is two processes and a compositor.

* The **helper** (`daemon/src/`) owns one `zwp_virtual_keyboard_v1`. It listens
  on `$XDG_RUNTIME_DIR/oskar/control.sock`; every client has a thread, every
  command is one line and is answered by one line, in order. Commands run under
  one lock (`Shared`). Verbs that talk to the compositor (`seat`, `switch`,
  `share`) run on a worker while the client's thread goes on enforcing the hold
  cap.
* The **panel** (`Keyboard.qml`, `Panel.qml` and the pure `*.js` modules) is a
  Quickshell component over one connection. It draws what the helper says is on
  the caps, types by `down`/`up`/`tap`, follows the compositor's layouts, and
  points the compositor at the keymap the helper publishes.
* The **compositor** (Hyprland) delivers keys to clients, owns `kb_file`, and is
  changed behind everyone's back by the user and by config reloads.

### Inventory

| component | state it keeps | operations | what is hard | what makes it correct |
|---|---|---|---|---|
| helper keyboard (`state.rs`, `apply.rs`, parts of `server.rs`, `main.rs`) | claims per key and their age, each connection's list, keymap, group, mask, churn allowance, shutdown flag | `tap`, `down`, `up`, `mods`, `group`, `configure`, departure, cap, release on shutdown | connections overlapping on one key, swaps in the middle of a chord, a cap enforced by whoever wakes, lines buffered behind the shutdown | a key is down iff someone claims it; the mask follows the held keys; no claim outlives its owner; the release is last |
| helper seat backend (`seat.rs`, `hyprland.rs`) | the gate, the recovery record, the value last seen | `seat`, `share`, `restore`, put-back on failure, restore on shutdown | threads at one value with no compare-and-set, lost answers, deadlines, shutdown at any step | `ok` means read back; a failure leaves no trace; an orderly exit leaves nothing published and gives the user's value back |
| helper server (`server.rs`, `events.rs`) | client slots, deadlines, the shared writer | accept, handshake, line loop, pushed events | slots and deadlines, events between replies | one reply per line, slots come back, a silent client is cut |
| protocol, JSON (`protocol.rs`, `json.rs`) | none | parsing | none | total on bounded lines |
| keymap compiler (`keymap.rs`) | none | compile, parse, facts | none | facts describe the text installed |
| panel: share and restore (`Keyboard.qml`, `ShareQueue.js`) | what it remembers of the user's `kb_file`, the share run | reading, configure, share, retry, destruction | shell crashes, closing mid-share, edits | the user's setting is never lost |
| panel: connection (`HelperLink.qml`, `SocketWatch.js`, `HelperReplies.js`) | the socket, the probe's debt, the reply queue | hello, ping, rebuild, dispatch | a socket that lies `connected`, late replies | a reply settles the command it answers |
| panel: session (`KeyboardSession.js`, `HelperReplies.js`) | queue of configures, acknowledged generation, caps facts | configure, ack, refusal, caps | pipelining, another client's configure | the typing gate is open only over facts of the installed keymap |
| paste chords (`PasteChords.qml`, `ChordAcks.js`, `PasteFlow.js`) | phase of the paste, reply queue with the chord's marks | begin, tick, abort, verdict, guard | late replies, links dropped mid-chord, other commands between the chord's lines | one verdict per paste, success only if every key line was taken |
| emoji and clipboard (`EmojiDelivery.qml`, `ClipboardPaste.js`) | a transaction over the clipboard | capture, set, paste, restore | what the user copies meanwhile | the clipboard is given back |
| modifiers (`ModifierReducer.js`) | one-shot, locked, held | press, release, lock, drain | drains by others | the panel's ledger and the device agree |
| seat motion, settle guard, layouts (`SeatMotion.js`, `SettleGuard.js`, `LayoutDevices.js`, `LanguageControl.js`) | last readings, windows | readings, events, clicks | echoes, flapping devices | the panel follows the user, not its own echo |
| private saves (`PrivateSaves.qml`), configuration (`Config.js`) | values to be written | save, done, failed | a save during a save | the newest value is written last |
| dwell, hold menu (`Dwell.js`, `HoldMenu.qml`, `HoldColumn.js`) | timers of a hovering pointer | enter, leave, tick | cancelled hovers | one key per dwell |
| cursor policy, gaps nudge (`CursorPolicy.js`, `GapsNudge.js`) | leases on compositor options | acquire, release | crashes, second instances | options are given back |
| drawing (`KeyboardLayout.js`, `InputProfile.js`, `EmojiPage.js`, `Settings*`, `Theme.qml`) | none shared | pure | none | tables |
| lifecycle (`bin/oskar`, installers, the unit) | files and units | setup, upgrade, teardown | failure between steps | re-runnable |

### How they interact

The panel's lines reach the helper through one choke point; each line occupies a
place in a queue and each reply pops the oldest. A `seat` reply makes the panel
`configure` the helper (with the user's own `kb_file`, which the helper
records), the acknowledged keymap makes it ask for `caps`, accepted caps make it
`share` the published keymap with the compositor. The helper's shutdown refuses
commands, lifts every key, waits for the gate, gives `kb_file` back and exits; a
watchdog cuts it short.

## Plan

Everything planned at first is written, in this order (each module EXTENDS or
INSTANCEs what is named in brackets):

1. `SharedKeys`, `HelperDevice` [refines `SharedKeys`]: the keyboard everybody
   types on. Proved.
2. `KbFileShare`: the transactions on `kb_file`. Proved.
3. `SharePanels` [`KbFileShare`]: the panels that drive them. Proved.
4. `ChordAcks`, `PasteChord` [`ChordAcks`]: the reply queue and the paste chords.
   Proved.
5. `KeyboardSession`, `ShareQueue`, `SessionLink` [both]: the session over a
   connection, a helper other clients share, and the scheduling of shares by
   generation. Its invariants are proved.
6. `LayoutDevices`, `SeatMotion`, `SettleGuard`, `LayoutFollow` [all three]: what
   the panel makes of the seat. Its action properties are proved.
7. `ModifierReducer`, `PanelTyping` [it and `KeyboardSession`]: the panel's ledger
   of modifiers against the device. Proved.
8. `ClipboardPaste`, `EmojiDelivery`, `PanelClipboard` [both]: what passes through
   the clipboard, over the promise of `PasteChord` (a paste gets one verdict). Proved.
9. `ConfigFile`, `PanelSettings` [it]: the two private files. Proved.
10. `CursorPolicy`, `CompositorOptions` [it]: the options on lease. Proved.
11. `Dwell`, `CapGestures` [it]: presses, holds and rests on the caps. Proved.

Left, the most useful first: the server's client slots and its read deadlines
(`server.rs` 30, 179-183); the bounds of a share as numbers (`seat.rs` 584-611);
helper restarts inside `SharePanels`; an abstract `ExactPaste` which `PasteChord`
implements and on which `EmojiDelivery` runs.

## What is modelled

Each module begins with its abstractions. In short:

**`HelperDevice`** (`state.rs`, `apply.rs`, the callers in `server.rs` and
`main.rs`). The lock around `Shared` makes every command one action: `Tap`,
`Down`, `Up`, `Mods`, `Group`, the four outcomes of a `configure`
(`ConfigureSame`, `ConfigureRefused`, `ConfigureUploadFails`,
`ConfigureInstalls`), `Depart` (`release_all`), `ExpireStuckKeys` (run by each
connection's own thread), and the shutdown in three steps, because it takes the
lock twice (`CloseGate`, `ReleaseEverything`, `Exit`). `held` is
`Shared::held`, `list` the thread's own `Vec` of what it believes it holds, and
`device` what the requests have made of the compositor's keyboard: keys down,
mask, group. Keys, keymaps and masks are constants and small sets; what the
keymap compiler says of a map (the bits a key carries per group, how many groups
there are, whether its text has any keycodes) are CONSTANTS.

**`SharedKeys`** is the promise: claims per key, keys down while claimed, a claim
ended by its owner, by age or by lifting the whole keyboard. `HelperDevice`
implements it with `claims <- held, old <- due, down <- device.down`.

**`KbFileShare`** (`seat.rs`, `hyprland.rs`, the worker in `server.rs`, the
record in `apply.rs`). A worker is a small machine per connection (`job`): read
under the gate, judge, clear, write, read back, answer, and the put-back of a
failure; the shutdown thread is another, with the watchdog as an exit that may
come at any step. Every request is one action whose answer and whose effect are
chosen separately, so "applied but not answered" and "answered but not applied"
both occur. The user's own change and a configure's change of the record come at
any moment.

**`SharePanels`** (`Keyboard.qml`, `ShareQueue.js`) composes those transactions
with the panels: it EXTENDS `KbFileShare`, drives its actions from lines on a
wire, and adds what a panel remembers of the user's `kb_file`, its reading, its
configure and share, the verdict, the retry, its destruction hook and its sudden
death, a config reload of the compositor and the user's edits.

**`ChordAcks`** (`ChordAcks.js`) is the reply queue as operators on a record:
every command sent occupies a slot, every reply pops the oldest, the last slot
of an armed chord is marked, an error inside the chord's region spoils it.

**`PasteChord`** (`PasteChords.qml`, `PasteFlow.js`, `ClipboardPaste.js`,
`HelperLink.qml`, `SocketWatch.js`, parts of `Keyboard.qml`, `HelperReplies.js`
and `ModifierReducer.js`) is a chord's whole life on that queue. Per-connection
wires carry the lines the helper has not run, `replies` the answers the panel
has not read. The panel's actions are the click (`PasteRefused`, `PasteAtOnce`,
`PastePaced`), the 35 ms `Tick`, the user's `Press`, `Release`, `ClickShift`,
`ClosePanel` and `Install`, the reply dispatch (`Reply`, with one branch per
word), and the connection's `Notice`, `Rebuild`, `Teardown`, `HelloTimer` and
`RepairTick`. The helper runs one line of any connection at a time (`Run`),
forgets a connection it has finished with (`Depart`), or dies with a socket that
still reads connected (`HelperDies`). Left out of it: failing writes (a missing
socket object), `mods 0` and `events on` lines, a `hello` refused as not ready,
the keycap facts (they arrive with the configure's answer), other clients, the
helper's idle cut.

Three rules of time are in it. `NextTick` is a constant, so that what rests on it
is visible: a `Qt.callLater` queued by a rebuild runs before the panel gets to
another event. The run has it TRUE; [below](#what-rests-on-an-assumption) is what
FALSE shows. `HelloTimer` waits for a paced chord only where the dial came during
it (`fresh`): its 150 ms begin at the dial, and the tick at most 35 ms later finds
the gate shut and aborts. A hello dialled before the chord may go out between any
two ticks. `InTurn`: a connection's configure comes a 150 ms hello delay and a seat
reading after it was dialled, and by then the helper has run what older
connections had queued. A configure's answer is heard whenever it comes, between
two ticks of the pacer too; a chord that hears of a changed keymap that way, and
goes on, is remembered in `drained`.

**`KeyboardSession`** and **`ShareQueue`** are the two pure machines of the same
names, one operator per event. **`SessionLink`** runs them: `up` and `down` are
the lines under way, `helper` the keymap, generation and group the helper has,
`session`, `inputReady`, `capsFactsFailed`, `seatAsk`, `share` and `attempts` the
panel's fields. `HelperRuns` runs the oldest line (handshake, seat, configure,
caps, share), `PanelHears` takes the oldest answer and does all the handler does:
settles the configure, judges a drain, asks for the facts that are missing,
refuses or accepts facts, opens or closes the gate, launches or retries a share.
`RepairTick` is the 2 s repair, `Connect` and `Drop` the connection (a drop may
take the helper with it), and the user moves the seat's group, reloads another
keymap, or another client configures. A reply carries the verb it answers, which
is what `PasteChord`'s `LedgerAligned` says.

**`LayoutDevices`**, **`SeatMotion`** and **`SettleGuard`** are the three pure
modules: which device answers a reading, which event was a keyboard toggled by
itself, which readings may be followed after a connect. **`LayoutFollow`** puts
them under a panel that hears layout events, asks for readings and configures the
group it follows, beside a user who toggles one keyboard, a compositor that
re-applies every device's keymap in a burst, and an input method that takes the
`main` flag. Time is a tick of the quiet interval.

**`ModifierReducer`** is the reducer, one operator per event, each returning the
state and the lines it emits. **`PanelTyping`** writes those lines to a helper
that lifts everything when it installs a keymap, and answers: the clicks and
gestures of one pointer on four kinds of caps (a letter, a level-3 pair, exact
caps of two levels), configures of the panel's own and of another client's,
dropped connections. The caps' key strokes carry the modifiers they were drawn
with, and the device says under which they arrived.

**`ClipboardPaste`** (the transaction, a pure machine), **`EmojiDelivery`** (its
host: the snapshot, the writes, the verify and restore checks, the queue of
picks, the chord) and **`PanelClipboard`** (the paste chip and the panel's own
reads beside it). Every external process (`wl-copy`, `wl-paste`) is a run that
answers, fails, hangs until its watchdog kills it, or is killed because it was
superseded; the user copies text and secrets at any moment. A chord is what
`PasteChord` says of it: one verdict, success only when it pasted.

**`CursorPolicy`** (the pure machine) and **`CompositorOptions`** (its host, with
the queue of runs and their generations, and `GapsNudge`'s chain of reads and
writes): a panel that opens, closes and is destroyed over a compositor whose
options the user sets too and whose reloads set them back.

**`Dwell`** (the rest machine, the caps that defer, the input profile) and
**`CapGestures`** (`Keyboard.qml`'s press, release, cancel, hold, menu and rest
handlers): one pointer, mouse or finger, over a board that is rebuilt, gated,
searched and reconfigured under it. `gestures` abstracts what a key types to that
it types one.

**`ConfigFile`** (what a text means, what is written for what is held, which
override holds, the theme hold) and **`PanelSettings`** (`Panel.qml`,
`PrivateSaves.qml`, `Theme.qml`): the maker of the directory, the one writer with
its queue and its retry, the watch that reports a change, hand edits, themes and
restarts of the shell, whose writers outlive it.

## Runs

State counts are TLC's; each run takes under three minutes on two workers.

| run | question | bounds | why they are enough |
|---|---|---|---|
| `device` (70 324 states) | does any order of commands, caps, departures, swaps and the shutdown leave the keyboard wrong, and do letters come up? Also the refinement of `SharedKeys`. | 2 connections, a letter and a modifier key, 3 keymaps (2 groups, 1 group, one without keycodes), 2 paid changes per window, 3 installs | two holders overlap, hand a key back and forth, and one swaps under the other; a modifier that means another bit in another group; a map after which nothing types; the third install meets an exhausted allowance |
| `kb_share` (901 356) | are verdicts true, do failures leave no trace, does the shutdown end? | 2 connections, the shutdown; values: unset, published, one that can be put back, one that cannot | the gate admits one at a time, so a second waiter is every other waiter; the four values are all the code distinguishes |
| `panels` (1 457 100) | is the user's setting ever lost over panels that follow one another? | 2 panels (symmetric), setting unset, relative, or the absolute path of a file that exists | the second panel is every successor: it starts from what the first left |
| `panels_edit` (2 561 444) | does the record follow an edit? | 1 panel, 2 files, 1 edit | one edit, between any two of file, file and unset |
| `chord` (1 645 365) | can a chord end badly, whatever happens to its lane, and is every paste answered? | one paste, at once or paced, 2 connections, 1 keymap install, 1 key or lock of the user, who waits at 3 unanswered lines | one loss and one fresh connection after it; one drain and one stroke, at any step of the chord's lines; the flow has two ways to wait, one per kind |
| `session` (396 904) | is the typing gate honest, are drains foreseen, does everything come to rest? | 2 keymaps, one whose file has fewer groups than the list names; at most 2 events among a switch, an edit, another client's install, two refusals, a missed answer and a drop; 4 lines under way; a failed share is retried once | every pair of events meets, at every step of the exchange each causes; two failed shares are one given up; the seat, the connection and the other client are each there once |
| `follow` (221 301) | is the user's toggle followed and the churn not? | 2 keyboards and a button, 2 layouts, at most 2 events of toggles, bursts, clicks and drops; quiet 1 tick, echo 2, quiesce 2, window 5 | the source's constants stand in the same order (quiet < echo, quiesce < window); two keyboards make the smallest tie |
| `typing` (2 396 749) | does the panel's ledger agree with the device, is every key typed as drawn? | 4 kinds of caps, 3 clicked modifiers, 3 gestures, 2 configures, 1 of another client, 1 drop | latch, wrap and release are three gestures; a drain may fall between any two of their lines, and a second behind the first |
| `clipboard` (855 739) | is the clipboard given back, do chords paste their own, do picks end? | six scenarios: 3 picks with 2 failures; 2 picks, a copy, a stall and a failure; a pick beside the chip; the chip and the panel's reads alone, with copies and stalls; 2 attempts, a queue of 1 | three picks fill the slot and the queue and overflow it; every kind of process fails once and hangs once; the user's copy falls at any step |
| `saves` (250 393) | is what is at rest on the disk what was meant? | six scenarios of up to 2 changes, edits, failures, opens, themes, a restart, one of them with a failure before the restart; one field per rule; texts of a user, of a newer version, broken | two changes meet in the queue, a failure meets its retry, an edit meets a save, a restart meets a writer that outlives it, and a failed save |
| `options` (217 296) | are both leases given back? | six scenarios of up to 3 openings, reloads, the user's own settings, 2 failing runs, a destruction; the gaps with 3 failures | three openings ride, requeue and undo; three failures exhaust the chain's retries |
| `gestures` (276 560) | does one act type one key, is nothing left down, are rests decided? | three scenarios of up to 4 moves, 2 presses, 2 drags, a cancel, 2 changes of board or settings; delay 2, window 2 | two presses overlap a hold, a menu and a rest; timers may be a step early or late |

What each property says is written above it in its module. Every property of a
run has a mutant in `PROJECT.json`: a plausible bug in a mapped definition, kept
beside it under a comment that begins with "Mutant", under which the same run
finds the property violated. Some more are defined and not part of a run, for
checking by hand or because a theorem has them: `TypeOK` and its likes,
`DownIffHeld`, `NoOrphanClaims`, `ClaimsAreNotStolen`, `SwapLiftsEverything`,
`GateIsHeld`, `StopLeavesNothingPublished`, `LedgerAligned`, `NeverHalfShared`,
`QueueIsOwed`, `DrainsAbort`, `NoticeMatchesTheGate`, `SuspendedWhileOpen`, `PeekIsCurrent`,
`ChipCatchesUp`, `HeldMenusTypeNothing`, `HoldsAreHeld`, `RestsAreUndisturbed`.

Where the code documents a race it accepts, the model takes the race and the
property excuses exactly it, by a field of a history variable (`past`):

* `options`: a user's change of the option that crosses a write of the panel's,
  or agrees with the override (`crossed`, `disowned`, `raced`); a failed undo is
  still owed.
* `saves`: a reading of an earlier write of the panel's own, or a hand edit, that
  meets a save whose directory is still being made (`crossed`, `Panel.qml` 1934,
  `PrivateSaves.qml` 84); a failure notice of a newer save taken back by an older
  write's landing (`vouched`, `PrivateSaves.qml` 147-151 and 220). Where that save
  was the held theme's snapshot, the theme does not survive the next restart
  either, and nothing said so: `HeldThemeIsKept` excuses it too.
* `typing`: a key pressed behind a drain that no configure's flag foretold, before its
  reply was heard (`blind`), and a lock a release left up because a drain was ahead
  (`withheld`, `Keyboard.qml` 1169): should that configure be refused, the lock is
  drawn and not held until the next drain is heard, and a key drawn with it meanwhile
  is typed without it (`sure` of `meant`).
* `chord`: the key of a chord that heard of a keymap change between two of its
  ticks and went on (`drained`; `PasteChords.qml` 128 and 152 ask for the gate, which
  the answer has opened again, and for the locks, which are as they were). The
  invariants hold of every other press.
* `session`: a share given up after its last retry (`GivenUp`).
* `clipboard`: what the user copies during a burst, and a slow `wl-copy`
  (`SwiftCopy` FALSE), are not promised to survive.

## Fairness

* `HelperDevice`: time passes (WF of `CapElapses`); a connection's thread whose
  own claim came due lifts it (SF of `ExpireStuckKeys /\ OwnClaimDue`: the
  thread checks its deadline before each line, `server.rs` 260-264, and on
  every wakeup, 179-183 and 231-234, so a claim that is due again and again is
  lifted, although another connection's command may meanwhile make it not due);
  the shutdown thread goes on (WF of `ReleaseEverything`, `Exit`). Nobody owes a
  command.
* `KbFileShare`: a worker goes on (WF of `Work`) and so does the shutdown (WF of
  `Shutdown`), because every wait is bounded: `IO_BOUND` 2 s, `SHARE_BOUND` 6 s,
  `PUT_BACK_BOUND` 5 s, `SHUTDOWN_GATE_WAIT` 7 s, the 20 s watchdog
  (`seat.rs` 584-611). The compositor owes nothing: a request may always fail.
* `PasteChord`: the pacer's timer fires (SF of `Tick`: a rebuild and its
  teardown disable it for one event each, again and again if need be), a queued
  `callLater` runs (WF of `Teardown`) and a chord whose guard of 12 s has
  expired is settled by a rebuild (WF of `Rebuild`, `PasteChords.qml` 225-240).
  The helper owes no answer and no connection need ever come back.
* `SessionLink`: the helper and the panel run what has reached them (WF of
  `HelperRuns`, `PanelHears`), and the hello delay, the repair and the share's
  retry fire (WF of `Connect`, `RepairTick`, `ShareRetry`). A repair finds an
  exchange finished (`TickFindsRest`): its timer is 2 s, a round trip is one line
  each way.
* `LayoutFollow`: time passes, events are delivered, timers fire, a reading is
  answered and the socket is redialled (WF of each). Toggles, bursts, clicks and
  drops need not come.
* `PanelClipboard`: WF of `System`, one of the processes or verdicts the panel
  waits for goes on; all of them end, by answer or by the watchdog that kills a
  run (`EmojiDelivery.qml`, `ClipboardPaste.js`), and their number is bounded.
* `CompositorOptions`, `PanelSettings`: every run exits, by itself or by its
  watchdog, the watch reports a change and a reload's event arrives. A user, and
  a failure, need not come.
* `CapGestures`: time passes, a due timer fires, a hidden entry's delegate is
  destroyed.

## Proofs

The theorems of the eight `..._proofs` modules hold for every value of the
constants that satisfies the named assumptions, which TLC evaluates in the runs.
Each invariant was checked by TLC on a small instance before it was proved.

* **`HelperDevice`** (`MapAssumption`, `BoundAssumption`). `DownIffHeld` is not
  inductive alone: a departure lifts what its list names, so it needs every claim
  to be on its owner's list (`ClaimsListed`), and the mask needs the device's
  group to be the configured one (`GroupAgrees`). `IInv` is the conjunction of the
  type invariant with these and with what the shutdown has done; each command
  has a lemma saying it keeps it. From it: `DownIffHeld`, `MaskFollowsHeld`,
  `GroupAgrees`, `NoOrphanClaims`, `HoldsNeedAKeymap`, `ReleaseIsLast`, the action property
  `ClaimsAreNotStolen`, and `Refinement`: `Spec => SharesKeys`.
* **`KbFileShare`** (`FileAssumption`). `IInv` adds to the type and to
  `GateIsHeld` what the gate's holder knows: as long as the user has changed
  nothing, the compositor holds what the steps taken so far left there
  (`HolderKnows`), and after the shutdown's put-back nobody holds the gate again
  (`RestoreIsFinal`). Knowledge survives because only the holder writes. From it:
  the truth of `ok`, the undoing of failures, what is never taken over, and the two
  promises of an orderly exit.
* **`SharePanels`** (`FileAssumption`, `PanelAssumption`). Three arguments.
  `PanelsRunShares` is a refinement, `PanelsSpec => Spec`: every step of the
  composition is a step of `KbFileShare` or leaves it alone, because no line asks
  for more than the helper may be asked (`Askable`), so all the theorems above hold
  with panels driving. `TheRecordFollows` holds for any number of edits, without
  overlap: the last `configure` on a panel's wire carries what the panel remembers,
  and with none there the record is it (`Follows`); no other connection has lines
  to run (`OneAtATime`). `TheUsersAreRecorded`, `TheUsersAreGivenBack` and
  `NothingIsHalfShared` hold for `Successive` panels, the scenario of
  `SharePanels.cfg`: no overlap, no edits, and absolute paths that name files (what
  happens otherwise is in the list below). Neither is inductive: that the record
  names the user's file rests on what every line, answer and worker under way
  already knows. A `configure` on the wire carries the user's own, a `share` or a
  `caps` is sent only behind an acknowledged one, a worker past the gate has captured
  the user's own (`LineKnows`, `AnswerKnows`, `JobKnows`), and a panel that could
  give something back would give back the user's (`PanelKnows`).
* **`PasteChord`** (`PasteAssumption`). The verdict is told from five places: a
  refusal, the reply that settles, an abort, a lost connection, the guard. What
  makes it one is who holds the callback: `CallbackKept` says the ledger holds
  that of the last paste while the flow awaits and none otherwise, so a late
  reply has nothing to settle. `IInv` is this with the shape of the ledger and
  `OneVerdict`. The theorem holds for both values of `NextTick`: one verdict per
  paste does not rest on the event loop's order. The other invariants do rest on
  it (`NextTick` TRUE is their only hypothesis). They relate what the panel
  believes to a device that hears of it later, so the invariant looks ahead: `Rest` is what the live connection will hold
  once the lines in its queue have run, and it is what the panel shows
  (`Shown`, `Locked`, `PacedHolds`); every press in the queue will find its own
  modifiers (`Planned`), unless its paste is in `drained`. While such a chord goes on
  nothing is locked (`PacedShape`), so an abort of it and the lines it has left leave
  nothing held. Since a connection runs its lines in order, a line that
  runs changes neither, and a handler only has to show that its own lines are clean
  on what `Rest` leaves. This needs the books of the lane (`Books`): each answer pops
  the slot of its own command (`Aligned`, which is `LedgerStaysAligned`), no press is
  queued behind a configure that drains (`NoDowns`), and nothing of an older
  connection runs beside the live one once its gate is open (`Older`). From it
  `KeysAreNotMixed` and `NothingLeftHeld`. `SuccessMeansPasted` follows the press of
  the last paste from the queue to the answer that pops its slot (`Tracked`): before
  the chord's last slot it has landed, or an error is counted or still to be read.
* **`PanelClipboard`** (`TxnAssumption`, `DeliveryAssumption`, `TellableAssumption`:
  no text the user may copy is a pick). Both theorems have `SwiftCopy` as a
  hypothesis: the `wl-copy` of a pick lands before its last verify read. The
  invariant says per phase of the transaction what the clipboard serves and the
  copy under way will make it serve (`Shape`), and why that is what is owed
  (`Promise`): `since` and `moved` remember whether the user copied after the burst's
  first pick and after the last read began, and what the snapshot, the verify and
  the restore's check have seen is what they will decide by. Each step of the
  delivery has a lemma; every other step of the panel leaves the delivery alone.
* **`SessionLink`** (`NoKeymapAssumption`, `SessionAssumption`). `inputReady` is a
  copy of what `typingReady(session)` says, kept by the handlers one by one. It is
  not inductive that the two agree: a refused configure computes the queued ones'
  `changed` flags anew while the gate stays open, so a flag that was false may
  become true. The strengthening (`Sound`) is that each queued configure's flag
  says whether its keymap differs from what is installed when it runs
  (`FlagsHold`): then a refusal with the gate open, under which nothing queued
  changes anything, can make no flag true. One lemma per kind of answer says it
  keeps `Sound`, one per action that it keeps `IInv`. `DrainsAreForeseen` and
  `GateAnswersTheKeymap` speak of both ends, so `LInv` adds what is on the wire:
  the queued configures are the lines not yet run and the answers not yet read, in
  order (`Owed`); generations never fall along the answers, rise where keys were
  lifted, and none is above the helper's (`Dated`). The queue's claims are proved
  over a least index (`Least`), not by induction. The bounds play no part.
* **`CompositorOptions`** (no assumption is needed). `HidingIsGivenBack` needs to
  know why the option may differ from the user's word at every moment between:
  either an override is live or a detached last word is coming (`Overridden`), and
  each read, write and reload under way is consistent with what the user said when
  it was asked, or its generation was crossed (`Sampled`, `Reloaded`, `OnTheWay`).
  A closed panel with a live override has its undo coming, queued behind a write, or
  saw it fail (`OwesItsUndo`). `ReadsNeverMeetWrites` needs that what the host runs
  and queues is what the machine asked last (`Readable`, `Writable`). The gaps are
  a separate, smaller invariant (`Nudged`): who knows the original in each phase.
* **`LayoutFollow`** (`DevicesAssumption`, `MotionAssumption`, `FollowAssumption`).
  `ChurnIsNotFollowed` needs that a flip the guard holds is what every reading has
  answered since it was first seen, so that the guard's age of it never exceeds the
  readings' (`HeldFlip`), and that a guard in its window follows some group already.
  `LoneMoveIsTheUsers` has "two keyboards or more" as a hypothesis: a seat whose only
  device is re-applied looks like one toggled, and TLC shows the property violated
  there. With two, the moves on their way to the panel, announced or not, never carry
  a keyboard the user left alone without another device's move after it, right
  before it, or last heard (`InCompany`); a toggle that gets between them breaks up
  nobody else's company; and time passes only where no move is on its way, so a
  candidate the user did not toggle is cut off before its quiet begins (`NotLone`).
  Neither the echo of a click nor the swiftness of a reading is needed for it.
* **`CapGestures`** (`DwellAssumption`, `GestureAssumption`). A pending hold and an
  armed rest are keys still to come, so "one key per act" becomes inductive with:
  nothing was typed yet for them, and no key is down under what will type or has
  opened (`Owed`); the hold and the key that is down belong to the cap pressed now
  (`Pressed`). `RestsAreUndisturbed` is an action property of the same invariant.
* **`PanelSettings`** (`ThemesAssumption`, `SettingsAssumption`: what the panel
  offers a field is valid for it, and a text is a kind with keys). Two lemmas carry
  the rest: what `serializeOverrides` and `serializeState` write of anything the
  panel can hold, `reloadOverrides` and `reloadState` read back unchanged
  (`OverridesReadBack`, `StateReadsBack`); and what the panel can hold is never less
  than that, whatever text it read (`HealthyPanel`). `ChangesAreKept` speaks of rest,
  so the invariant says per file what is true on the way there: once nothing is
  coming the disk reads as what is held (`DiskIsMemory`), and what is furthest on its
  way, the save asked for, the write waiting, the one running or the disk, is what
  was last meant (`LastIsMeant`). The retry keeps it because a failed write is queued
  again only where no newer one of its file waits, and the queue holds one write of
  each file (`OneEach`); a queue drained of the writes of unhealthy files keeps it
  because those files' saves have met an edit (`MetIsCrossed`). `MalformedIsKept` is
  what `nextPrivateWrite` picks. `HeldThemeIsKept` needs that a held theme has its
  snapshot in what the panel holds of `state.json` (`HeldIsSaved`), which at rest is
  on the disk, and that a panel that comes up takes it from there in either order of
  its two loads (`StartedReads`).
* **`PanelTyping`** (`TypingAssumption`: a cap is no modifier key). The ledger is
  ahead of the device by the lines on the wire, so the invariant (`TypingInv`) looks
  along the wire: a key is up before line p if the lines up to p end by lifting it, or
  it is not in hand and none of them puts it down (`Free`); it is down if they end by
  putting it down or leave it in hand (`Sure`). At the end of the wire what the ledger
  does not call down is up, or blind (`TypingUps`), and a lock it shows is down, as
  long as the keymap is known and no release withheld one (`TypingLocks`); before each
  key, what its cap was drawn with is down and every other modifier up
  (`TypingMeant`). At rest the wire is empty, and these are the three properties. A
  configure breaks all of it, so two parts say where configures may be:
  `TypingConfs`, that each on the wire or answered has its entry in the session's
  queue and that nothing is put down behind one flagged as a drain (`TypingGate`, the
  gate is shut there); and `TypingGens`, that a drain the panel did not foresee
  and has not heard is a generation above the acknowledged one in the replies, behind
  which only blind keys are in hand. That the reducer's lines take the device
  from the one ledger to the other, for any set of modifiers, cap and stamp, is
  proved of each event (`Covers`), and that a chord is what its cap is drawn with
  of `press` (`PressTyped`).

The theorems of `KbFileShare` are in `SharePanels_proofs`, before those of the
panels that run it; those of `LayoutFollow` are in `CompositorOptions_proofs`, after
those of the options; those of `PanelTyping` in `PanelClipboard_proofs`, after those
of the clipboard.

Only model-checked: every liveness property (out of the prover's reach).
What a recursive definition computes for every input (the drain of
`CompositorOptions`'s queue, the caps lines of `SessionLink`) is out of reach as
well: the proofs use only what one unfolding says.

## What rests on an assumption

The runs hold under what each module's header and the fairness above state. What
follows is known to go otherwise. Each configuration named here is kept beside
the runs and ends in a counterexample.

The source or its documents say one thing and the code does another:

* `SharePanelsClear.cfg`: the panel's re-share runs ahead of its empty configure,
  so the record outlives a `kb_file` the user removed (`Keyboard.qml` 984,
  `seat.rs` 118).
* `SharePanelsClose.cfg`: a panel closed before its first share's verdict gives
  nothing back, and the share then completes (`Keyboard.qml` 791 against 780-782).
* `SharePanelsGone.cfg`: after a crash, a setting that names a missing file is
  cleared instead of being put back (`Keyboard.qml` 793 against 566-569).
* `PasteChord.cfg` with the property `NeverPastesLate`: a helper that stood still
  between two lines runs the next after the guard's verdict, so a chord reported
  as cancelled may yet be typed (`Keyboard.qml` 1228-1230, `server.rs` 399-404).
* `PasteChord.cfg` with the invariant `DrainsAbort`: a keymap install answered between
  two ticks of the pacer drains the chord's Ctrl; the pacer compares the pending key
  and the locks only (`PasteChords.qml` 128, 152), `V` lands bare, and the paste is
  told ok. `docs/decisions.md` 1368-1369 and `PasteChords.qml` 106-109 say that a
  chord aborts when a configure drains.
* `CapGestures.cfg` with the property `PressesSupersedeRests`: with dwell on, a drag
  out of a pressed cap and back in is an enter, which arms a rest that types a
  second time (`Keyboard.qml` 2639, 1778).
* `PanelClipboard.cfg` with `QueuedBudgets` for `MCBudgets`, `Spec` for `FairSpec`
  and the invariant `FailedPickIsTakenBack`: a queued pick's first verify that reads
  before its own `wl-copy` landed serves the failed pick before it, which counts
  that one as a text of another (`ClipboardPaste.js` 344-364); if the queued pick's
  chord is refused as well, nothing is given back (`EmojiDelivery.qml` 67-69).
* `LayoutFollowRecheck.cfg` (a slow seat): a reading under way that already shows
  the toggle and is heard before its event becomes the base of the judgement, and
  the toggle is never followed (`SeatMotion.js` 16-18, `HelperReplies.js` 312).

Not configurations of their own, but reached by adding the property, the constant
or the bounds named to one:

* `PanelTyping.cfg` with `IndicatorIsTrue` (no drops): a Shift locked or restored
  between a configure's line and its answer is forgotten at the answer although
  the device holds it, where the configure drained behind an open gate
  (`HelperReplies.js`, `settleConfigure`). With `LockShownIsHeld` (no foreign
  client, no drops): a lock is shown that waits for a configure refused later.
* `PasteChord.cfg` with `NextTick` FALSE: a key released between a rebuild's
  resets and its teardown (`HelperLink.qml` 78) leaves a slot no reply pops.
* `SharePanels.cfg` with `Overlap` TRUE and no symmetry: a second panel reads the
  seat between a republish's clear and its write (`seat.rs` 676-682), the reading
  takes no gate (854), and its empty configure erases the record
  (`EmptyKeepsTheRecord`, `seat.rs` 120-123).
* `HelperDevice.cfg` with `DepartureKeepsManualMask`: a connection that claims
  nothing, but whose list still names a modifier a swap drained, wipes by leaving
  the mask a survivor set with a raw `mods` (`apply.rs` 60-63).

What the models take as given: a reconnect takes longer than a burst of the
compositor's, a toggle away and back within the quiet is one that never happened
(`LayoutFollow`); a chord that fails was not pressed, and one pick's restore is
not raced by the chip's chord, a copy between the restore's check and its landing
or a secret between two looks (`EmojiDelivery`); a refused seat reading is not
retried while the gate is open, and nobody tells the panel of another client's
configure, so `ComesToRest` speaks of what the panel knows (`SessionLink`); a
panel destroyed in the middle of a chain leaves the gaps nudged
(`CompositorOptions`); a run that exits with an error wrote nothing, although a write
may land and its process still report a failure (`CompositorOptions`,
`PanelSettings`).

## Not modelled

* The server's counting of client slots and its two read deadlines
  (`server.rs`): its replies, events and cuts are in the modules that need them.
* A connection to a helper with no seat backend (`configureUnseated`), a failed
  keymap upload of another client's, `err not ready` (the panel sends nothing
  before its hello is answered).
* A helper restart inside `SharePanels` (`SessionLink` has restarts without the
  record). A share refused with `err shutting down` or `err no seat backend`
  leaves the panel's share run owned with nothing retrying it; the model's retry
  is optional, which covers it.
* `switch`, `keyboards` and the layout titles: they change nothing the modules
  keep. The language menu's names (`LanguageControl.js`) are text.
* Pure code with no state: the protocol parser, JSON, the keymap compiler, key
  rows, drawing, the emoji catalog and its search, colour arithmetic, strings. Its
  results are constants or choices of the models.
* The lifecycle command and the installers: a script of copies and service
  commands whose outcomes the source does not state.
* File errors of the runtime directory (they are logged only), the keymap's text
  and file descriptor, times as numbers, a second pointer.
* Tests, packaging and the release tools.
