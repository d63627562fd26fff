--------------------------- MODULE EmojiDelivery ---------------------------
(***************************************************************************)
(* An emoji pick delivered through the clipboard: EmojiDelivery.qml's      *)
(* processes and timers around the transaction of ClipboardPaste, the      *)
(* clipboard of a user who copies meanwhile, and the paste chord the pick  *)
(* ends in (PasteChord has the chord; here it presses its key, or not, and *)
(* gives its one verdict).                                                 *)
(*                                                                         *)
(* Abstracted:                                                             *)
(*   - A read's text is what was served when it began or when it ended, and *)
(*     its two looks at the types are those two moments.                   *)
(*   - wl-copy's text lands some time after it is started; a run replaced  *)
(*     before that never lands.  With SwiftCopy it lands before the pick's *)
(*     last verify read begins, and before a stalled one is given up.      *)
(*   - A watchdog may fire while its read runs; a read that it did not kill *)
(*     ends.                                                               *)
(***************************************************************************)
EXTENDS ClipboardPaste, FiniteSets

CONSTANTS
    Texts,      \* what the user copies as plain text
    Secrets,    \* what a password manager copies
    Emojis,     \* what is picked
    FirstClips, \* what the clipboard serves at first
    SwiftCopy,  \* wl-copy lands before the last verify read
    Budgets     \* bounds: how many events of each kind, one choice per behaviour

ASSUME DeliveryAssumption ==
    /\ NoText \notin Texts \cup Secrets \cup Emojis
    /\ FirstClips \subseteq Texts \cup Secrets /\ SwiftCopy \in BOOLEAN
    /\ Budgets \subseteq [{"picks", "copies", "stalls", "failures", "clicks", "peeks",
                           "moves", "closes", "watch"} -> Nat]

(* A read cannot tell a pick from the same text copied by the user. *)
ASSUME TellableAssumption == Emojis \cap (Texts \cup Secrets) = {}

VARIABLES
    clip,      \* what the clipboard serves
    copying,   \* emojiClipboardPublish: the text under way, and whether it is a restore
    txn,       \* emojiTxnState
    timer,     \* emojiPublishVerifyTimer runs
    verify,    \* emojiClipboardVerify: the read, its seq and retiring
    snap,      \* emojiSnapshotRead
    check,     \* emojiRestoreCheck: the read, its checkId and queuedId
    chord,     \* the paste chord's lane: whose it is, and whether its key went down
    moved,     \* the user copied since a verify or check read began or a pick landed
    owed,      \* what the clipboard may serve once everything has come to rest
    excused,   \* "yes": no promise is made for this burst; "mistaken": see Mistakes
    since,     \* the user copied since this burst's first pick
    budget     \* events of each kind left

delivery == <<copying, txn, timer, verify, snap, check, chord>>
ghosts == <<moved, owed, excused, since>>

Idle == [on |-> "off", was |-> NoText]
NoCopy == [text |-> NoText, restores |-> FALSE]
NoChord == [of |-> "none", seq |-> 0, down |-> FALSE, held |-> NoText]
Contents == Texts \cup Secrets \cup Emojis

Hands(kind) == budget[kind] > 0 /\ budget' = [budget EXCEPT ![kind] = @ - 1]

DeliveryTypeOK ==
    /\ clip \in Contents
    /\ copying \in [text : Texts \cup Emojis \cup {NoText}, restores : BOOLEAN]
    /\ txn.phase \in {"idle", "snapshotting", "publishing", "pasting"}
    /\ txn.queue \in Seq(Emojis) /\ Len(txn.queue) <= QueueCap
    /\ txn.before \in Texts \cup Emojis \cup {NoText}
    /\ {verify.on, snap.on, check.on} \subseteq {"off", "on", "killed"}
    /\ timer \in BOOLEAN /\ verify.retiring \in BOOLEAN
    /\ chord.of \in {"none", "pick", "chip"}

DeliveryInit ==
    /\ clip \in FirstClips
    /\ copying = NoCopy /\ txn = txnInitial /\ timer = FALSE
    /\ verify = [on |-> "off", was |-> NoText, seq |-> 0, retiring |-> FALSE]
    /\ snap = [on |-> "off", was |-> NoText, seq |-> 0]
    /\ check = [on |-> "off", was |-> NoText, id |-> 0, queued |-> 0]
    /\ chord = NoChord
    /\ moved = FALSE /\ owed = {} /\ excused = "no" /\ since = FALSE
    /\ budget \in Budgets

-----------------------------------------------------------------------------
(* Reading: READ_SCRIPT lists the types before and after the text. *)

Starts(run) == [run EXCEPT !.on = "on", !.was = clip]
Ends(run)   == [run EXCEPT !.on = "off", !.was = NoText]
Kills(run)  == IF run.on = "on" THEN [run EXCEPT !.on = "killed"] ELSE run
Secret(run) == {run.was, clip} \cap Secrets # {}
(* What a read that ran to its end may answer; NoText for a secret. *)
Answers(run) == IF Secret(run) THEN {NoText} ELSE {run.was, clip}

-----------------------------------------------------------------------------
(* The world: wl-copy takes the clipboard over, and so does the user. *)

(* No promise is made once a pick has landed on what the user copied after its
   burst began (its snapshot is older than the copy), or a restore on what the
   user copied after the read that decided on it. *)
Lands ==
    /\ copying # NoCopy
    /\ clip' = copying.text /\ copying' = NoCopy
    /\ moved' = (moved /\ copying.restores)
    /\ excused' = IF IF copying.restores THEN moved ELSE since THEN "yes" ELSE excused
    /\ UNCHANGED <<txn, timer, verify, snap, check, chord, owed, since, budget>>

UserCopies(c) ==
    /\ Hands("copies")
    /\ clip' = c /\ moved' = TRUE /\ owed' = {c} /\ since' = TRUE
    /\ UNCHANGED <<delivery, excused>>

-----------------------------------------------------------------------------
(* The one way OSKar puts text on the clipboard, and its debt after a failure. *)

Copy(text) == [text |-> text, restores |-> FALSE]

StartCheck(id) ==
    IF check.on = "off"
    THEN [Starts(check) EXCEPT !.id = id]
    ELSE [Kills(check) EXCEPT !.queued = id]

(* restoreClipboard, then startNextEmojiTxn: an ending hands the clipboard to
   the pick behind it, and only an ending with none behind it owes anything.  No
   promise is made for a pick without a snapshot. *)
Ending(step) ==
    LET next == txnNext(step.txn)
        takes == next.action = "publish"
    IN  /\ txn' = next.txn
        /\ copying' = IF takes THEN Copy(next.txn.pending) ELSE copying
        /\ check' = IF step.restore.does = "check" THEN StartCheck(step.restore.id) ELSE check
        /\ moved' = (moved /\ ~(step.restore.does = "check" /\ check.on = "off"))
        /\ timer' = (timer \/ takes)
        /\ excused' = IF step.action \in {"drop", "cancelled"} /\ txn.before = NoText
                      THEN "yes" ELSE excused

(* The delivered pick is what the clipboard holds from now on. *)
Delivered == owed' = IF moved THEN owed ELSE {txn.pending}

-----------------------------------------------------------------------------
(* A pick: request, the snapshot read and the publication. *)

(* The first pick of a burst answers for what the clipboard holds now, or is
   about to hold. *)
Opens ==
    /\ owed' = {clip} \cup (IF copying = NoCopy THEN {} ELSE {copying.text})
    /\ excused' = "no" /\ since' = FALSE

(* The chip's own chord owns the clipboard: refused while no pick runs. *)
NeverRefused == FALSE  \* mutant: the gate is left out
Refused == chord.of # "none" /\ txn.phase = "idle"

Pick(emoji, reading) ==
    LET step == txnPick(txn, emoji, reading)
    IN  /\ ~Refused /\ Hands("picks")
        /\ txn' = step.txn
        /\ IF txn.phase = "idle" THEN Opens ELSE UNCHANGED <<owed, excused, since>>
        /\ snap' = IF step.action # "snapshot" THEN snap
                   ELSE IF snap.on = "off" THEN [Starts(snap) EXCEPT !.seq = step.txn.seq]
                   ELSE [snap EXCEPT !.seq = step.txn.seq]
        /\ copying' = IF step.action = "publish" THEN Copy(emoji) ELSE copying
        /\ timer' = (timer \/ step.action = "publish")
        /\ UNCHANGED <<clip, verify, check, chord, moved>>

Snapshotted(before) ==
    LET step == txnSnapshotted(txn, snap.seq, before)
        publishes == step.action = "publish"
    IN  /\ txn' = step.txn
        /\ copying' = IF publishes THEN Copy(step.txn.pending) ELSE copying
        /\ timer' = (timer \/ publishes)
        /\ UNCHANGED <<clip, verify, check, chord, ghosts>>

SnapshotRead ==
    /\ snap.on = "on"
    /\ \E text \in Answers(snap) : Snapshotted(text)
    /\ snap' = Ends(snap)
    /\ UNCHANGED budget

SnapshotStalls ==
    /\ snap.on = "on" /\ Hands("stalls")
    /\ Snapshotted(NoText)
    /\ snap' = Kills(snap)

(* The exit of a killed run answers for the pick that waits by then, if any. *)
SnapshotKilled ==
    /\ snap.on = "killed" /\ snap' = Ends(snap)
    /\ Snapshotted(NoText)
    /\ UNCHANGED budget

-----------------------------------------------------------------------------
(* The verify reads. *)

LastRead == txn.attempts + 1 = Attempts

VerifyTick ==
    /\ timer
    /\ SwiftCopy /\ LastRead => copying = NoCopy
    /\ \/ /\ verify.on = "off" /\ ~verify.retiring
          /\ verify' = [Starts(verify) EXCEPT !.seq = txn.seq]
          /\ timer' = FALSE /\ moved' = FALSE
       \/ /\ verify.on # "off" /\ ~verify.retiring
          /\ verify' = [Kills(verify) EXCEPT !.retiring = TRUE]
          /\ timer' = FALSE /\ UNCHANGED moved
    /\ UNCHANGED <<clip, copying, txn, snap, check, chord, owed, excused, since, budget>>

(* A mismatch counts as foreign unless it serves the snapshot, though nobody may
   have copied: it serves the failed pick before this one (the snapshot is older
   than both), or what a restore put back after the snapshot was read. *)
Mistakes(served) ==
    txn.before # NoText /\ served # txn.before /\ (served \in Emojis \/ ~since)

(* The chord goes out, or is refused at once; a pick that ends hands over. *)
Verified(step, mistaken) ==
    \/ /\ step.action = "stale"
       /\ UNCHANGED <<txn, copying, timer, check, chord, ghosts, budget>>
    \/ /\ step.action = "retry"
       /\ txn' = step.txn /\ timer' = TRUE
       /\ excused' = IF mistaken /\ excused = "no" THEN "mistaken" ELSE excused
       /\ UNCHANGED <<copying, check, chord, moved, owed, since, budget>>
    \/ /\ step.action = "drop"
       /\ Ending(step)
       /\ UNCHANGED <<chord, owed, budget>>
    \/ /\ step.action = "chord" /\ chord.of = "none"
       /\ txn' = step.txn
       /\ chord' = [NoChord EXCEPT !.of = "pick", !.seq = step.txn.seq]
       /\ UNCHANGED <<copying, timer, check, ghosts, budget>>
    \/ /\ step.action = "chord"
       /\ IF chord.of = "none" THEN Hands("failures") ELSE UNCHANGED budget
       /\ Ending(txnChordDone(step.txn, step.txn.seq, FALSE))
       /\ UNCHANGED <<chord, owed>>

VerifyRead ==
    /\ verify.on = "on"
    /\ \E served \in Answers(verify) :
          Verified(txnServed(txn, verify.seq, served), Mistakes(served))
    /\ verify' = Ends(verify)
    /\ UNCHANGED <<clip, snap, since>>

VerifyStalls ==
    LET step == txnVerifyTimedOut(txn, verify.seq)
    IN  /\ verify.on = "on" /\ Hands("stalls")
        /\ SwiftCopy => copying = NoCopy
        /\ step.action = "drop"
        /\ Ending(step)
        /\ verify' = Kills(verify)
        /\ UNCHANGED <<clip, snap, chord, owed, since>>

(* Mutant: the exit does not start the verify that waits for it. *)
KilledForgets ==
    /\ verify.on = "killed"
    /\ verify' = [Ends(verify) EXCEPT !.retiring = FALSE]
    /\ UNCHANGED <<clip, copying, txn, timer, snap, check, chord, ghosts, budget>>

(* A killed run's answer carries a sequence the machine has left; one that the
   next pick's tick is waiting for starts that pick's verify. *)
VerifyKilled ==
    /\ verify.on = "killed"
    /\ verify' = [Ends(verify) EXCEPT !.retiring = FALSE]
    /\ timer' = (timer \/ (verify.retiring /\ txn.phase = "publishing"))
    /\ UNCHANGED <<clip, copying, txn, snap, check, chord, ghosts, budget>>

-----------------------------------------------------------------------------
(* The chord: its key goes down in the client, which then pastes. *)

ChordPresses ==
    /\ chord.of # "none" /\ ~chord.down
    /\ chord' = [chord EXCEPT !.down = TRUE]
    /\ UNCHANGED <<clip, copying, txn, timer, verify, snap, check, ghosts, budget>>

(* finishEmojiChord; a failure may be reported of a chord that did press. *)
ChordVerdict(success) ==
    LET step == txnChordDone(txn, chord.seq, success)
    IN  /\ chord.of = "pick" /\ (success => chord.down)
        /\ IF success THEN UNCHANGED budget ELSE Hands("failures")
        /\ chord' = NoChord
        /\ Ending(step)
        /\ IF step.action = "completed" THEN Delivered ELSE UNCHANGED owed
        /\ UNCHANGED <<clip, verify, snap, since>>

-----------------------------------------------------------------------------
(* The restore check. *)

(* An exit answers by id, then starts the check that waited for it. *)
CheckAnswers(step) ==
    /\ txn' = step.txn
    /\ copying' = IF step.restore.does = "put"
                  THEN [text |-> step.restore.text, restores |-> TRUE] ELSE copying

CheckEnds ==
    IF check.queued = 0
    THEN check' = Ends(check) /\ UNCHANGED moved
    ELSE /\ check' = [Starts(check) EXCEPT !.id = check.queued, !.queued = 0]
         /\ moved' = (moved /\ txn.check.id # check.queued)

CheckRead ==
    /\ check.on = "on"
    /\ \E served \in Answers(check) : CheckAnswers(txnRestoreChecked(txn, check.id, served))
    /\ CheckEnds
    /\ UNCHANGED <<clip, timer, verify, snap, chord, owed, excused, since, budget>>

CheckKilled ==
    /\ check.on = "killed"
    /\ CheckAnswers(txnRestoreChecked(txn, check.id, NoText))
    /\ CheckEnds
    /\ UNCHANGED <<clip, timer, verify, snap, chord, owed, excused, since, budget>>

CheckStalls ==
    /\ check.on = "on" /\ Hands("stalls")
    /\ CheckAnswers(txnRestoreChecked(txn, check.id, NoText))
    /\ check' = Kills(check)
    /\ excused' = IF txn.check.id = check.id THEN "yes" ELSE excused
    /\ UNCHANGED <<clip, timer, verify, snap, chord, moved, owed, since>>
=============================================================================
