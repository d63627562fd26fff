------------------------ MODULE PanelClipboard_proofs ------------------------
(***************************************************************************)
(* What PanelClipboard.tla promises of the clipboard, for every set of     *)
(* texts, secrets and emojis and every budget: once everything has come to *)
(* rest the clipboard serves what it owes, and a chord pastes what it was  *)
(* sent for.  Both hold of a wl-copy that lands before the last verify     *)
(* read (SwiftCopy), the one thing the panel leaves to chance.             *)
(*                                                                         *)
(* The inductive invariant says, of each phase of the transaction, what    *)
(* the clipboard and the copy under way can hold (Shape) and why that is   *)
(* what is owed (Promise): `since` and `moved` tell whether the user       *)
(* copied after the burst's first pick and after the last read began, and  *)
(* the reads of snapshot, verify and check are what decides what is put    *)
(* back.  Each step of the delivery keeps it in a lemma of its own; every  *)
(* other step of the panel leaves the delivery alone (FrameKeeps).         *)
(*                                                                         *)
(* Then what PanelTyping.tla promises of the keys, for every set of caps   *)
(* and keymaps and every budget: nothing is stuck, locks are held, keys    *)
(* are typed as drawn.  Its invariant is in a section of its own below     *)
(* (TypingInv).                                                            *)
(***************************************************************************)
EXTENDS PanelClipboard, PanelTyping, SequenceTheorems, TLAPS

(* What a snapshot may hold, and the states of a read. *)
Snapshots == Texts \cup Emojis \cup {NoText}
Runs == {"off", "on", "killed"}

(* What the variables range over. *)
Checks == [id : Nat, emoji : Emojis \cup {NoText}, before : Snapshots]
Txns == [seq : Nat, phase : {"idle", "snapshotting", "publishing", "pasting"},
         pending : Emojis \cup {NoText}, attempts : Nat, queue : Seq(Emojis),
         before : Snapshots, foreign : BOOLEAN, check : Checks]
VerifyRuns == [on : Runs, was : Contents \cup {NoText}, seq : Nat, retiring : BOOLEAN]
SnapRuns == [on : Runs, was : Contents \cup {NoText}, seq : Nat]
CheckRuns == [on : Runs, was : Contents \cup {NoText}, id : Nat, queued : Nat]
Chords == [of : {"none", "pick", "chip"}, seq : Nat, down : BOOLEAN,
           held : Contents \cup {NoText}]
USE DEF Checks, Txns, VerifyRuns, SnapRuns, CheckRuns, Chords

TxnTyped ==
    txn \in Txns

ReadsTyped ==
    /\ verify \in VerifyRuns
    /\ snap \in SnapRuns
    /\ check \in CheckRuns

Typed ==
    /\ TxnTyped /\ ReadsTyped
    /\ clip \in Contents
    /\ copying \in {NoCopy} \cup [text : Texts \cup Emojis, restores : BOOLEAN]
    /\ chord \in Chords
    /\ timer \in BOOLEAN /\ moved \in BOOLEAN /\ since \in BOOLEAN
    /\ excused \in {"no", "mistaken", "yes"}
    /\ owed \subseteq Contents

(* A pick that was published; a restore check that is owed; the verify read that
   the running pick waits for. *)
Running == txn.phase \in {"publishing", "pasting"}
Checking == txn.check # NoCheck
Reading == verify.on = "on" /\ verify.seq = txn.seq /\ txn.phase = "publishing"

(* Idle, no pick is left and none waits. *)
IdleShape ==
    txn.phase = "idle" => txn.pending = NoText /\ txn.queue = <<>> /\ txn.before = NoText
(* A pick that runs has an emoji, owes no check and comes after every check asked. *)
PickShape ==
    txn.phase # "idle" =>
        /\ txn.pending \in Emojis /\ ~Checking /\ owed # {}
        /\ check.id < txn.seq /\ check.queued < txn.seq
(* A pick in its snapshot knows nothing yet, and only its own snapshot is read. *)
SnapshotShape ==
    /\ txn.phase = "snapshotting" =>
         /\ txn.before = NoText /\ ~txn.foreign /\ txn.attempts = 0
         /\ verify.seq < txn.seq
    /\ snap.on = "on" => txn.phase = "snapshotting" /\ snap.seq = txn.seq
(* A published pick is the one text that may be under way, and its timer and its
   read never overlap. *)
RunningShape ==
    /\ Running => copying \in {NoCopy, Copy(txn.pending)}
    /\ txn.phase = "publishing" => txn.attempts < Attempts
    /\ verify.seq <= txn.seq
    /\ timer => txn.phase = "publishing" /\ ~Reading
(* A pick pastes exactly while its own chord is out; the chip pastes when idle. *)
ChordShape ==
    /\ chord.of = "pick" <=> txn.phase = "pasting"
    /\ chord.of = "pick" => chord.seq = txn.seq
    /\ chord.of = "chip" => txn.phase = "idle"
(* An owed check is being read, or waits for the run it had killed. *)
CheckShape ==
    /\ Checking => /\ copying \in {NoCopy, Copy(txn.check.emoji)}
                   /\ txn.check.emoji \in Emojis /\ txn.check.before # NoText
                   /\ txn.check.id = txn.seq
                   /\ \/ check.on = "on" /\ check.id = txn.check.id
                      \/ check.on = "killed" /\ check.queued = txn.check.id
    /\ check.on = "killed" /\ Checking => check.id # txn.check.id
    /\ check.on # "killed" => check.queued = 0
    /\ check.id <= txn.seq /\ check.queued <= txn.seq

(* What the user copied since the first pick is what is owed. *)
CopiedSince == since => owed # {} /\ (excused # "yes" => clip \in owed /\ clip \notin Emojis)
(* A restore under way after such a copy was decided before it. *)
RestoreIsLate == since /\ copying.restores /\ excused # "yes" => moved
(* What a snapshot is about to read is owed. *)
SnapshotIsOwed ==
    txn.phase = "snapshotting" /\ ~since /\ excused # "yes" =>
        /\ clip \in owed /\ (copying = NoCopy \/ copying.text \in owed)
        /\ snap.on = "on" => snap.was \in owed
(* What a snapshot read is owed. *)
BeforeIsOwed ==
    Running /\ ~since /\ excused # "yes" => txn.before \in owed \cup {NoText}
(* A published pick with no copy under way is what the clipboard serves. *)
PickLanded == Running /\ copying = NoCopy /\ ~since => clip = txn.pending
(* A verify read began on what is served, unless the user copied since; the last one
   began after wl-copy landed. *)
ReadIsFresh ==
    Reading => /\ ~moved => verify.was = clip \/ clip = txn.pending
               /\ moved => since
               /\ txn.attempts + 1 = Attempts =>
                    copying = NoCopy /\ (~since => verify.was = txn.pending)
(* A pick that pastes is what the clipboard serves, unless the user copied since. *)
PasteIsFresh ==
    txn.phase = "pasting" => (~moved => clip = txn.pending) /\ (moved => since)
(* A read that was taken for foreign was, but for a mistaken one. *)
ForeignIsTrue ==
    Running /\ txn.foreign /\ excused = "no" => since \/ txn.before = NoText
(* A check that would put a snapshot back puts back what is owed, over its own pick. *)
CheckIsOwed ==
    Checking => /\ moved => since
                /\ ~since /\ excused # "yes" =>
                      txn.check.before \in owed /\ clip = txn.check.emoji
                /\ check.on = "on" /\ check.id = txn.check.id /\ ~moved /\ excused # "yes" =>
                      check.was = clip
(* At rest the clipboard serves what is owed, or a restore to it is under way. *)
RestIsOwed ==
    txn.phase = "idle" /\ ~Checking =>
        /\ copying # NoCopy /\ ~copying.restores /\ moved => since
        /\ ~since /\ excused # "yes" =>
            /\ owed # {} => clip \in owed \/ copying.restores \/ excused = "mistaken"
            /\ \/ copying = NoCopy
               \/ copying.text \in owed
               \/ copying.text = clip /\ ~copying.restores
(* The chip's chord finds what was served when it was clicked, or the exceptions
   ChordsPasteTheirOwn names. *)
ChipIsItsOwn ==
    chord.of = "chip" =>
        clip = chord.held \/ clip \notin Emojis \/ moved \/ clip \in owed \/ excused = "yes"

(* The inductive invariant. *)
Shape == /\ IdleShape /\ PickShape /\ SnapshotShape /\ RunningShape /\ ChordShape /\ CheckShape
Promise ==
    /\ CopiedSince /\ RestoreIsLate /\ SnapshotIsOwed /\ BeforeIsOwed /\ PickLanded
    /\ ReadIsFresh /\ PasteIsFresh /\ ForeignIsTrue /\ CheckIsOwed /\ RestIsOwed /\ ChipIsItsOwn
IInv == Typed /\ Shape /\ Promise

(* wl-copy's text landing keeps it. *)
LEMMA LandsKeep == ASSUME IInv, Lands PROVE IInv'
<1> USE TxnAssumption, DeliveryAssumption, TellableAssumption DEF Running, Checking, Reading
<1>a. Typed'
  BY DEF IInv, Typed, Lands, TxnTyped, ReadsTyped, NoCopy, Contents, Snapshots
<1>b. Shape'
   BY DEF IInv, Shape, IdleShape, PickShape, SnapshotShape, RunningShape, ChordShape,
     CheckShape, Lands, NoCopy, Copy
<1>0. /\ copying # NoCopy /\ clip' = copying.text /\ copying' = NoCopy
      /\ moved' => moved /\ copying.restores
      /\ moved /\ copying.restores => moved'
      /\ copying.restores /\ moved => excused' = "yes"
      /\ ~copying.restores /\ since => excused' = "yes"
      /\ copying.restores /\ ~moved => excused' = excused
      /\ ~copying.restores /\ ~since => excused' = excused
      /\ UNCHANGED <<txn, timer, verify, snap, check, chord, owed, since>>
  BY DEF Lands
<1> USE DEF IInv, Shape, Promise, NoCopy, Copy
<1>1. CopiedSince'
  BY <1>0 DEF CopiedSince, RestoreIsLate
<1>2. RestoreIsLate'
  BY <1>0 DEF RestoreIsLate
<1>3. SnapshotIsOwed'
  BY <1>0 DEF SnapshotIsOwed, CopiedSince
<1>4. BeforeIsOwed'
  BY <1>0 DEF BeforeIsOwed
<1>5. PickLanded'
  BY <1>0 DEF PickLanded, RunningShape
<1>6. ReadIsFresh'
  BY <1>0 DEF ReadIsFresh, RunningShape
<1>7. PasteIsFresh'
  BY <1>0 DEF PasteIsFresh, RunningShape
<1>8. ForeignIsTrue'
  BY <1>0 DEF ForeignIsTrue
<1>9. CheckIsOwed'
  BY <1>0 DEF CheckIsOwed, CheckShape
<1>10. RestIsOwed'
  BY <1>0 DEF RestIsOwed, CheckShape
<1>11. ChipIsItsOwn'
   BY <1>0 DEF ChipIsItsOwn, RestIsOwed, CopiedSince, CheckIsOwed, CheckShape, ChordShape,
     RestoreIsLate
<1> QED BY <1>a, <1>b, <1>1, <1>2, <1>3, <1>4, <1>5, <1>6, <1>7, <1>8, <1>9, <1>10, <1>11
           DEF IInv

(* The user copying keeps it. *)
LEMMA CopiesKeep ==
    ASSUME IInv, NEW c \in Texts \cup Secrets, UserCopies(c)
    PROVE  IInv'
<1> USE TxnAssumption, DeliveryAssumption, TellableAssumption DEF Running, Checking, Reading
<1>0. /\ clip' = c /\ moved' = TRUE /\ owed' = {c} /\ since' = TRUE /\ excused' = excused
      /\ UNCHANGED <<copying, txn, timer, verify, snap, check, chord>>
  BY DEF UserCopies, delivery, IInv, Typed, TxnTyped, ReadsTyped
<1>a. Typed'
   BY <1>0 DEF IInv, Typed, UserCopies, delivery, TxnTyped, ReadsTyped, NoCopy, Contents,
     Snapshots
<1> USE DEF IInv, Shape, Promise, NoCopy, Copy, Typed, TxnTyped, ReadsTyped
<1>1. IdleShape'
  BY <1>0 DEF IdleShape
<1>2. PickShape'
  BY <1>0 DEF PickShape
<1>3. SnapshotShape'
  BY <1>0 DEF SnapshotShape
<1>4. RunningShape'
  BY <1>0 DEF RunningShape
<1>5. ChordShape'
  BY <1>0 DEF ChordShape
<1>6. CheckShape'
  BY <1>0 DEF CheckShape
<1>7. CopiedSince'
  BY <1>0 DEF CopiedSince
<1>8. RestoreIsLate'
  BY <1>0 DEF RestoreIsLate
<1>9. SnapshotIsOwed'
  BY <1>0 DEF SnapshotIsOwed
<1>10. BeforeIsOwed'
  BY <1>0 DEF BeforeIsOwed
<1>11. PickLanded'
  BY <1>0 DEF PickLanded
<1>12. ReadIsFresh'
  BY <1>0 DEF ReadIsFresh
<1>13. PasteIsFresh'
  BY <1>0 DEF PasteIsFresh
<1>14. ForeignIsTrue'
  BY <1>0 DEF ForeignIsTrue
<1>15. CheckIsOwed'
  BY <1>0 DEF CheckShape, CheckIsOwed
<1>16. RestIsOwed'
  BY <1>0 DEF CheckShape, RestIsOwed
<1>17. ChipIsItsOwn'
  BY <1>0 DEF ChipIsItsOwn
<1> QED BY <1>a, <1>1, <1>2, <1>3, <1>4, <1>5, <1>6, <1>7, <1>8, <1>9, <1>10, <1>11, <1>12,
           <1>13, <1>14, <1>15, <1>16, <1>17

(* A step that leaves the delivery alone keeps it. *)
LEMMA FrameKeeps ==
    ASSUME IInv, UNCHANGED deliveryVars
    PROVE  IInv'
<1> USE TxnAssumption, DeliveryAssumption, TellableAssumption DEF Running, Checking, Reading
<1>a. Typed'
   BY DEF IInv, Typed, deliveryVars, delivery, ghosts, TxnTyped, ReadsTyped, NoCopy,
     Contents, Snapshots
<1> USE DEF IInv, Shape, Promise, NoCopy, Copy, Typed, TxnTyped, ReadsTyped, deliveryVars,
            delivery, ghosts
<1>1. IdleShape'
  BY DEF IdleShape
<1>2. PickShape'
  BY DEF PickShape
<1>3. SnapshotShape'
  BY DEF SnapshotShape
<1>4. RunningShape'
  BY DEF RunningShape
<1>5. ChordShape'
  BY DEF ChordShape
<1>6. CheckShape'
  BY DEF CheckShape
<1>7. CopiedSince'
  BY DEF CopiedSince
<1>8. RestoreIsLate'
  BY DEF RestoreIsLate
<1>9. SnapshotIsOwed'
  BY DEF SnapshotIsOwed
<1>10. BeforeIsOwed'
  BY DEF BeforeIsOwed
<1>11. PickLanded'
  BY DEF PickLanded
<1>12. ReadIsFresh'
  BY DEF ReadIsFresh
<1>13. PasteIsFresh'
  BY DEF PasteIsFresh
<1>14. ForeignIsTrue'
  BY DEF ForeignIsTrue
<1>15. CheckIsOwed'
  BY DEF CheckIsOwed
<1>16. RestIsOwed'
  BY DEF RestIsOwed
<1>17. ChipIsItsOwn'
  BY DEF ChipIsItsOwn
<1> QED BY <1>a, <1>1, <1>2, <1>3, <1>4, <1>5, <1>6, <1>7, <1>8, <1>9, <1>10, <1>11, <1>12,
           <1>13, <1>14, <1>15, <1>16, <1>17

(* The verify timer: a read starts, or the one before it is killed. *)
LEMMA TickKeeps ==
    ASSUME IInv, SwiftCopy, VerifyTick
    PROVE  IInv'
<1> USE TxnAssumption, DeliveryAssumption, TellableAssumption DEF Running, Checking, Reading
<1>f. /\ verify' \in VerifyRuns
      /\ \/ /\ verify'.on = "on" /\ verify'.was = clip /\ verify'.seq = txn.seq
            /\ moved' = FALSE
         \/ /\ verify'.on = "killed" /\ verify'.seq = verify.seq /\ moved' = moved
  <2>1. CASE verify.on = "off"
    <3>1. /\ verify' = [[verify EXCEPT !.on = "on", !.was = clip] EXCEPT !.seq = txn.seq]
          /\ moved' = FALSE
      BY <2>1 DEF VerifyTick, Starts
    <3> QED BY <3>1 DEF IInv, Typed, TxnTyped, ReadsTyped, Runs
  <2>2. CASE verify.on # "off"
    <3>1. /\ verify' = [Kills(verify) EXCEPT !.retiring = TRUE]
          /\ moved' = moved
      BY <2>2 DEF VerifyTick
    <3>2. /\ Kills(verify) \in VerifyRuns
          /\ Kills(verify).on = "killed" /\ Kills(verify).seq = verify.seq
      BY <2>2 DEF IInv, Typed, ReadsTyped, Runs, Kills
    <3> QED BY <3>1, <3>2
  <2> QED BY <2>1, <2>2
<1>t. timer /\ timer' = FALSE /\ (LastRead => copying = NoCopy)
      /\ UNCHANGED <<clip, copying, txn, snap, check, chord, owed, excused, since>>
  BY DEF VerifyTick
<1>0. timer /\ ~timer' /\ (LastRead => copying = NoCopy) /\ timer' \in BOOLEAN
      /\ UNCHANGED <<clip, copying, txn, snap, check, chord, owed, excused, since>>
      /\ \/ /\ verify'.on = "on" /\ verify'.was = clip /\ verify'.seq = txn.seq
            /\ ~moved'
         \/ /\ verify'.on = "killed" /\ verify'.seq = verify.seq /\ moved' = moved
  BY <1>f, <1>t
<1>m. moved' \in BOOLEAN
  BY <1>f DEF IInv, Typed
<1>a. Typed'
  BY <1>f, <1>0, <1>m DEF IInv, Typed, TxnTyped, ReadsTyped
<1> USE DEF IInv, Shape, Promise, NoCopy, Copy, Typed, TxnTyped, ReadsTyped
<1>1. IdleShape'
  BY <1>0 DEF IdleShape
<1>2. PickShape'
  BY <1>0 DEF PickShape
<1>3. SnapshotShape'
  BY <1>0 DEF RunningShape, SnapshotShape
<1>4. RunningShape'
  BY <1>0 DEF RunningShape
<1>5. ChordShape'
  BY <1>0 DEF ChordShape
<1>6. CheckShape'
  BY <1>0 DEF CheckShape
<1>7. CopiedSince'
  BY <1>0 DEF CopiedSince
<1>8. RestoreIsLate'
  BY <1>0 DEF RunningShape, RestoreIsLate
<1>9. SnapshotIsOwed'
  BY <1>0 DEF SnapshotIsOwed
<1>10. BeforeIsOwed'
  BY <1>0 DEF BeforeIsOwed
<1>11. PickLanded'
  BY <1>0 DEF PickLanded
<1>12. ReadIsFresh'
  BY <1>0 DEF RunningShape, PickLanded, LastRead, ReadIsFresh
<1>13. PasteIsFresh'
  BY <1>0 DEF RunningShape, PasteIsFresh
<1>14. ForeignIsTrue'
  BY <1>0 DEF ForeignIsTrue
<1>15. CheckIsOwed'
  BY <1>0 DEF RunningShape, PickShape, CheckIsOwed
<1>16. RestIsOwed'
  BY <1>0 DEF RunningShape, RestIsOwed
<1>17. ChipIsItsOwn'
  BY <1>0 DEF RunningShape, ChordShape, ChipIsItsOwn
<1> QED BY <1>a, <1>1, <1>2, <1>3, <1>4, <1>5, <1>6, <1>7, <1>8, <1>9, <1>10, <1>11, <1>12,
           <1>13, <1>14, <1>15, <1>16, <1>17 DEF IInv, Shape, Promise

(* The exit of a killed verify read. *)
LEMMA VerifyKilledKeeps ==
    ASSUME IInv, VerifyKilled
    PROVE  IInv'
<1> USE TxnAssumption, DeliveryAssumption, TellableAssumption DEF Running, Checking, Reading
<1>f. /\ verify' \in VerifyRuns
      /\ verify'.on = "off" /\ verify'.seq = verify.seq
  BY DEF VerifyKilled, Ends, Runs, IInv, Typed, ReadsTyped
<1>t. timer' \in BOOLEAN /\ (timer' => timer \/ txn.phase = "publishing")
  BY DEF VerifyKilled, IInv, Typed
<1>0. /\ verify'.on = "off" /\ verify'.seq = verify.seq
      /\ timer' => timer \/ txn.phase = "publishing"
      /\ UNCHANGED <<clip, copying, txn, snap, check, chord, moved, owed, excused, since>>
  BY <1>f, <1>t DEF VerifyKilled, ghosts
<1>a. Typed'
  BY <1>f, <1>t, <1>0 DEF IInv, Typed, TxnTyped, ReadsTyped
<1> USE DEF IInv, Shape, Promise, NoCopy, Copy, Typed, TxnTyped, ReadsTyped
<1>1. IdleShape'
  BY <1>0 DEF IdleShape
<1>2. PickShape'
  BY <1>0 DEF PickShape
<1>3. SnapshotShape'
  BY <1>0 DEF SnapshotShape
<1>4. RunningShape'
  BY <1>0 DEF RunningShape
<1>5. ChordShape'
  BY <1>0 DEF ChordShape
<1>6. CheckShape'
  BY <1>0 DEF CheckShape
<1>7. CopiedSince'
  BY <1>0 DEF CopiedSince
<1>8. RestoreIsLate'
  BY <1>0 DEF RestoreIsLate
<1>9. SnapshotIsOwed'
  BY <1>0 DEF SnapshotIsOwed
<1>10. BeforeIsOwed'
  BY <1>0 DEF BeforeIsOwed
<1>11. PickLanded'
  BY <1>0 DEF PickLanded
<1>12. ReadIsFresh'
  BY <1>0 DEF ReadIsFresh
<1>13. PasteIsFresh'
  BY <1>0 DEF PasteIsFresh
<1>14. ForeignIsTrue'
  BY <1>0 DEF ForeignIsTrue
<1>15. CheckIsOwed'
  BY <1>0 DEF CheckIsOwed
<1>16. RestIsOwed'
  BY <1>0 DEF RestIsOwed
<1>17. ChipIsItsOwn'
  BY <1>0 DEF ChipIsItsOwn
<1> QED BY <1>a, <1>1, <1>2, <1>3, <1>4, <1>5, <1>6, <1>7, <1>8, <1>9, <1>10, <1>11, <1>12,
           <1>13, <1>14, <1>15, <1>16, <1>17 DEF IInv, Shape, Promise

(* The chord's key going down. *)
LEMMA PressKeeps ==
    ASSUME IInv, ChordPresses
    PROVE  IInv'
<1> USE TxnAssumption, DeliveryAssumption, TellableAssumption DEF Running, Checking, Reading
<1>0. /\ chord'.of = chord.of /\ chord'.seq = chord.seq /\ chord'.held = chord.held
      /\ UNCHANGED <<clip, copying, txn, timer, verify, snap, check, moved, owed, excused, since>>
  BY DEF ChordPresses, ghosts, IInv, Typed
<1>t. chord' \in Chords
  BY DEF ChordPresses, IInv, Typed
<1>a. Typed'
  BY <1>0, <1>t DEF IInv, Typed, TxnTyped, ReadsTyped
<1> USE DEF IInv, Shape, Promise, NoCopy, Copy, Typed, TxnTyped, ReadsTyped
<1>s1. IdleShape'
  BY <1>0 DEF IdleShape
<1>s2. PickShape'
  BY <1>0 DEF PickShape
<1>s3. SnapshotShape'
  BY <1>0 DEF SnapshotShape
<1>s4. RunningShape'
  BY <1>0 DEF RunningShape
<1>s5. ChordShape'
  BY <1>0 DEF ChordShape
<1>s6. CheckShape'
  BY <1>0 DEF CheckShape
<1>s7. CopiedSince'
  BY <1>0 DEF CopiedSince
<1>s8. RestoreIsLate'
  BY <1>0 DEF RestoreIsLate
<1>s9. SnapshotIsOwed'
  BY <1>0 DEF SnapshotIsOwed
<1>s10. BeforeIsOwed'
  BY <1>0 DEF BeforeIsOwed
<1>s11. PickLanded'
  BY <1>0 DEF PickLanded
<1>s12. ReadIsFresh'
  BY <1>0 DEF ReadIsFresh
<1>s13. PasteIsFresh'
  BY <1>0 DEF PasteIsFresh
<1>s14. ForeignIsTrue'
  BY <1>0 DEF ForeignIsTrue
<1>s15. CheckIsOwed'
  BY <1>0 DEF CheckIsOwed
<1>s16. RestIsOwed'
  BY <1>0 DEF RestIsOwed
<1>s17. ChipIsItsOwn'
  BY <1>0 DEF ChipIsItsOwn
<1> QED BY <1>a, <1>s1, <1>s2, <1>s3, <1>s4, <1>s5, <1>s6, <1>s7, <1>s8, <1>s9, <1>s10,
           <1>s11, <1>s12, <1>s13, <1>s14, <1>s15, <1>s16, <1>s17 DEF IInv, Shape, Promise

(* A click on the chip over a client. *)
LEMMA ClickKeeps ==
    ASSUME IInv, ClickClient
    PROVE  IInv'
<1> USE TxnAssumption, DeliveryAssumption, TellableAssumption DEF Running, Checking, Reading
<1>c. chord' = [of |-> "chip", seq |-> 0, down |-> FALSE, held |-> clip]
  BY DEF ClickClient, NoChord
<1>0. /\ txn.phase = "idle" /\ chord.of = "none" /\ chord'.of = "chip" /\ chord'.held = clip
      /\ UNCHANGED <<clip, copying, txn, timer, verify, snap, check, moved, owed, excused, since>>
  BY <1>c DEF ClickClient, ghosts
<1>t. chord' \in Chords
  BY <1>c DEF IInv, Typed
<1>a. Typed'
  BY <1>0, <1>t DEF IInv, Typed, TxnTyped, ReadsTyped
<1> USE DEF IInv, Shape, Promise, NoCopy, Copy, Typed, TxnTyped, ReadsTyped
<1>s1. IdleShape'
  BY <1>0 DEF IdleShape
<1>s2. PickShape'
  BY <1>0 DEF PickShape
<1>s3. SnapshotShape'
  BY <1>0 DEF SnapshotShape
<1>s4. RunningShape'
  BY <1>0 DEF RunningShape
<1>s5. ChordShape'
  BY <1>0 DEF ChordShape
<1>s6. CheckShape'
  BY <1>0 DEF CheckShape
<1>s7. CopiedSince'
  BY <1>0 DEF CopiedSince
<1>s8. RestoreIsLate'
  BY <1>0 DEF RestoreIsLate
<1>s9. SnapshotIsOwed'
  BY <1>0 DEF SnapshotIsOwed
<1>s10. BeforeIsOwed'
  BY <1>0 DEF BeforeIsOwed
<1>s11. PickLanded'
  BY <1>0 DEF PickLanded
<1>s12. ReadIsFresh'
  BY <1>0 DEF ReadIsFresh
<1>s13. PasteIsFresh'
  BY <1>0 DEF PasteIsFresh
<1>s14. ForeignIsTrue'
  BY <1>0 DEF ForeignIsTrue
<1>s15. CheckIsOwed'
  BY <1>0 DEF CheckIsOwed
<1>s16. RestIsOwed'
  BY <1>0 DEF RestIsOwed
<1>s17. ChipIsItsOwn'
  BY <1>0 DEF ChipIsItsOwn
<1> QED BY <1>a, <1>s1, <1>s2, <1>s3, <1>s4, <1>s5, <1>s6, <1>s7, <1>s8, <1>s9, <1>s10,
           <1>s11, <1>s12, <1>s13, <1>s14, <1>s15, <1>s16, <1>s17 DEF IInv, Shape, Promise

(* The verdict on the chip's chord. *)
LEMMA ChipVerdictKeeps ==
    ASSUME IInv, ChipVerdict
    PROVE  IInv'
<1> USE TxnAssumption, DeliveryAssumption, TellableAssumption DEF Running, Checking, Reading
<1>c. chord' = [of |-> "none", seq |-> 0, down |-> FALSE, held |-> NoText]
  BY DEF ChipVerdict, NoChord
<1>0. /\ chord.of = "chip" /\ chord'.of = "none"
      /\ UNCHANGED <<clip, copying, txn, timer, verify, snap, check, moved, owed, excused, since>>
  BY <1>c DEF ChipVerdict, ghosts
<1>t. chord' \in Chords
  BY <1>c
<1>a. Typed'
  BY <1>0, <1>t DEF IInv, Typed, TxnTyped, ReadsTyped
<1> USE DEF IInv, Shape, Promise, NoCopy, Copy, Typed, TxnTyped, ReadsTyped
<1>s1. IdleShape'
  BY <1>0 DEF IdleShape
<1>s2. PickShape'
  BY <1>0 DEF PickShape
<1>s3. SnapshotShape'
  BY <1>0 DEF SnapshotShape
<1>s4. RunningShape'
  BY <1>0 DEF RunningShape
<1>s5. ChordShape'
  BY <1>0 DEF ChordShape
<1>s6. CheckShape'
  BY <1>0 DEF CheckShape
<1>s7. CopiedSince'
  BY <1>0 DEF CopiedSince
<1>s8. RestoreIsLate'
  BY <1>0 DEF RestoreIsLate
<1>s9. SnapshotIsOwed'
  BY <1>0 DEF SnapshotIsOwed
<1>s10. BeforeIsOwed'
  BY <1>0 DEF BeforeIsOwed
<1>s11. PickLanded'
  BY <1>0 DEF PickLanded
<1>s12. ReadIsFresh'
  BY <1>0 DEF ReadIsFresh
<1>s13. PasteIsFresh'
  BY <1>0 DEF PasteIsFresh
<1>s14. ForeignIsTrue'
  BY <1>0 DEF ForeignIsTrue
<1>s15. CheckIsOwed'
  BY <1>0 DEF CheckIsOwed
<1>s16. RestIsOwed'
  BY <1>0 DEF RestIsOwed
<1>s17. ChipIsItsOwn'
  BY <1>0 DEF ChipIsItsOwn
<1> QED BY <1>a, <1>s1, <1>s2, <1>s3, <1>s4, <1>s5, <1>s6, <1>s7, <1>s8, <1>s9, <1>s10,
           <1>s11, <1>s12, <1>s13, <1>s14, <1>s15, <1>s16, <1>s17 DEF IInv, Shape, Promise

(* The first pick of a burst, with a snapshot to read or without. *)
LEMMA PickIdleKeeps ==
    ASSUME IInv, NEW emoji \in Emojis, NEW reading \in BOOLEAN, Pick(emoji, reading),
           txn.phase = "idle"
    PROVE  IInv'
<1> USE DEF Running, Checking, Reading
<1> DEFINE phase == IF reading THEN "snapshotting" ELSE "publishing"
<1>s. txnPick(txn, emoji, reading)
        = Stay([txn EXCEPT !.seq = @ + 1, !.pending = emoji, !.attempts = 0, !.phase = phase,
                           !.before = NoText, !.foreign = FALSE, !.check = NoCheck],
               IF reading THEN "snapshot" ELSE "publish")
  BY DEF txnPick, IInv, Shape, IdleShape
<1>1. txn' = [txn EXCEPT !.seq = @ + 1, !.pending = emoji, !.attempts = 0, !.phase = phase,
                         !.before = NoText, !.foreign = FALSE, !.check = NoCheck]
  BY <1>s DEF Pick, Stay
<1>x. TxnTyped' /\ txn'.seq = txn.seq + 1 /\ txn'.pending = emoji /\ txn'.attempts = 0
      /\ txn'.phase = phase /\ txn'.before = NoText /\ txn'.foreign = FALSE
      /\ txn'.check = NoCheck /\ txn'.queue = <<>>
  <2> HIDE DEF phase
  <2>1. phase \in {"snapshotting", "publishing"}
    BY DEF phase
  <2>2. NoCheck \in Checks
    BY DEF NoCheck, Snapshots
  <2>3. NoText \in Snapshots
    BY DEF Snapshots
  <2>4. txn' = [seq |-> txn.seq + 1, phase |-> phase, pending |-> emoji, attempts |-> 0,
                queue |-> txn.queue, before |-> NoText, foreign |-> FALSE, check |-> NoCheck]
    BY <1>1 DEF IInv, Typed, TxnTyped
  <2>5. txn.seq + 1 \in Nat /\ txn.queue = <<>> /\ <<>> \in Seq(Emojis)
    BY DEF IInv, Typed, TxnTyped, Shape, IdleShape
  <2> HIDE DEF NoCheck, NoText
  <2> QED BY <2>1, <2>2, <2>3, <2>4, <2>5 DEF TxnTyped
<1>c. chord.of = "none"
  BY DEF Pick, Refused, NeverRefused
<1>d. CASE reading
  <2>1. /\ txnPick(txn, emoji, reading).action = "snapshot" /\ phase = "snapshotting"
        /\ txnPick(txn, emoji, reading).txn = txn'
    BY <1>s, <1>d, <1>1 DEF Stay
  <2>2. /\ copying' = copying /\ timer' = timer
        /\ UNCHANGED <<clip, verify, check, chord, moved>>
    BY <2>1 DEF Pick, IInv, Typed
  <2>3. snap.on = "off" => snap' = [[snap EXCEPT !.on = "on", !.was = clip] EXCEPT !.seq = txn'.seq]
    BY <2>1 DEF Pick, Starts
  <2>4. snap.on # "off" => snap' = [snap EXCEPT !.seq = txn'.seq]
    BY <2>1 DEF Pick
  <2>5. /\ snap' \in SnapRuns
        /\ snap'.seq = txn'.seq
        /\ snap'.on = "on" => snap'.was = clip
    <3>1. /\ snap \in SnapRuns
          /\ txn'.seq \in Nat /\ clip \in Contents /\ snap.on # "on"
      BY <1>x DEF IInv, Typed, ReadsTyped, Shape, SnapshotShape, TxnTyped
    <3>2. \/ snap' = [on |-> "on", was |-> clip, seq |-> txn'.seq]
          \/ snap' = [on |-> snap.on, was |-> snap.was, seq |-> txn'.seq]
      BY <2>3, <2>4, <3>1
    <3> HIDE DEF Contents, NoText
    <3> QED BY <3>1, <3>2 DEF Runs
  <2>6. /\ owed' = {clip} \cup (IF copying = NoCopy THEN {} ELSE {copying.text})
        /\ excused' = "no" /\ since' = FALSE
    BY DEF Pick, Opens
  <2>8. timer' = FALSE
    BY <2>2 DEF IInv, Typed, Shape, RunningShape
  <2>9. owed' \subseteq Contents
    BY <2>6 DEF IInv, Typed, Contents
  <2> HIDE DEF Contents, NoCopy
  <2>a. Typed'
    <3> HIDE DEF VerifyRuns, SnapRuns, CheckRuns, Chords
    <3>1. /\ clip' \in Contents /\ verify' \in VerifyRuns /\ check' \in CheckRuns
          /\ chord' \in Chords /\ moved' \in BOOLEAN
          /\ copying' \in {NoCopy} \cup [text : Texts \cup Emojis, restores : BOOLEAN]
      BY <2>2 DEF IInv, Typed, ReadsTyped
    <3>2. timer' \in BOOLEAN /\ since' \in BOOLEAN /\ excused' \in {"no", "mistaken", "yes"}
      BY <2>2, <2>6 DEF IInv, Typed
    <3>3. TxnTyped' /\ snap' \in SnapRuns
      BY <1>x, <2>5
    <3> QED BY ONLY <2>9, <3>1, <3>2, <3>3 DEF Typed, ReadsTyped
  <2>0. /\ txn'.phase = "snapshotting" /\ owed' # {} /\ clip' \in owed'
        /\ copying' = NoCopy \/ copying'.text \in owed'
        /\ excused' = "no" /\ ~since' /\ ~timer' /\ chord'.of = "none"
    BY <1>x, <1>c, <2>1, <2>2, <2>6, <2>8, TxnAssumption
  <2>7. /\ snap'.on = "on" => snap'.was \in owed'
        /\ check'.id < txn'.seq /\ check'.queued < txn'.seq /\ verify'.seq < txn'.seq
        /\ check' = check
     BY <2>0, <2>2, <2>5, <1>x, <2>6 DEF IInv, Typed, TxnTyped, ReadsTyped, Shape,
       CheckShape, RunningShape
  <2> USE DEF Shape, Promise
  <2> HIDE DEF phase
  <2>s1. IdleShape'
    BY <1>x, <2>0, <2>2, <2>7, <2>5 DEF IdleShape
  <2>s2. PickShape'
    BY <1>x, <2>0, <2>2, <2>7, <2>5 DEF PickShape
  <2>s3. SnapshotShape'
    BY <1>x, <2>0, <2>2, <2>7, <2>5 DEF SnapshotShape
  <2>s4. RunningShape'
    BY <1>x, <2>0, <2>2, <2>7, <2>5 DEF IInv, Typed, ReadsTyped, TxnTyped, RunningShape
  <2>s5. ChordShape'
    BY <1>x, <2>0, <2>2, <2>7, <2>5 DEF ChordShape
  <2>s6. CheckShape'
    BY <1>x, <2>0, <2>2, <2>7, <2>5 DEF IInv, Typed, ReadsTyped, TxnTyped, CheckShape
  <2>s7. CopiedSince'
    BY <1>x, <2>0, <2>2, <2>7, <2>5 DEF CopiedSince
  <2>s8. RestoreIsLate'
    BY <1>x, <2>0, <2>2, <2>7, <2>5 DEF RestoreIsLate
  <2>s9. SnapshotIsOwed'
    BY <1>x, <2>0, <2>2, <2>7, <2>5 DEF IInv, Typed, SnapshotIsOwed
  <2>s10. BeforeIsOwed'
    BY <1>x, <2>0, <2>2, <2>7, <2>5 DEF BeforeIsOwed
  <2>s11. PickLanded'
    BY <1>x, <2>0, <2>2, <2>7, <2>5 DEF PickLanded
  <2>s12. ReadIsFresh'
    BY <1>x, <2>0, <2>2, <2>7, <2>5 DEF ReadIsFresh
  <2>s13. PasteIsFresh'
    BY <1>x, <2>0, <2>2, <2>7, <2>5 DEF PasteIsFresh
  <2>s14. ForeignIsTrue'
    BY <1>x, <2>0, <2>2, <2>7, <2>5 DEF ForeignIsTrue
  <2>s15. CheckIsOwed'
    BY <1>x, <2>0, <2>2, <2>7, <2>5 DEF CheckIsOwed
  <2>s16. RestIsOwed'
    BY <1>x, <2>0, <2>2, <2>7, <2>5 DEF RestIsOwed
  <2>s17. ChipIsItsOwn'
    BY <1>x, <2>0, <2>2, <2>7, <2>5 DEF ChipIsItsOwn
   <2> QED BY <2>a, <2>s1, <2>s2, <2>s3, <2>s4, <2>s5, <2>s6, <2>s7, <2>s8, <2>s9, <2>s10,
             <2>s11, <2>s12, <2>s13, <2>s14, <2>s15, <2>s16, <2>s17 DEF IInv, Shape, Promise
<1>e. CASE ~reading
  <2>1. /\ txnPick(txn, emoji, reading).action = "publish" /\ phase = "publishing"
    BY <1>s, <1>e DEF Stay
  <2>2. /\ copying' = Copy(emoji) /\ timer'
        /\ UNCHANGED <<clip, verify, snap, check, chord, moved>>
    <3> DEFINE action == txnPick(txn, emoji, reading).action
    <3>1. /\ copying' = IF action = "publish" THEN Copy(emoji) ELSE copying
          /\ timer' = (timer \/ action = "publish")
          /\ UNCHANGED <<clip, verify, check, chord, moved>>
      BY DEF Pick
    <3>2. snap' = IF action # "snapshot" THEN snap
                  ELSE IF snap.on = "off"
                  THEN [Starts(snap) EXCEPT !.seq = txnPick(txn, emoji, reading).txn.seq]
                  ELSE [snap EXCEPT !.seq = txnPick(txn, emoji, reading).txn.seq]
      BY DEF Pick
    <3> HIDE DEF action
    <3> action = "publish"
      BY <2>1 DEF action
    <3> QED BY <3>1, <3>2
  <2>6. /\ owed' = {clip} \cup (IF copying = NoCopy THEN {} ELSE {copying.text})
        /\ excused' = "no" /\ since' = FALSE
    BY DEF Pick, Opens
  <2>8. /\ Copy(emoji) \in [text : Texts \cup Emojis, restores : BOOLEAN]
        /\ ~Copy(emoji).restores /\ Copy(emoji) # NoCopy
    BY DeliveryAssumption DEF Copy, NoCopy
  <2>9. owed' \subseteq Contents
    BY <2>6 DEF IInv, Typed, Contents
  <2>10. timer' \in BOOLEAN
    BY DEF Pick, IInv, Typed
  <2>a. Typed'
    BY <1>x, <2>2, <2>8, <2>6, <2>9, <2>10 DEF IInv, Typed, ReadsTyped
  <2>0. /\ txn'.phase = "publishing" /\ owed' # {} /\ clip' \in owed'
        /\ copying' # NoCopy /\ copying' = Copy(txn'.pending) /\ ~copying'.restores
        /\ excused' = "no" /\ ~since' /\ chord'.of = "none"
        /\ txn'.attempts < Attempts
    BY <1>x, <1>c, <2>1, <2>2, <2>6, <2>8, TxnAssumption
  <2>7. /\ check'.id < txn'.seq /\ check'.queued < txn'.seq /\ verify'.seq < txn'.seq
        /\ check' = check /\ snap' = snap /\ snap.on # "on"
     BY <2>0, <2>2, <1>x, <2>6 DEF IInv, Typed, TxnTyped, ReadsTyped, Shape, CheckShape,
       RunningShape, SnapshotShape
  <2> USE DEF Shape, Promise
  <2> HIDE DEF phase
  <2>s1. IdleShape'
    BY <1>x, <2>0, <2>2, <2>7 DEF IdleShape
  <2>s2. PickShape'
    BY <1>x, <2>0, <2>2, <2>7 DEF PickShape
  <2>s3. SnapshotShape'
    BY <1>x, <2>0, <2>2, <2>7 DEF SnapshotShape
  <2>s4. RunningShape'
    BY <1>x, <2>0, <2>2, <2>7 DEF IInv, Typed, ReadsTyped, TxnTyped, RunningShape
  <2>s5. ChordShape'
    BY <1>x, <2>0, <2>2, <2>7 DEF ChordShape
  <2>s6. CheckShape'
    BY <1>x, <2>0, <2>2, <2>7 DEF IInv, Typed, ReadsTyped, TxnTyped, CheckShape
  <2>s7. CopiedSince'
    BY <1>x, <2>0, <2>2, <2>7 DEF CopiedSince
  <2>s8. RestoreIsLate'
    BY <1>x, <2>0, <2>2, <2>7 DEF RestoreIsLate
  <2>s9. SnapshotIsOwed'
    BY <1>x, <2>0, <2>2, <2>7 DEF SnapshotIsOwed
  <2>s10. BeforeIsOwed'
    BY <1>x, <2>0, <2>2, <2>7 DEF BeforeIsOwed
  <2>s11. PickLanded'
    BY <1>x, <2>0, <2>2, <2>7 DEF PickLanded
  <2>s12. ReadIsFresh'
    BY <1>x, <2>0, <2>2, <2>7 DEF Typed, ReadsTyped, TxnTyped, ReadIsFresh
  <2>s13. PasteIsFresh'
    BY <1>x, <2>0, <2>2, <2>7 DEF PasteIsFresh
  <2>s14. ForeignIsTrue'
    BY <1>x, <2>0, <2>2, <2>7 DEF ForeignIsTrue
  <2>s15. CheckIsOwed'
    BY <1>x, <2>0, <2>2, <2>7 DEF CheckIsOwed
  <2>s16. RestIsOwed'
    BY <1>x, <2>0, <2>2, <2>7 DEF RestIsOwed
  <2>s17. ChipIsItsOwn'
    BY <1>x, <2>0, <2>2, <2>7 DEF ChipIsItsOwn
   <2> QED BY <2>a, <2>s1, <2>s2, <2>s3, <2>s4, <2>s5, <2>s6, <2>s7, <2>s8, <2>s9, <2>s10,
             <2>s11, <2>s12, <2>s13, <2>s14, <2>s15, <2>s16, <2>s17 DEF IInv, Shape, Promise
<1> QED BY <1>d, <1>e

(* A pick while another runs: queued or refused. *)
LEMMA PickBusyKeeps ==
    ASSUME IInv, NEW emoji \in Emojis, NEW reading \in BOOLEAN, Pick(emoji, reading),
           txn.phase # "idle"
    PROVE  IInv'
<1> USE DEF Running, Checking, Reading
<1> DEFINE step == txnPick(txn, emoji, reading)
<1>1. /\ step.txn \in {txn, [txn EXCEPT !.queue = Append(@, emoji)]}
      /\ step.action \in {"refused-full", "queued"}
  BY DEF txnPick, Stay
<1> HIDE DEF step
<1>2. /\ txn' = step.txn
      /\ copying' = IF step.action = "publish" THEN Copy(emoji) ELSE copying
      /\ timer' = (timer \/ step.action = "publish")
      /\ snap' = IF step.action # "snapshot" THEN snap
                 ELSE IF snap.on = "off" THEN [Starts(snap) EXCEPT !.seq = step.txn.seq]
                 ELSE [snap EXCEPT !.seq = step.txn.seq]
      /\ UNCHANGED <<clip, verify, check, chord, moved, owed, excused, since>>
  BY DEF Pick, step
<1>3. copying' = copying /\ snap' = snap
  BY <1>1, <1>2
<1>4. timer' = timer
  BY <1>1, <1>2 DEF IInv, Typed
<1>5. /\ txn' \in Txns
      /\ txn'.seq = txn.seq /\ txn'.phase = txn.phase /\ txn'.pending = txn.pending
      /\ txn'.attempts = txn.attempts /\ txn'.before = txn.before
      /\ txn'.foreign = txn.foreign /\ txn'.check = txn.check
  <2>1. /\ txn \in Txns
        /\ Append(txn.queue, emoji) \in Seq(Emojis)
    BY DEF IInv, Typed, TxnTyped
  <2> DEFINE longer == Append(txn.queue, emoji)
  <2>2. txn' = txn \/ txn' = [txn EXCEPT !.queue = longer]
    BY <1>1, <1>2
  <2> HIDE DEF longer, Snapshots, NoText
  <2> QED BY <2>1, <2>2 DEF longer
<1>a. Typed'
  <2> HIDE DEF VerifyRuns, SnapRuns, CheckRuns, Chords
  <2>1. /\ clip' \in Contents /\ verify' \in VerifyRuns /\ check' \in CheckRuns
        /\ chord' \in Chords /\ moved' \in BOOLEAN /\ since' \in BOOLEAN
        /\ excused' \in {"no", "mistaken", "yes"} /\ owed' \subseteq Contents
    BY <1>2 DEF IInv, Typed, ReadsTyped
  <2>2. /\ snap' \in SnapRuns /\ timer' \in BOOLEAN
        /\ copying' \in {NoCopy} \cup [text : Texts \cup Emojis, restores : BOOLEAN]
    BY <1>3, <1>4 DEF IInv, Typed, ReadsTyped
  <2>3. TxnTyped'
    BY <1>5 DEF TxnTyped
  <2> QED BY ONLY <2>1, <2>2, <2>3 DEF Typed, ReadsTyped
<1> USE DEF IInv, Shape, Promise
<1>s1. IdleShape'
  BY <1>2, <1>3, <1>4, <1>5 DEF IdleShape
<1>s2. PickShape'
  BY <1>2, <1>3, <1>4, <1>5 DEF PickShape
<1>s3. SnapshotShape'
  BY <1>2, <1>3, <1>4, <1>5 DEF SnapshotShape
<1>s4. RunningShape'
  BY <1>2, <1>3, <1>4, <1>5 DEF RunningShape
<1>s5. ChordShape'
  BY <1>2, <1>3, <1>4, <1>5 DEF ChordShape
<1>s6. CheckShape'
  BY <1>2, <1>3, <1>4, <1>5 DEF CheckShape
<1>s7. CopiedSince'
  BY <1>2, <1>3, <1>4, <1>5 DEF CopiedSince
<1>s8. RestoreIsLate'
  BY <1>2, <1>3, <1>4, <1>5 DEF RestoreIsLate
<1>s9. SnapshotIsOwed'
  BY <1>2, <1>3, <1>4, <1>5 DEF SnapshotIsOwed
<1>s10. BeforeIsOwed'
  BY <1>2, <1>3, <1>4, <1>5 DEF BeforeIsOwed
<1>s11. PickLanded'
  BY <1>2, <1>3, <1>4, <1>5 DEF PickLanded
<1>s12. ReadIsFresh'
  BY <1>2, <1>3, <1>4, <1>5 DEF ReadIsFresh
<1>s13. PasteIsFresh'
  BY <1>2, <1>3, <1>4, <1>5 DEF PasteIsFresh
<1>s14. ForeignIsTrue'
  BY <1>2, <1>3, <1>4, <1>5 DEF ForeignIsTrue
<1>s15. CheckIsOwed'
  BY <1>2, <1>3, <1>4, <1>5 DEF CheckIsOwed
<1>s16. RestIsOwed'
  BY <1>2, <1>3, <1>4, <1>5 DEF RestIsOwed
<1>s17. ChipIsItsOwn'
  BY <1>2, <1>3, <1>4, <1>5 DEF ChipIsItsOwn
<1> QED BY <1>a, <1>s1, <1>s2, <1>s3, <1>s4, <1>s5, <1>s6, <1>s7, <1>s8, <1>s9, <1>s10,
           <1>s11, <1>s12, <1>s13, <1>s14, <1>s15, <1>s16, <1>s17 DEF IInv, Shape, Promise

(* Any pick. *)
LEMMA PickKeeps ==
    ASSUME IInv, NEW emoji \in Emojis, NEW reading \in BOOLEAN, Pick(emoji, reading)
    PROVE  IInv'
  BY PickIdleKeeps, PickBusyKeeps

(* The answer of a snapshot read publishes the pick. *)
LEMMA SnapshottedKeeps ==
    ASSUME IInv, NEW before \in Snapshots, Snapshotted(before),
           snap' \in SnapRuns,
           snap'.on # "on",
           txn.phase = "snapshotting" /\ ~since /\ excused # "yes"
             => before \in owed \cup {NoText}
    PROVE  IInv'
<1> USE DEF Running, Checking, Reading
<1> DEFINE step == txnSnapshotted(txn, snap.seq, before)
<1>1. /\ txn' = step.txn
      /\ copying' = IF step.action = "publish" THEN Copy(step.txn.pending) ELSE copying
      /\ timer' = (timer \/ step.action = "publish")
      /\ UNCHANGED <<clip, verify, check, chord, moved, owed, excused, since>>
  BY DEF Snapshotted, ghosts
<1>f. CASE txn.phase # "snapshotting" \/ snap.seq # txn.seq
  <2>1. step.txn = txn /\ step.action = "stale"
    BY <1>f DEF txnSnapshotted, Stay
  <2> HIDE DEF step
  <2>2. UNCHANGED <<txn, copying, clip, verify, check, chord, moved, owed, excused, since>>
    BY <1>1, <2>1
  <2>3. timer' = timer
    BY <1>1, <2>1 DEF IInv, Typed
  <2>a. Typed'
    BY <2>2, <2>3 DEF IInv, Typed, TxnTyped, ReadsTyped
  <2> USE DEF IInv, Shape, Promise
  <2>s1. IdleShape'
    BY <2>2, <2>3 DEF IdleShape
  <2>s2. PickShape'
    BY <2>2, <2>3 DEF PickShape
  <2>s3. SnapshotShape'
    BY <2>2, <2>3 DEF SnapshotShape
  <2>s4. RunningShape'
    BY <2>2, <2>3 DEF RunningShape
  <2>s5. ChordShape'
    BY <2>2, <2>3 DEF ChordShape
  <2>s6. CheckShape'
    BY <2>2, <2>3 DEF CheckShape
  <2>s7. CopiedSince'
    BY <2>2, <2>3 DEF CopiedSince
  <2>s8. RestoreIsLate'
    BY <2>2, <2>3 DEF RestoreIsLate
  <2>s9. SnapshotIsOwed'
    BY <2>2, <2>3 DEF SnapshotIsOwed
  <2>s10. BeforeIsOwed'
    BY <2>2, <2>3 DEF BeforeIsOwed
  <2>s11. PickLanded'
    BY <2>2, <2>3 DEF PickLanded
  <2>s12. ReadIsFresh'
    BY <2>2, <2>3 DEF ReadIsFresh
  <2>s13. PasteIsFresh'
    BY <2>2, <2>3 DEF PasteIsFresh
  <2>s14. ForeignIsTrue'
    BY <2>2, <2>3 DEF ForeignIsTrue
  <2>s15. CheckIsOwed'
    BY <2>2, <2>3 DEF CheckIsOwed
  <2>s16. RestIsOwed'
    BY <2>2, <2>3 DEF RestIsOwed
  <2>s17. ChipIsItsOwn'
    BY <2>2, <2>3 DEF ChipIsItsOwn
   <2> QED BY <2>a, <2>s1, <2>s2, <2>s3, <2>s4, <2>s5, <2>s6, <2>s7, <2>s8, <2>s9, <2>s10,
             <2>s11, <2>s12, <2>s13, <2>s14, <2>s15, <2>s16, <2>s17 DEF IInv, Shape, Promise
<1>g. CASE txn.phase = "snapshotting" /\ snap.seq = txn.seq
  <2>1. /\ step.txn = [txn EXCEPT !.phase = "publishing", !.before = before]
        /\ step.action = "publish"
    BY <1>g DEF txnSnapshotted, Stay
  <2> HIDE DEF step
  <2>3. timer'
    BY <1>1, <2>1
  <2>4. txn' = [seq |-> txn.seq, phase |-> "publishing", pending |-> txn.pending,
                attempts |-> txn.attempts, queue |-> txn.queue, before |-> before,
                foreign |-> txn.foreign, check |-> txn.check]
    BY <1>1, <2>1 DEF IInv, Typed, TxnTyped
  <2>2. copying' = Copy(txn.pending)
    BY <1>1, <2>1, <2>4
  <2>5. /\ TxnTyped'
        /\ txn'.seq = txn.seq /\ txn'.phase = "publishing" /\ txn'.pending = txn.pending
        /\ txn'.attempts = txn.attempts /\ txn'.before = before
        /\ txn'.foreign = txn.foreign /\ txn'.check = txn.check
    BY <2>4 DEF IInv, Typed, TxnTyped
  <2>6. txn.pending \in Emojis
    BY <1>g DEF IInv, Shape, PickShape
  <2>8. /\ Copy(txn.pending) \in [text : Texts \cup Emojis, restores : BOOLEAN]
        /\ ~Copy(txn.pending).restores /\ Copy(txn.pending) # NoCopy
    BY <2>6, DeliveryAssumption DEF Copy, NoCopy
  <2>9. timer' \in BOOLEAN
    BY <1>1 DEF IInv, Typed
  <2>a. Typed'
    BY <1>1, <2>2, <2>5, <2>8, <2>9 DEF IInv, Typed, TxnTyped, ReadsTyped
  <2>10. /\ copying' = Copy(txn'.pending) /\ ~copying'.restores /\ copying' # NoCopy
         /\ txn'.foreign = FALSE /\ txn'.attempts = 0 /\ 0 < Attempts
         /\ verify.seq < txn.seq
    BY <2>2, <2>5, <2>8, <1>g, TxnAssumption
       DEF IInv, Typed, Shape, SnapshotShape, RunningShape
  <2> USE DEF IInv, Shape, Promise
  <2>s1. IdleShape'
    BY <1>1, <1>g, <2>2, <2>3, <2>5, <2>10 DEF IdleShape
  <2>s2. PickShape'
    BY <1>1, <1>g, <2>2, <2>3, <2>5, <2>10 DEF PickShape
  <2>s3. SnapshotShape'
    BY <1>1, <1>g, <2>2, <2>3, <2>5, <2>10 DEF SnapshotShape
  <2>s4. RunningShape'
    BY <1>1, <1>g, <2>2, <2>3, <2>5, <2>10 DEF Typed, ReadsTyped, TxnTyped, RunningShape
  <2>s5. ChordShape'
    BY <1>1, <1>g, <2>2, <2>3, <2>5, <2>10 DEF ChordShape
  <2>s6. CheckShape'
     BY <1>1, <1>g, <2>2, <2>3, <2>5, <2>10 DEF PickShape, Typed, ReadsTyped, TxnTyped,
       CheckShape
  <2>s7. CopiedSince'
    BY <1>1, <1>g, <2>2, <2>3, <2>5, <2>10 DEF CopiedSince
  <2>s8. RestoreIsLate'
    BY <1>1, <1>g, <2>2, <2>3, <2>5, <2>10 DEF RestoreIsLate
  <2>s9. SnapshotIsOwed'
    BY <1>1, <1>g, <2>2, <2>3, <2>5, <2>10 DEF SnapshotIsOwed
  <2>s10. BeforeIsOwed'
    BY <1>1, <1>g, <2>2, <2>3, <2>5, <2>10 DEF BeforeIsOwed
  <2>s11. PickLanded'
    BY <1>1, <1>g, <2>2, <2>3, <2>5, <2>10 DEF PickLanded
  <2>s12. ReadIsFresh'
    BY <1>1, <1>g, <2>2, <2>3, <2>5, <2>10 DEF Typed, ReadsTyped, TxnTyped, ReadIsFresh
  <2>s13. PasteIsFresh'
    BY <1>1, <1>g, <2>2, <2>3, <2>5, <2>10 DEF PasteIsFresh
  <2>s14. ForeignIsTrue'
    BY <1>1, <1>g, <2>2, <2>3, <2>5, <2>10 DEF ForeignIsTrue
  <2>s15. CheckIsOwed'
    BY <1>1, <1>g, <2>2, <2>3, <2>5, <2>10 DEF CheckIsOwed
  <2>s16. RestIsOwed'
    BY <1>1, <1>g, <2>2, <2>3, <2>5, <2>10 DEF RestIsOwed
  <2>s17. ChipIsItsOwn'
    BY <1>1, <1>g, <2>2, <2>3, <2>5, <2>10 DEF ChipIsItsOwn
   <2> QED BY <2>a, <2>s1, <2>s2, <2>s3, <2>s4, <2>s5, <2>s6, <2>s7, <2>s8, <2>s9, <2>s10,
             <2>s11, <2>s12, <2>s13, <2>s14, <2>s15, <2>s16, <2>s17 DEF IInv, Shape, Promise
<1> QED BY <1>f, <1>g DEF IInv, Typed, TxnTyped

(* A snapshot that was read. *)
LEMMA SnapshotReadKeeps ==
    ASSUME IInv, SnapshotRead
    PROVE  IInv'
<1>1. PICK text \in Answers(snap) : Snapshotted(text)
  BY DEF SnapshotRead
<1>2. /\ snap' \in SnapRuns
      /\ snap'.on # "on"
  BY DEF SnapshotRead, Ends, IInv, Typed, ReadsTyped, Runs
<1>3. snap.on = "on"
  BY DEF SnapshotRead
<1>4. text \in Snapshots
  BY <1>1 DEF Answers, Secret, IInv, Typed, ReadsTyped, Contents, Snapshots
<1>5. txn.phase = "snapshotting" /\ ~since /\ excused # "yes" => text \in owed \cup {NoText}
  BY <1>1, <1>3 DEF Answers, IInv, Promise, SnapshotIsOwed
<1> QED BY <1>1, <1>2, <1>4, <1>5, SnapshottedKeeps

(* A snapshot given up or killed. *)
LEMMA SnapshotUnreadKeeps ==
    ASSUME IInv, SnapshotStalls \/ SnapshotKilled
    PROVE  IInv'
<1>1. Snapshotted(NoText)
  BY DEF SnapshotStalls, SnapshotKilled
<1>2. /\ snap' \in SnapRuns
      /\ snap'.on # "on"
  <2>1. snap \in SnapRuns
    BY DEF IInv, Typed, ReadsTyped
  <2>2. snap' = [snap EXCEPT !.on = "killed"] \/ snap' = [snap EXCEPT !.on = "off", !.was = NoText]
    BY DEF SnapshotStalls, SnapshotKilled, Kills, Ends
  <2> QED BY <2>1, <2>2 DEF Runs
<1>4. NoText \in Snapshots
  BY DEF Snapshots
<1> QED BY <1>1, <1>2, <1>4, SnapshottedKeeps

(* A pick that ends hands the clipboard to the one queued behind it. *)
LEMMA TakesKeep ==
    ASSUME IInv, txn.phase # "idle", txn.queue # <<>>, NEW before \in Snapshots,
           txn' = [seq |-> txn.seq + 1, phase |-> "publishing", pending |-> Head(txn.queue),
                   attempts |-> 0, queue |-> Tail(txn.queue), before |-> before,
                   foreign |-> FALSE, check |-> NoCheck],
           copying' = Copy(Head(txn.queue)), timer', timer' \in BOOLEAN, moved' = moved,
           excused' \in {excused, "yes"}, owed' # {}, owed' \subseteq Contents,
           UNCHANGED <<clip, since, snap, check>>,
           verify' \in VerifyRuns,
           verify'.seq = verify.seq,
           chord' \in Chords,
           chord'.of = "none",
           ~since /\ excused' # "yes" => before \in owed' \cup {NoText},
           since /\ excused' # "yes" => clip \in owed' /\ clip \notin Emojis,
           txn.phase # "snapshotting"
    PROVE  IInv'
<1> USE DEF Running, Checking, Reading
<1> DEFINE head == Head(txn.queue)
           tail == Tail(txn.queue)
<1>1. head \in Emojis /\ tail \in Seq(Emojis)
  BY DEF IInv, Typed, TxnTyped
<1>2. NoCheck \in Checks
  BY DEF NoCheck, Snapshots
<1>3. txn.seq \in Nat /\ txn.seq + 1 \in Nat
  BY DEF IInv, Typed, TxnTyped
<1>4. txn' = [seq |-> txn.seq + 1, phase |-> "publishing", pending |-> head,
              attempts |-> 0, queue |-> tail, before |-> before,
              foreign |-> FALSE, check |-> NoCheck]
      /\ copying' = Copy(head)
  OBVIOUS
<1> HIDE DEF head, tail, NoCheck, NoText
<1>5. /\ TxnTyped'
      /\ txn'.seq = txn.seq + 1 /\ txn'.phase = "publishing" /\ txn'.pending = head
      /\ txn'.attempts = 0 /\ txn'.before = before /\ ~txn'.foreign /\ txn'.check = NoCheck
  <2>1. before \in Snapshots
    OBVIOUS
  <2> QED BY ONLY <1>1, <1>2, <1>3, <1>4, <2>1 DEF TxnTyped
<1>6. /\ Copy(head) \in [text : Texts \cup Emojis, restores : BOOLEAN]
      /\ ~Copy(head).restores /\ Copy(head) # NoCopy
  BY <1>1, DeliveryAssumption DEF Copy, NoCopy
<1>7. excused' \in {"no", "mistaken", "yes"}
  BY DEF IInv, Typed
<1>a. Typed'
  BY <1>4, <1>5, <1>6, <1>7 DEF IInv, Typed, ReadsTyped
<1>8. 0 < Attempts /\ snap.on # "on" /\ copying' = Copy(txn'.pending)
  BY <1>4, <1>5, TxnAssumption DEF IInv, Shape, SnapshotShape
<1> USE DEF IInv, Shape, Promise
<1>s1. IdleShape'
  BY <1>1, <1>3, <1>4, <1>5, <1>6, <1>8 DEF IdleShape
<1>s2. PickShape'
  BY <1>1, <1>3, <1>4, <1>5, <1>6, <1>8, SMTT(20) DEF Typed, ReadsTyped, TxnTyped, PickShape
<1>s3. SnapshotShape'
  BY <1>1, <1>3, <1>4, <1>5, <1>6, <1>8 DEF SnapshotShape
<1>s4. RunningShape'
  BY <1>1, <1>3, <1>4, <1>5, <1>6, <1>8, SMTT(20) DEF Typed, ReadsTyped, TxnTyped, RunningShape
<1>s5. ChordShape'
  BY <1>1, <1>3, <1>4, <1>5, <1>6, <1>8 DEF ChordShape
<1>s6. CheckShape'
  BY <1>1, <1>3, <1>4, <1>5, <1>6, <1>8, SMTT(20) DEF PickShape, Typed, ReadsTyped, TxnTyped, CheckShape
<1>s7. CopiedSince'
  BY <1>1, <1>3, <1>4, <1>5, <1>6, <1>8 DEF CopiedSince
<1>s8. RestoreIsLate'
  BY <1>1, <1>3, <1>4, <1>5, <1>6, <1>8 DEF RestoreIsLate
<1>s9. SnapshotIsOwed'
  BY <1>1, <1>3, <1>4, <1>5, <1>6, <1>8 DEF SnapshotIsOwed
<1>s10. BeforeIsOwed'
  BY <1>1, <1>3, <1>4, <1>5, <1>6, <1>8 DEF BeforeIsOwed
<1>s11. PickLanded'
  BY <1>1, <1>3, <1>4, <1>5, <1>6, <1>8 DEF PickLanded
<1>s12. ReadIsFresh'
   BY <1>1, <1>3, <1>4, <1>5, <1>6, <1>8 DEF Typed, ReadsTyped, TxnTyped, RunningShape,
     ReadIsFresh
<1>s13. PasteIsFresh'
  BY <1>1, <1>3, <1>4, <1>5, <1>6, <1>8 DEF PasteIsFresh
<1>s14. ForeignIsTrue'
  BY <1>1, <1>3, <1>4, <1>5, <1>6, <1>8 DEF ForeignIsTrue
<1>s15. CheckIsOwed'
  BY <1>1, <1>3, <1>4, <1>5, <1>6, <1>8 DEF CheckIsOwed
<1>s16. RestIsOwed'
  BY <1>1, <1>3, <1>4, <1>5, <1>6, <1>8 DEF RestIsOwed
<1>s17. ChipIsItsOwn'
  BY <1>1, <1>3, <1>4, <1>5, <1>6, <1>8 DEF ChipIsItsOwn
<1> QED BY <1>a, <1>s1, <1>s2, <1>s3, <1>s4, <1>s5, <1>s6, <1>s7, <1>s8, <1>s9, <1>s10,
           <1>s11, <1>s12, <1>s13, <1>s14, <1>s15, <1>s16, <1>s17 DEF IInv, Shape, Promise

(* The last pick ends and owes no check. *)
LEMMA RestsKeep ==
    ASSUME IInv, txn.phase \notin {"idle", "snapshotting"},
           txn' = [seq |-> txn.seq, phase |-> "idle", pending |-> NoText,
                   attempts |-> 0, queue |-> <<>>, before |-> NoText,
                   foreign |-> FALSE, check |-> NoCheck],
           ~timer,
           UNCHANGED <<copying, timer, moved, clip, since, snap, check>>,
           excused' \in {excused, "yes"}, owed' \subseteq Contents,
           verify' \in VerifyRuns,
           verify'.seq = verify.seq,
           chord' \in Chords,
           chord'.of = "none",
           moved => since, ~since => clip = txn.pending, owed' # {},
           ~since /\ excused' \notin {"yes", "mistaken"} => clip \in owed',
           since /\ excused' # "yes" => clip \in owed' /\ clip \notin Emojis
    PROVE  IInv'
<1> USE DEF Running, Checking, Reading
<1>2. NoCheck \in Checks
  BY DEF NoCheck, Snapshots
<1>3. txn.seq \in Nat /\ <<>> \in Seq(Emojis) /\ NoText \in Snapshots
  BY DEF IInv, Typed, TxnTyped, Snapshots
<1> HIDE DEF NoCheck, NoText
<1>5. /\ TxnTyped'
      /\ txn'.seq = txn.seq /\ txn'.phase = "idle" /\ txn'.pending = NoText
      /\ txn'.queue = <<>> /\ txn'.before = NoText /\ txn'.check = NoCheck
  BY <1>2, <1>3 DEF TxnTyped
<1>7. excused' \in {"no", "mistaken", "yes"}
  BY DEF IInv, Typed
<1>a. Typed'
  BY <1>5, <1>7 DEF IInv, Typed, ReadsTyped
<1>8. snap.on # "on" /\ copying \in {NoCopy, Copy(txn.pending)}
  BY DEF IInv, Shape, SnapshotShape, RunningShape, Typed, TxnTyped
<1>9. ~Copy(txn.pending).restores /\ Copy(txn.pending).text = txn.pending
      /\ ~NoCopy.restores
  BY DEF Copy, NoCopy
<1> USE DEF IInv, Shape, Promise
<1>s1. IdleShape'
  BY <1>3, <1>5, <1>7, <1>8, <1>9 DEF IdleShape
<1>s2. PickShape'
  BY <1>3, <1>5, <1>7, <1>8, <1>9 DEF PickShape
<1>s3. SnapshotShape'
  BY <1>3, <1>5, <1>7, <1>8, <1>9 DEF SnapshotShape
<1>s4. RunningShape'
  BY <1>3, <1>5, <1>7, <1>8, <1>9 DEF Typed, ReadsTyped, TxnTyped, RunningShape
<1>s5. ChordShape'
  BY <1>3, <1>5, <1>7, <1>8, <1>9 DEF ChordShape
<1>s6. CheckShape'
  BY <1>3, <1>5, <1>7, <1>8, <1>9 DEF PickShape, Typed, ReadsTyped, TxnTyped, CheckShape
<1>s7. CopiedSince'
  BY <1>3, <1>5, <1>7, <1>8, <1>9 DEF CopiedSince
<1>s8. RestoreIsLate'
  BY <1>3, <1>5, <1>7, <1>8, <1>9 DEF RestoreIsLate
<1>s9. SnapshotIsOwed'
  BY <1>3, <1>5, <1>7, <1>8, <1>9 DEF SnapshotIsOwed
<1>s10. BeforeIsOwed'
  BY <1>3, <1>5, <1>7, <1>8, <1>9 DEF BeforeIsOwed
<1>s11. PickLanded'
  BY <1>3, <1>5, <1>7, <1>8, <1>9 DEF PickLanded
<1>s12. ReadIsFresh'
  BY <1>3, <1>5, <1>7, <1>8, <1>9 DEF ReadIsFresh
<1>s13. PasteIsFresh'
  BY <1>3, <1>5, <1>7, <1>8, <1>9 DEF PasteIsFresh
<1>s14. ForeignIsTrue'
  BY <1>3, <1>5, <1>7, <1>8, <1>9 DEF ForeignIsTrue
<1>s15. CheckIsOwed'
  BY <1>3, <1>5, <1>7, <1>8, <1>9 DEF CheckIsOwed
<1>s16. RestIsOwed'
  BY <1>3, <1>5, <1>7, <1>8, <1>9 DEF RestIsOwed
<1>s17. ChipIsItsOwn'
  BY <1>3, <1>5, <1>7, <1>8, <1>9 DEF ChipIsItsOwn
<1> QED BY <1>a, <1>s1, <1>s2, <1>s3, <1>s4, <1>s5, <1>s6, <1>s7, <1>s8, <1>s9, <1>s10,
           <1>s11, <1>s12, <1>s13, <1>s14, <1>s15, <1>s16, <1>s17 DEF IInv, Shape, Promise

(* The last pick ends and asks for a check before anything is put back. *)
LEMMA AsksKeep ==
    ASSUME IInv, txn.phase \notin {"idle", "snapshotting"}, txn.before # NoText,
           txn' = [seq |-> txn.seq, phase |-> "idle", pending |-> NoText,
                   attempts |-> 0, queue |-> <<>>, before |-> NoText, foreign |-> FALSE,
                   check |-> [id |-> txn.seq, emoji |-> txn.pending, before |-> txn.before]],
           ~timer, check' = StartCheck(txn.seq),
           moved' = (moved /\ check.on # "off"),
           UNCHANGED <<copying, timer, clip, since, snap, owed, excused>>,
           verify' \in VerifyRuns,
           verify'.seq = verify.seq,
           chord' \in Chords,
           chord'.of = "none",
           moved => since, ~since => clip = txn.pending
    PROVE  IInv'
<1> USE DEF Running, Checking, Reading
<1> DEFINE c == [id |-> txn.seq, emoji |-> txn.pending, before |-> txn.before]
<1>2. /\ c \in Checks
      /\ c.id = txn.seq /\ c.emoji = txn.pending /\ c.before = txn.before
      /\ txn.pending \in Emojis /\ txn.pending # NoText /\ c # NoCheck
  BY DeliveryAssumption DEF IInv, Typed, TxnTyped, Shape, PickShape, NoCheck
<1>3. txn.seq \in Nat /\ <<>> \in Seq(Emojis) /\ NoText \in Snapshots
  BY DEF IInv, Typed, TxnTyped, Snapshots
<1>4. txn' = [seq |-> txn.seq, phase |-> "idle", pending |-> NoText, attempts |-> 0,
              queue |-> <<>>, before |-> NoText, foreign |-> FALSE, check |-> c]
  OBVIOUS
<1>5. /\ TxnTyped'
      /\ txn'.seq = txn.seq /\ txn'.phase = "idle" /\ txn'.pending = NoText
      /\ txn'.queue = <<>> /\ txn'.before = NoText /\ txn'.check = c
  <2> HIDE DEF c, NoText
  <2> QED BY ONLY <1>2, <1>3, <1>4 DEF TxnTyped
<1> HIDE DEF c, NoCheck, NoText
<1>c. /\ check' \in CheckRuns
      /\ \/ /\ check'.on = "on" /\ check'.was = clip /\ check'.id = txn.seq
            /\ check'.queued = 0 /\ ~moved'
         \/ /\ check'.on = "killed" /\ check'.id = check.id /\ check'.queued = txn.seq
            /\ check.on # "off" /\ (moved' <=> moved)
  <2>1. check \in CheckRuns
        /\ clip \in Contents
    BY DEF IInv, Typed, ReadsTyped
  <2>2. CASE check.on = "off"
    <3>1. check' = [on |-> "on", was |-> clip, id |-> txn.seq, queued |-> check.queued]
      BY <2>1, <2>2 DEF StartCheck, Starts
    <3>2. check.queued = 0 /\ ~moved'
      BY <2>2 DEF IInv, Shape, CheckShape
    <3> QED BY <2>1, <3>1, <3>2, <1>3 DEF Runs
  <2>3. CASE check.on # "off"
    <3>1. check' = [on |-> "killed", was |-> check.was, id |-> check.id, queued |-> txn.seq]
      BY <2>1, <2>3 DEF StartCheck, Kills, Runs
    <3>2. moved' <=> moved
      BY <2>3
    <3> QED BY <2>1, <2>3, <3>1, <3>2, <1>3 DEF Runs
  <2> QED BY <2>2, <2>3
<1>6. /\ check.id < txn.seq /\ check.queued < txn.seq
      /\ moved' \in BOOLEAN
  BY DEF IInv, Typed, Shape, PickShape
<1>a. Typed'
  BY <1>5, <1>c, <1>6 DEF IInv, Typed, ReadsTyped
<1>8. snap.on # "on" /\ copying \in {NoCopy, Copy(txn.pending)}
  BY DEF IInv, Shape, SnapshotShape, RunningShape, Typed, TxnTyped
<1>9. ~Copy(txn.pending).restores /\ Copy(txn.pending).text = txn.pending
      /\ ~NoCopy.restores
  BY DEF Copy, NoCopy
<1> USE DEF IInv, Shape, Promise
<1>s1. IdleShape'
  BY <1>2, <1>3, <1>5, <1>c, <1>6, <1>8, <1>9 DEF IdleShape
<1>s2. PickShape'
  BY <1>2, <1>3, <1>5, <1>c, <1>6, <1>8, <1>9 DEF PickShape
<1>s3. SnapshotShape'
  BY <1>2, <1>3, <1>5, <1>c, <1>6, <1>8, <1>9 DEF SnapshotShape
<1>s4. RunningShape'
  BY <1>2, <1>3, <1>5, <1>c, <1>6, <1>8, <1>9 DEF Typed, ReadsTyped, TxnTyped, RunningShape
<1>s5. ChordShape'
  BY <1>2, <1>3, <1>5, <1>c, <1>6, <1>8, <1>9 DEF ChordShape
<1>s6. CheckShape'
   BY <1>2, <1>3, <1>5, <1>c, <1>6, <1>8, <1>9 DEF PickShape, Typed, ReadsTyped, TxnTyped,
     CheckShape
<1>s7. CopiedSince'
  BY <1>2, <1>3, <1>5, <1>c, <1>6, <1>8, <1>9 DEF CopiedSince
<1>s8. RestoreIsLate'
  BY <1>2, <1>3, <1>5, <1>c, <1>6, <1>8, <1>9 DEF RestoreIsLate
<1>s9. SnapshotIsOwed'
  BY <1>2, <1>3, <1>5, <1>c, <1>6, <1>8, <1>9 DEF SnapshotIsOwed
<1>s10. BeforeIsOwed'
  BY <1>2, <1>3, <1>5, <1>c, <1>6, <1>8, <1>9 DEF BeforeIsOwed
<1>s11. PickLanded'
  BY <1>2, <1>3, <1>5, <1>c, <1>6, <1>8, <1>9 DEF PickLanded
<1>s12. ReadIsFresh'
  BY <1>2, <1>3, <1>5, <1>c, <1>6, <1>8, <1>9 DEF ReadIsFresh
<1>s13. PasteIsFresh'
  BY <1>2, <1>3, <1>5, <1>c, <1>6, <1>8, <1>9 DEF PasteIsFresh
<1>s14. ForeignIsTrue'
  BY <1>2, <1>3, <1>5, <1>c, <1>6, <1>8, <1>9 DEF ForeignIsTrue
<1>s15. CheckIsOwed'
   BY <1>2, <1>3, <1>5, <1>c, <1>6, <1>8, <1>9 DEF BeforeIsOwed, Typed, TxnTyped,
     ReadsTyped, CheckIsOwed
<1>s16. RestIsOwed'
  BY <1>2, <1>3, <1>5, <1>c, <1>6, <1>8, <1>9 DEF RestIsOwed
<1>s17. ChipIsItsOwn'
  BY <1>2, <1>3, <1>5, <1>c, <1>6, <1>8, <1>9 DEF ChipIsItsOwn
<1> QED BY <1>a, <1>s1, <1>s2, <1>s3, <1>s4, <1>s5, <1>s6, <1>s7, <1>s8, <1>s9, <1>s10,
           <1>s11, <1>s12, <1>s13, <1>s14, <1>s15, <1>s16, <1>s17 DEF IInv, Shape, Promise

(* What Ending does when no check is asked for, field by field. *)
LEMMA EndingFields ==
    ASSUME IInv, NEW step, NEW before,
           step.txn = [seq |-> txn.seq, phase |-> "idle", pending |-> NoText, attempts |-> 0,
                       queue |-> txn.queue, before |-> before, foreign |-> FALSE,
                       check |-> NoCheck],
           step.restore.does # "check", Ending(step)
    PROVE  /\ check' = check /\ moved' = moved
           /\ excused' = IF step.action \in {"drop", "cancelled"} /\ txn.before = NoText
                         THEN "yes" ELSE excused
           /\ txn.queue # <<>> =>
                /\ txn' = [seq |-> txn.seq + 1, phase |-> "publishing",
                           pending |-> Head(txn.queue), attempts |-> 0,
                           queue |-> Tail(txn.queue), before |-> before,
                           foreign |-> FALSE, check |-> NoCheck]
                /\ copying' = Copy(Head(txn.queue)) /\ timer' /\ timer' \in BOOLEAN
           /\ txn.queue = <<>> => txn' = step.txn /\ copying' = copying /\ timer' = timer
<1> DEFINE next == txnNext(step.txn)
           takes == next.action = "publish"
           head == Head(txn.queue)
           tail == Tail(txn.queue)
           idle == [seq |-> txn.seq, phase |-> "idle", pending |-> NoText, attempts |-> 0,
                    queue |-> txn.queue, before |-> before, foreign |-> FALSE,
                    check |-> NoCheck]
<1>1. /\ txn' = next.txn
      /\ copying' = IF takes THEN Copy(next.txn.pending) ELSE copying
      /\ check' = IF step.restore.does = "check" THEN StartCheck(step.restore.id) ELSE check
      /\ moved' = (moved /\ ~(step.restore.does = "check" /\ check.on = "off"))
      /\ timer' = (timer \/ takes)
      /\ excused' = IF step.action \in {"drop", "cancelled"} /\ txn.before = NoText
                    THEN "yes" ELSE excused
  BY DEF Ending
<1>2. check' = check /\ moved' = moved
  BY <1>1 DEF IInv, Typed
<1>3. timer \in BOOLEAN
  BY DEF IInv, Typed
<1>4. ASSUME txn.queue # <<>>
      PROVE  /\ takes
             /\ next.txn = [seq |-> txn.seq + 1, phase |-> "publishing", pending |-> head,
                            attempts |-> 0, queue |-> tail, before |-> before,
                            foreign |-> FALSE, check |-> NoCheck]
  <2>1. step.txn = idle
    OBVIOUS
  <2>2. next = Stay([idle EXCEPT !.seq = txn.seq + 1, !.phase = "publishing",
                          !.pending = head, !.attempts = 0, !.foreign = FALSE,
                          !.queue = tail], "publish")
    BY <2>1, <1>4 DEF txnNext
  <2> HIDE DEF head, tail, next, NoCheck, NoText
  <2>3. /\ next.action = "publish"
        /\ next.txn = [idle EXCEPT !.seq = txn.seq + 1, !.phase = "publishing",
                          !.pending = head, !.attempts = 0, !.foreign = FALSE,
                          !.queue = tail]
    BY <2>2 DEF Stay
  <2> QED BY <2>3
<1>5. ASSUME txn.queue = <<>>
      PROVE  ~takes /\ next.txn = step.txn
  BY <1>5 DEF txnNext, Stay
<1> HIDE DEF next, takes, idle, head, tail
<1>6. ASSUME txn.queue # <<>>
      PROVE  /\ txn' = [seq |-> txn.seq + 1, phase |-> "publishing", pending |-> head,
                        attempts |-> 0, queue |-> tail, before |-> before,
                        foreign |-> FALSE, check |-> NoCheck]
             /\ copying' = Copy(head) /\ timer' /\ timer' \in BOOLEAN
  <2>1. takes /\ next.txn.pending = head
    BY <1>4, <1>6
  <2>2. timer' /\ timer' \in BOOLEAN
    BY <2>1, <1>1, <1>3
  <2> QED BY <2>1, <2>2, <1>1, <1>4, <1>6
<1>7. ASSUME txn.queue = <<>>
      PROVE  txn' = step.txn /\ copying' = copying /\ timer' = timer
  BY <1>1, <1>3, <1>5, <1>7
<1> QED BY <1>1, <1>2, <1>6, <1>7 DEF head, tail

(* A pick that fails: it hands over, rests or asks. *)
LEMMA FailureKeeps ==
    ASSUME IInv, txn.phase \notin {"idle", "snapshotting"},
           NEW t, t = txn \/ t = [txn EXCEPT !.phase = "pasting"],
           NEW action \in {"drop", "cancelled"},
           Ending(checkFor(t, action)),
           ~timer,
           UNCHANGED <<clip, since, snap, owed>>,
           verify' \in VerifyRuns,
           verify'.seq = verify.seq,
           chord' \in Chords,
           chord'.of = "none",
           moved => since, ~since => clip = txn.pending
    PROVE  IInv'
<1> DEFINE step == checkFor(t, action)
           asks == txn.queue = <<>> /\ txn.before # NoText /\ ~txn.foreign
           c == [id |-> txn.seq, emoji |-> txn.pending, before |-> txn.before]
           kept == IF txn.queue = <<>> THEN NoText ELSE txn.before
<1>t. /\ txn \in Txns
  BY DEF IInv, Typed, TxnTyped
<1>1. /\ t.seq = txn.seq /\ t.pending = txn.pending /\ t.queue = txn.queue
      /\ t.before = txn.before /\ t.foreign = txn.foreign
      /\ t \in Txns
  BY <1>t
<1>2. /\ step.txn = txnIdle(t, IF asks THEN c ELSE NoCheck)
      /\ step.action = action
      /\ step.restore = IF asks THEN CheckFirst(txn.seq) ELSE Nothing
  BY <1>1 DEF checkFor
<1>3. step.txn = [seq |-> txn.seq, phase |-> "idle", pending |-> NoText, attempts |-> 0,
                  queue |-> txn.queue, before |-> kept, foreign |-> FALSE,
                  check |-> IF asks THEN c ELSE NoCheck]
  <2> HIDE DEF step, asks, c
  <2> QED BY <1>1, <1>2 DEF txnIdle
<1> HIDE DEF step
<1>5. owed # {} /\ owed \subseteq Contents
  BY DEF IInv, Typed, Shape, PickShape
<1>7. (step.restore.does = "check" <=> asks) /\ (asks => step.restore.id = txn.seq)
  BY <1>2 DEF CheckFirst, Nothing
<1>8. since /\ excused # "yes" => clip \in owed /\ clip \notin Emojis
  BY DEF IInv, Promise, CopiedSince
<1>9. ~since /\ excused # "yes" => txn.before \in owed \cup {NoText}
  BY DEF IInv, Promise, BeforeIsOwed, Running, Typed, TxnTyped
<1>10. txn.foreign /\ excused = "no" => since \/ txn.before = NoText
  BY DEF IInv, Promise, ForeignIsTrue, Running, Typed, TxnTyped
<1>e. Ending(step)
  BY DEF step
<1>11. CASE asks
  <2>1. txnNext(step.txn) = Stay(step.txn, "none")
    BY <1>3, <1>11 DEF txnNext
  <2>2. /\ txn' = step.txn /\ copying' = copying /\ timer' = (timer \/ FALSE)
        /\ check' = StartCheck(txn.seq)
        /\ moved' = (moved /\ ~(TRUE /\ check.on = "off"))
        /\ excused' = excused
    BY <1>e, <1>2, <1>7, <1>11, <2>1 DEF Ending, Stay
  <2>3. timer' = timer /\ moved' = (moved /\ check.on # "off")
    BY <2>2 DEF IInv, Typed
  <2>4. txn' = [seq |-> txn.seq, phase |-> "idle", pending |-> NoText, attempts |-> 0,
                queue |-> <<>>, before |-> NoText, foreign |-> FALSE, check |-> c]
    BY <2>2, <1>3, <1>11
  <2> QED BY <2>2, <2>3, <2>4, <1>11, AsksKeep
<1>12. CASE ~asks
  <2>1. step.txn = [seq |-> txn.seq, phase |-> "idle", pending |-> NoText, attempts |-> 0,
                    queue |-> txn.queue, before |-> kept, foreign |-> FALSE,
                    check |-> NoCheck]
        /\ step.restore.does # "check"
    BY <1>3, <1>7, <1>12
  <2> HIDE DEF kept
  <2>2. /\ check' = check /\ moved' = moved
        /\ excused' = IF txn.before = NoText THEN "yes" ELSE excused
        /\ txn.queue # <<>> =>
             /\ txn' = [seq |-> txn.seq + 1, phase |-> "publishing",
                        pending |-> Head(txn.queue), attempts |-> 0,
                        queue |-> Tail(txn.queue), before |-> kept,
                        foreign |-> FALSE, check |-> NoCheck]
             /\ copying' = Copy(Head(txn.queue)) /\ timer' /\ timer' \in BOOLEAN
        /\ txn.queue = <<>> => txn' = step.txn /\ copying' = copying /\ timer' = timer
    BY <2>1, <1>e, <1>2, EndingFields
  <2>3. excused' \in {excused, "yes"}
    BY <2>2
  <2>4. since /\ excused' # "yes" => clip \in owed /\ clip \notin Emojis
    BY <2>2, <1>8
  <2>5. CASE txn.queue # <<>>
    <3>1. kept = txn.before /\ kept \in Snapshots
      BY <2>5, <1>t DEF kept
    <3>2. ~since /\ excused' # "yes" => kept \in owed \cup {NoText}
      BY <3>1, <2>3, <1>9
    <3> QED BY <2>2, <2>3, <2>4, <2>5, <3>1, <3>2, <1>5, TakesKeep
  <2>6. CASE txn.queue = <<>>
    <3>1. txn' = [seq |-> txn.seq, phase |-> "idle", pending |-> NoText, attempts |-> 0,
                  queue |-> <<>>, before |-> NoText, foreign |-> FALSE, check |-> NoCheck]
      BY <2>1, <2>2, <2>6 DEF kept
    <3>2. ~since /\ excused' \notin {"yes", "mistaken"} => clip \in owed
      BY <2>2, <1>10, <1>12, <2>6, <1>t DEF IInv, Typed
    <3> QED BY <3>1, <3>2, <2>2, <2>3, <2>4, <2>6, <1>5, RestsKeep
  <2> QED BY <2>5, <2>6
<1> QED BY <1>11, <1>12

(* A verify read that stalls gives its pick up. *)
LEMMA VerifyStallsKeeps ==
    ASSUME IInv, SwiftCopy, VerifyStalls
    PROVE  IInv'
<1> DEFINE step == txnVerifyTimedOut(txn, verify.seq)
<1>1. /\ verify.on = "on" /\ copying = NoCopy
      /\ step.action = "drop" /\ Ending(step)
      /\ verify' = Kills(verify)
      /\ UNCHANGED <<clip, snap, chord, owed, since>>
  BY DEF VerifyStalls
<1>2. txn.phase = "publishing" /\ verify.seq = txn.seq
  BY <1>1 DEF txnVerifyTimedOut, Stay
<1>3. step = checkFor(txn, "drop")
  BY <1>2 DEF txnVerifyTimedOut
<1>4. /\ verify' \in VerifyRuns
      /\ verify'.seq = verify.seq
  BY <1>1 DEF Kills, Runs, IInv, Typed, ReadsTyped
<1>5. /\ chord' \in Chords
      /\ chord'.of = "none"
  BY <1>1, <1>2 DEF IInv, Typed, Shape, ChordShape
<1>6. Reading /\ Running
  BY <1>1, <1>2 DEF Reading, Running
<1>7. /\ ~timer
      /\ moved => since
      /\ ~since => clip = txn.pending
  BY <1>1, <1>6 DEF IInv, Shape, RunningShape, Promise, ReadIsFresh, PickLanded
<1>8. txn.phase \notin {"idle", "snapshotting"} /\ Ending(checkFor(txn, "drop"))
  BY <1>1, <1>2, <1>3
<1> QED BY ONLY IInv, <1>1, <1>4, <1>5, <1>7, <1>8, FailureKeeps

(* A read of a verify that the machine has left changes nothing but itself. *)
LEMMA StaleReadKeeps ==
    ASSUME IInv,
           verify' \in VerifyRuns,
           verify'.on = "off", verify'.seq = verify.seq,
           UNCHANGED <<clip, copying, txn, timer, snap, check, chord, moved, owed, excused, since>>
    PROVE  IInv'
<1> USE TxnAssumption, DeliveryAssumption, TellableAssumption DEF Running, Checking, Reading
<1>a. Typed'
  BY DEF IInv, Typed, TxnTyped, ReadsTyped
<1> USE DEF IInv, Shape, Promise, NoCopy, Copy, Typed, TxnTyped, ReadsTyped
<1>s1. IdleShape'
  BY DEF IdleShape
<1>s2. PickShape'
  BY DEF PickShape
<1>s3. SnapshotShape'
  BY DEF SnapshotShape
<1>s4. RunningShape'
  BY DEF RunningShape
<1>s5. ChordShape'
  BY DEF ChordShape
<1>s6. CheckShape'
  BY DEF CheckShape
<1>s7. CopiedSince'
  BY DEF CopiedSince
<1>s8. RestoreIsLate'
  BY DEF RestoreIsLate
<1>s9. SnapshotIsOwed'
  BY DEF SnapshotIsOwed
<1>s10. BeforeIsOwed'
  BY DEF BeforeIsOwed
<1>s11. PickLanded'
  BY DEF PickLanded
<1>s12. ReadIsFresh'
  BY DEF ReadIsFresh
<1>s13. PasteIsFresh'
  BY DEF PasteIsFresh
<1>s14. ForeignIsTrue'
  BY DEF ForeignIsTrue
<1>s15. CheckIsOwed'
  BY DEF CheckIsOwed
<1>s16. RestIsOwed'
  BY DEF RestIsOwed
<1>s17. ChipIsItsOwn'
  BY DEF ChipIsItsOwn
<1> QED BY <1>a, <1>s1, <1>s2, <1>s3, <1>s4, <1>s5, <1>s6, <1>s7, <1>s8, <1>s9, <1>s10,
           <1>s11, <1>s12, <1>s13, <1>s14, <1>s15, <1>s16, <1>s17 DEF IInv, Shape, Promise

(* A read that served the pick: its chord goes out. *)
LEMMA ChordGoesKeeps ==
    ASSUME IInv, Reading, ~moved => clip = txn.pending,
           txn' = [txn EXCEPT !.phase = "pasting"],
           chord' = [NoChord EXCEPT !.of = "pick", !.seq = txn.seq],
           verify' \in VerifyRuns,
           verify'.on = "off", verify'.seq = verify.seq,
           UNCHANGED <<clip, copying, timer, snap, check, moved, owed, excused, since>>
    PROVE  IInv'
<1> USE TxnAssumption, DeliveryAssumption, TellableAssumption DEF Running, Checking, Reading
<1>1. /\ txn'.phase = "pasting" /\ txn'.seq = txn.seq /\ txn'.pending = txn.pending
      /\ txn'.attempts = txn.attempts /\ txn'.queue = txn.queue
      /\ txn'.before = txn.before /\ txn'.foreign = txn.foreign /\ txn'.check = txn.check
      /\ TxnTyped'
  BY DEF IInv, Typed, TxnTyped
<1>2. /\ chord' = [of |-> "pick", seq |-> txn.seq, down |-> FALSE, held |-> NoText]
      /\ chord' \in Chords
  BY DEF NoChord, IInv, Typed, TxnTyped
<1>3. chord'.of = "pick" /\ chord'.seq = txn.seq
  BY <1>2
<1>4. ~timer /\ (moved => since)
  BY DEF IInv, Shape, RunningShape, Promise, ReadIsFresh
<1>a. Typed'
  BY <1>1, <1>2 DEF IInv, Typed, ReadsTyped
<1> USE DEF IInv, Shape, Promise
<1>s1. IdleShape'
  BY <1>1, <1>3, <1>4 DEF IdleShape
<1>s2. PickShape'
  BY <1>1, <1>3, <1>4 DEF PickShape
<1>s3. SnapshotShape'
  BY <1>1, <1>3, <1>4 DEF Typed, ReadsTyped, RunningShape, SnapshotShape
<1>s4. RunningShape'
  BY <1>1, <1>3, <1>4 DEF RunningShape
<1>s5. ChordShape'
  BY <1>1, <1>3, <1>4 DEF ChordShape
<1>s6. CheckShape'
  BY <1>1, <1>3, <1>4 DEF CheckShape
<1>s7. CopiedSince'
  BY <1>1, <1>3, <1>4 DEF CopiedSince
<1>s8. RestoreIsLate'
  BY <1>1, <1>3, <1>4 DEF RestoreIsLate
<1>s9. SnapshotIsOwed'
  BY <1>1, <1>3, <1>4 DEF SnapshotIsOwed
<1>s10. BeforeIsOwed'
  BY <1>1, <1>3, <1>4 DEF BeforeIsOwed
<1>s11. PickLanded'
  BY <1>1, <1>3, <1>4 DEF PickLanded
<1>s12. ReadIsFresh'
  BY <1>1, <1>3, <1>4 DEF ReadIsFresh
<1>s13. PasteIsFresh'
  BY <1>1, <1>3, <1>4 DEF PasteIsFresh
<1>s14. ForeignIsTrue'
  BY <1>1, <1>3, <1>4 DEF ForeignIsTrue
<1>s15. CheckIsOwed'
  BY <1>1, <1>3, <1>4 DEF CheckIsOwed
<1>s16. RestIsOwed'
  BY <1>1, <1>3, <1>4 DEF RestIsOwed
<1>s17. ChipIsItsOwn'
  BY <1>1, <1>3, <1>4 DEF ChipIsItsOwn
<1> QED BY <1>a, <1>s1, <1>s2, <1>s3, <1>s4, <1>s5, <1>s6, <1>s7, <1>s8, <1>s9, <1>s10,
           <1>s11, <1>s12, <1>s13, <1>s14, <1>s15, <1>s16, <1>s17 DEF IInv, Shape, Promise

(* A read that served something else, with reads left: another try. *)
LEMMA RetryKeeps ==
    ASSUME IInv, Reading, txn.attempts + 1 < Attempts,
           /\ txn'.phase = "publishing" /\ txn'.seq = txn.seq + 1
           /\ txn'.pending = txn.pending /\ txn'.attempts = txn.attempts + 1
           /\ txn'.queue = txn.queue /\ txn'.before = txn.before
           /\ txn'.check = txn.check /\ TxnTyped',
           timer' = TRUE,
           excused' \in {"no", "mistaken", "yes"}, excused' = "yes" <=> excused = "yes",
           txn'.foreign /\ excused' = "no" => since \/ txn.before = NoText,
           verify' \in VerifyRuns,
           verify'.on = "off", verify'.seq = verify.seq,
           UNCHANGED <<clip, copying, snap, check, chord, moved, owed, since>>
    PROVE  IInv'
<1> USE TxnAssumption, DeliveryAssumption, TellableAssumption DEF Running, Checking, Reading
<1>1. /\ txn'.phase = "publishing" /\ txn'.seq = txn.seq + 1 /\ txn'.pending = txn.pending
      /\ txn'.attempts = txn.attempts + 1 /\ txn'.queue = txn.queue
      /\ txn'.before = txn.before /\ txn'.check = txn.check /\ TxnTyped'
  OBVIOUS
<1>2. /\ excused' \in {"no", "mistaken", "yes"}
      /\ excused' # "yes" <=> excused # "yes"
      /\ txn'.foreign /\ excused' = "no" => since \/ txn.before = NoText
  OBVIOUS
<1>3. chord.of = "none"
  BY DEF IInv, Typed, Shape, ChordShape
<1>4. timer' /\ timer' \in BOOLEAN
  OBVIOUS
<1>a. Typed'
  BY <1>1, <1>2, <1>4 DEF IInv, Typed, ReadsTyped
<1> USE DEF IInv, Shape, Promise
<1>s1. IdleShape'
  BY <1>1, <1>2, <1>3, <1>4 DEF IdleShape
<1>s2. PickShape'
  BY <1>1, <1>2, <1>3, <1>4 DEF Typed, TxnTyped, ReadsTyped, PickShape
<1>s3. SnapshotShape'
  BY <1>1, <1>2, <1>3, <1>4 DEF Typed, ReadsTyped, RunningShape, SnapshotShape
<1>s4. RunningShape'
  BY <1>1, <1>2, <1>3, <1>4 DEF Typed, TxnTyped, ReadsTyped, RunningShape
<1>s5. ChordShape'
  BY <1>1, <1>2, <1>3, <1>4 DEF ChordShape
<1>s6. CheckShape'
  BY <1>1, <1>2, <1>3, <1>4 DEF Typed, TxnTyped, ReadsTyped, PickShape, CheckShape
<1>s7. CopiedSince'
  BY <1>1, <1>2, <1>3, <1>4 DEF CopiedSince
<1>s8. RestoreIsLate'
  BY <1>1, <1>2, <1>3, <1>4 DEF RestoreIsLate
<1>s9. SnapshotIsOwed'
  BY <1>1, <1>2, <1>3, <1>4 DEF SnapshotIsOwed
<1>s10. BeforeIsOwed'
  BY <1>1, <1>2, <1>3, <1>4 DEF BeforeIsOwed
<1>s11. PickLanded'
  BY <1>1, <1>2, <1>3, <1>4 DEF PickLanded
<1>s12. ReadIsFresh'
  BY <1>1, <1>2, <1>3, <1>4 DEF ReadIsFresh
<1>s13. PasteIsFresh'
  BY <1>1, <1>2, <1>3, <1>4 DEF PasteIsFresh
<1>s14. ForeignIsTrue'
  BY <1>1, <1>2, <1>3, <1>4 DEF ForeignIsTrue
<1>s15. CheckIsOwed'
  BY <1>1, <1>2, <1>3, <1>4 DEF CheckIsOwed
<1>s16. RestIsOwed'
  BY <1>1, <1>2, <1>3, <1>4 DEF RestIsOwed
<1>s17. ChipIsItsOwn'
  BY <1>1, <1>2, <1>3, <1>4 DEF ChipIsItsOwn
<1> QED BY <1>a, <1>s1, <1>s2, <1>s3, <1>s4, <1>s5, <1>s6, <1>s7, <1>s8, <1>s9, <1>s10,
           <1>s11, <1>s12, <1>s13, <1>s14, <1>s15, <1>s16, <1>s17 DEF IInv, Shape, Promise

(* txnIdle, field by field. *)
LEMMA IdleFields ==
    ASSUME NEW t, NEW c, NEW idle, idle = txnIdle(t, c),
           t \in Txns
    PROVE  idle = [seq |-> t.seq, phase |-> "idle", pending |-> NoText, attempts |-> 0,
                   queue |-> t.queue,
                   before |-> IF t.queue = <<>> THEN NoText ELSE t.before,
                   foreign |-> FALSE, check |-> c]
BY DEF txnIdle

(* The last read served something else: the user copied, and nothing is put back. *)
LEMMA DropKeeps ==
    ASSUME IInv, Reading, txn.attempts + 1 = Attempts, since,
           NEW served,
           NEW step,
           step = Stay(txnIdle([txn EXCEPT !.foreign = @ \/ txn.before = NoText
                                               \/ served # txn.before], txn.check), "drop"),
           Ending(step),
           verify' \in VerifyRuns,
           verify'.on = "off", verify'.seq = verify.seq,
           UNCHANGED <<clip, snap, chord, owed, since>>
    PROVE  IInv'
<1> DEFINE kept == IF txn.queue = <<>> THEN NoText ELSE txn.before
           off == txn.foreign \/ txn.before = NoText \/ served # txn.before
           seen == [txn EXCEPT !.foreign = @ \/ txn.before = NoText \/ served # txn.before]
<1>1. /\ txn.phase = "publishing" /\ txn.check = NoCheck /\ chord.of = "none" /\ ~timer
      /\ owed # {} /\ owed \subseteq Contents /\ txn.before \in Snapshots
  BY DEF IInv, Typed, TxnTyped, Shape, PickShape, ChordShape, RunningShape, Checking, Reading
<1>2. /\ seen \in Txns
      /\ seen.seq = txn.seq /\ seen.queue = txn.queue /\ seen.before = txn.before
  BY DEF IInv, Typed, TxnTyped
<1> HIDE DEF seen
<1>4. step.txn = txnIdle(seen, NoCheck) /\ step.action = "drop"
      /\ step.restore.does # "check"
  BY <1>1 DEF Stay, Nothing, seen
<1>3. step.txn =
        [seq |-> txn.seq, phase |-> "idle", pending |-> NoText, attempts |-> 0,
         queue |-> txn.queue, before |-> kept, foreign |-> FALSE, check |-> NoCheck]
  <2>1. step.txn = txnIdle(seen, NoCheck)
    BY <1>4
  <2> HIDE DEF kept, NoCheck, NoText
  <2>2. step.txn =
        [seq |-> seen.seq, phase |-> "idle", pending |-> NoText, attempts |-> 0,
         queue |-> seen.queue,
         before |-> IF seen.queue = <<>> THEN NoText ELSE seen.before,
         foreign |-> FALSE, check |-> NoCheck]
    BY ONLY <2>1, <1>2, IdleFields
  <2> QED BY ONLY <2>2, <1>2 DEF kept
<1>5. /\ check' = check /\ moved' = moved
      /\ excused' = IF txn.before = NoText THEN "yes" ELSE excused
      /\ txn.queue # <<>> =>
           /\ txn' = [seq |-> txn.seq + 1, phase |-> "publishing",
                      pending |-> Head(txn.queue), attempts |-> 0,
                      queue |-> Tail(txn.queue), before |-> kept,
                      foreign |-> FALSE, check |-> NoCheck]
           /\ copying' = Copy(Head(txn.queue)) /\ timer' /\ timer' \in BOOLEAN
      /\ txn.queue = <<>> => txn' = step.txn /\ copying' = copying /\ timer' = timer
  <2> HIDE DEF kept
  <2>1. step.txn = [seq |-> txn.seq, phase |-> "idle", pending |-> NoText, attempts |-> 0,
                    queue |-> txn.queue, before |-> kept, foreign |-> FALSE,
                    check |-> NoCheck]
    BY <1>3, <1>4
  <2>2. Ending(step)
    OBVIOUS
  <2> QED BY ONLY IInv, <2>1, <2>2, <1>4, EndingFields
<1>6. /\ excused' \in {excused, "yes"}
      /\ since /\ excused' # "yes" => clip \in owed /\ clip \notin Emojis
  BY <1>5 DEF IInv, Promise, CopiedSince
<1>7. /\ chord' \in Chords
      /\ chord'.of = "none" /\ owed' # {} /\ owed' \subseteq Contents
  BY <1>1 DEF IInv, Typed
<1>8. CASE txn.queue # <<>>
  <2>1. kept \in Snapshots
    BY <1>8, <1>1 DEF kept
  <2> HIDE DEF kept
  <2> QED BY <1>1, <1>5, <1>6, <1>7, <1>8, <2>1, TakesKeep
<1>9. CASE txn.queue = <<>>
  <2>1. txn' = [seq |-> txn.seq, phase |-> "idle", pending |-> NoText, attempts |-> 0,
                queue |-> <<>>, before |-> NoText, foreign |-> FALSE, check |-> NoCheck]
    BY <1>3, <1>4, <1>5, <1>9 DEF kept
  <2> QED BY <1>1, <1>5, <1>6, <1>7, <1>9, <2>1, RestsKeep
<1> QED BY <1>8, <1>9

(* Whatever a verify read serves. *)
LEMMA VerifyReadKeeps ==
    ASSUME IInv, SwiftCopy, VerifyRead
    PROVE  IInv'
<1>1. PICK served \in Answers(verify) :
         Verified(txnServed(txn, verify.seq, served), Mistakes(served))
  BY DEF VerifyRead
<1> DEFINE step == txnServed(txn, verify.seq, served)
           off == txn.foreign \/ txn.before = NoText \/ served # txn.before
           seen == [txn EXCEPT !.foreign = @ \/ txn.before = NoText \/ served # txn.before]
<1>2. /\ verify.on = "on" /\ UNCHANGED <<clip, snap, since>>
      /\ verify' \in VerifyRuns
      /\ verify'.on = "off" /\ verify'.seq = verify.seq
  BY DEF VerifyRead, Ends, Runs, IInv, Typed, ReadsTyped
<1>3. CASE ~Reading
  <2>1. step.action = "stale"
    BY <1>2, <1>3 DEF txnServed, Stay, Reading
  <2>2. UNCHANGED <<txn, copying, timer, check, chord, moved, owed, excused>>
    BY <1>1, <2>1 DEF Verified, ghosts
  <2> QED BY ONLY IInv, <1>2, <2>2, StaleReadKeeps
<1>4. CASE Reading
  <2>1. txn.phase = "publishing" /\ verify.seq = txn.seq
    BY <1>4 DEF Reading
  <2>2. /\ txn.pending \in Emojis /\ ~timer /\ chord.of = "none" /\ txn.attempts \in Nat
        /\ txn.attempts < Attempts /\ txn.check = NoCheck
     BY <1>4, <2>1 DEF IInv, Typed, TxnTyped, Shape, RunningShape, PickShape, ChordShape,
       Checking
  <2>3. moved => since
    BY <1>4 DEF IInv, Promise, ReadIsFresh
  <2>4. served \in {NoText, verify.was, clip}
    BY DEF Answers
  <2>5. CASE served = txn.pending
    <3>1. step = Stay([txn EXCEPT !.phase = "pasting"], "chord")
      BY <2>1, <2>5 DEF txnServed
    <3>2. ~moved => clip = txn.pending
      BY <1>4, <2>2, <2>4, <2>5, DeliveryAssumption DEF IInv, Promise, ReadIsFresh
    <3>3. ~since => clip = txn.pending
      BY <2>3, <3>2
    <3>4. CASE /\ txn' = step.txn
               /\ chord' = [NoChord EXCEPT !.of = "pick", !.seq = step.txn.seq]
               /\ UNCHANGED <<copying, timer, check, ghosts, budget>>
      <4>1. step.txn = [txn EXCEPT !.phase = "pasting"] /\ step.txn.seq = txn.seq
        BY <3>1 DEF Stay, IInv, Typed, TxnTyped
      <4>2. /\ txn' = [txn EXCEPT !.phase = "pasting"]
            /\ chord' = [NoChord EXCEPT !.of = "pick", !.seq = txn.seq]
            /\ UNCHANGED <<copying, timer, check, moved, owed, excused>>
        BY <3>4, <4>1 DEF ghosts
      <4> QED BY ONLY IInv, <1>2, <1>4, <3>2, <4>2, ChordGoesKeeps
    <3>5. CASE /\ Ending(txnChordDone(step.txn, step.txn.seq, FALSE))
               /\ UNCHANGED <<chord, owed>>
      <4> DEFINE t == [txn EXCEPT !.phase = "pasting"]
      <4>1. t.phase = "pasting" /\ step.txn = t
        BY <3>1 DEF Stay, IInv, Typed, TxnTyped
      <4> HIDE DEF t, step
      <4>2. txnChordDone(step.txn, step.txn.seq, FALSE) = checkFor(t, "cancelled")
        BY ONLY <4>1 DEF txnChordDone
      <4>3. Ending(checkFor(t, "cancelled"))
        BY <4>2, <3>5
      <4>4. t = txn \/ t = [txn EXCEPT !.phase = "pasting"]
        BY DEF t
      <4>5. /\ chord' \in Chords
            /\ chord'.of = "none" /\ owed' = owed
        BY <2>2, <3>5 DEF IInv, Typed
      <4>6. txn.phase \notin {"idle", "snapshotting"}
        BY <1>2, <2>1
      <4> QED BY ONLY IInv, <1>2, <2>2, <2>3, <3>3, <4>3, <4>4, <4>5, <4>6, FailureKeeps
    <3>6. step.action = "chord" /\ Verified(step, Mistakes(served))
      BY <1>1, <3>1 DEF Stay
    <3> HIDE DEF step
    <3> QED BY <3>4, <3>5, <3>6 DEF Verified
  <2>6. CASE served # txn.pending /\ txn.attempts + 1 >= Attempts
    <3>1. step = Stay(txnIdle(seen, txn.check), "drop")
      BY <2>1, <2>6 DEF txnServed
    <3>2. txn.attempts + 1 = Attempts
      BY <2>2, <2>6, TxnAssumption
    <3>3. since
      <4>1. SUFFICES ASSUME ~since PROVE FALSE
        BY DEF IInv, Typed
      <4>2. verify.was = txn.pending /\ clip = txn.pending
        BY <1>4, <3>2, <4>1, <2>1 DEF IInv, Promise, ReadIsFresh, PickLanded, Running
      <4>3. ~Secret(verify)
        BY <4>2, <2>2, TellableAssumption DEF Secret
      <4> QED BY <4>2, <4>3, <2>6 DEF Answers
    <3>4. Ending(step) /\ UNCHANGED <<chord, owed>>
      BY <1>1, <3>1 DEF Verified, Stay
    <3> HIDE DEF step
    <3> QED BY ONLY IInv, <1>2, <1>4, <3>1, <3>2, <3>3, <3>4, DropKeeps DEF seen
  <2>7. CASE served # txn.pending /\ txn.attempts + 1 < Attempts
    <3>1. step = Stay([seen EXCEPT !.seq = @ + 1, !.attempts = @ + 1], "retry")
      BY <2>1, <2>2, <2>7, TxnAssumption DEF txnServed
    <3>2. /\ txn' = step.txn /\ timer' = TRUE
          /\ excused' = IF Mistakes(served) /\ excused = "no" THEN "mistaken" ELSE excused
          /\ UNCHANGED <<copying, check, chord, moved, owed>>
      BY <1>1, <3>1 DEF Verified, Stay
    <3>3. step.txn = [seen EXCEPT !.seq = @ + 1, !.attempts = @ + 1]
      BY <3>1 DEF Stay
    <3>4. /\ txn'.phase = "publishing" /\ txn'.seq = txn.seq + 1
          /\ txn'.pending = txn.pending /\ txn'.attempts = txn.attempts + 1
          /\ txn'.queue = txn.queue /\ txn'.before = txn.before
          /\ txn'.check = txn.check /\ TxnTyped' /\ txn'.foreign = off
      <4>1. txn' = [seen EXCEPT !.seq = @ + 1, !.attempts = @ + 1]
        BY <3>2, <3>3
      <4>2. /\ off \in BOOLEAN
            /\ seen = [seq |-> txn.seq, phase |-> txn.phase, pending |-> txn.pending,
                       attempts |-> txn.attempts, queue |-> txn.queue,
                       before |-> txn.before, foreign |-> off, check |-> txn.check]
        BY DEF IInv, Typed, TxnTyped
      <4>3. TxnTyped
        BY DEF IInv, Typed
      <4> HIDE DEF seen, off, NoText
      <4>4. txn' = [seq |-> txn.seq + 1, phase |-> txn.phase, pending |-> txn.pending,
                    attempts |-> txn.attempts + 1, queue |-> txn.queue,
                    before |-> txn.before, foreign |-> off, check |-> txn.check]
        BY ONLY <4>1, <4>2
      <4> QED BY ONLY <2>1, <4>2, <4>3, <4>4 DEF TxnTyped
    <3>6. /\ excused' \in {"no", "mistaken", "yes"}
          /\ excused' = "yes" <=> excused = "yes"
          /\ txn'.foreign /\ excused' = "no" => since \/ txn.before = NoText
      <4>1. txn.foreign /\ excused = "no" => since \/ txn.before = NoText
        BY <2>1 DEF IInv, Promise, ForeignIsTrue, Running
      <4>2. excused' = "no" => excused = "no" /\ ~Mistakes(served)
        BY <3>2
      <4>3. excused' \in {"no", "mistaken", "yes"} /\ (excused' = "yes" <=> excused = "yes")
        BY <3>2 DEF IInv, Typed
      <4> QED BY <3>4, <4>1, <4>2, <4>3 DEF Mistakes
    <3>5. timer' = TRUE /\ txn.attempts + 1 < Attempts
      BY <3>2, <2>7
    <3> HIDE DEF step, seen, off
    <3> QED BY ONLY IInv, <1>2, <1>4, <3>2, <3>4, <3>5, <3>6, RetryKeeps
  <2> QED BY <2>2, <2>5, <2>6, <2>7, TxnAssumption
<1> QED BY <1>3, <1>4

(* A chord that succeeded: its pick is what the clipboard owes from now on. *)
LEMMA DeliveredKeeps ==
    ASSUME IInv, txn.phase = "pasting",
           Ending(txnChordDone(txn, txn.seq, TRUE)), Delivered,
           chord' = NoChord,
           UNCHANGED <<clip, verify, snap, since>>
    PROVE  IInv'
<1> DEFINE step == txnChordDone(txn, txn.seq, TRUE)
           kept == IF txn.queue = <<>> THEN NoText ELSE txn.pending
           idle == txnIdle(txn, txn.check)
<1>1. /\ txn.pending \in Emojis /\ txn.check = NoCheck /\ ~timer
      /\ owed # {} /\ owed \subseteq Contents /\ moved \in BOOLEAN /\ since \in BOOLEAN
      /\ clip \in Contents
  BY DEF IInv, Typed, TxnTyped, Shape, PickShape, RunningShape, Checking
<1>2. idle = [seq |-> txn.seq, phase |-> "idle", pending |-> NoText, attempts |-> 0,
              queue |-> txn.queue,
              before |-> IF txn.queue = <<>> THEN NoText ELSE txn.before,
              foreign |-> FALSE, check |-> NoCheck]
  <2>1. idle = txnIdle(txn, NoCheck) /\ TxnTyped
    BY <1>1 DEF IInv, Typed
  <2> HIDE DEF idle
  <2> QED BY ONLY <2>1, IdleFields DEF TxnTyped
<1>3. step = Stay([idle EXCEPT !.before = IF txn.queue = <<>> THEN @ ELSE txn.pending],
                  "completed")
  BY DEF txnChordDone
<1> HIDE DEF idle, step
<1>4. /\ step.txn = [seq |-> txn.seq, phase |-> "idle", pending |-> NoText, attempts |-> 0,
                     queue |-> txn.queue, before |-> kept, foreign |-> FALSE,
                     check |-> NoCheck]
      /\ step.restore.does # "check" /\ step.action = "completed"
  <2>1. step.txn = [idle EXCEPT !.before = IF txn.queue = <<>> THEN @ ELSE txn.pending]
    BY <1>3 DEF Stay
  <2>2. step.txn = [seq |-> txn.seq, phase |-> "idle", pending |-> NoText, attempts |-> 0,
                    queue |-> txn.queue, before |-> kept, foreign |-> FALSE,
                    check |-> NoCheck]
    BY ONLY <1>2, <2>1 DEF kept
  <2>3. step.restore.does # "check" /\ step.action = "completed"
    BY <1>3 DEF Stay, Nothing
  <2> QED BY <2>2, <2>3
<1>e. Ending(step)
  BY DEF step
<1>5. /\ check' = check /\ moved' = moved /\ excused' = excused
      /\ txn.queue # <<>> =>
           /\ txn' = [seq |-> txn.seq + 1, phase |-> "publishing",
                      pending |-> Head(txn.queue), attempts |-> 0,
                      queue |-> Tail(txn.queue), before |-> kept,
                      foreign |-> FALSE, check |-> NoCheck]
           /\ copying' = Copy(Head(txn.queue)) /\ timer' /\ timer' \in BOOLEAN
      /\ txn.queue = <<>> => txn' = step.txn /\ copying' = copying /\ timer' = timer
  <2> HIDE DEF kept
  <2>1. /\ check' = check /\ moved' = moved
        /\ excused' = IF step.action \in {"drop", "cancelled"} /\ txn.before = NoText
                      THEN "yes" ELSE excused
        /\ txn.queue # <<>> =>
             /\ txn' = [seq |-> txn.seq + 1, phase |-> "publishing",
                        pending |-> Head(txn.queue), attempts |-> 0,
                        queue |-> Tail(txn.queue), before |-> kept,
                        foreign |-> FALSE, check |-> NoCheck]
             /\ copying' = Copy(Head(txn.queue)) /\ timer' /\ timer' \in BOOLEAN
        /\ txn.queue = <<>> => txn' = step.txn /\ copying' = copying /\ timer' = timer
    BY ONLY IInv, <1>4, <1>e, EndingFields
  <2> QED BY <1>4, <2>1
<1>6. (~moved => clip = txn.pending) /\ (moved => since)
  BY DEF IInv, Promise, PasteIsFresh
<1>7. since /\ excused # "yes" => clip \in owed /\ clip \notin Emojis
  BY DEF IInv, Promise, CopiedSince
<1>8. /\ owed' = IF moved THEN owed ELSE {txn.pending}
      /\ owed' # {} /\ owed' \subseteq Contents
  BY <1>1 DEF Delivered, Contents
<1>9. /\ chord' \in Chords
      /\ chord'.of = "none"
  BY DEF NoChord
<1>10. /\ verify' \in VerifyRuns
       /\ verify'.seq = verify.seq
  BY DEF IInv, Typed, ReadsTyped
<1>11. since /\ excused' # "yes" => clip \in owed' /\ clip \notin Emojis
  BY <1>1, <1>5, <1>6, <1>7, <1>8
<1>12. ~since => clip = txn.pending /\ owed' = {txn.pending}
  BY <1>6, <1>8
<1>13. CASE txn.queue # <<>>
  <2>1. kept \in Snapshots /\ (~since => kept \in owed' \cup {NoText})
    BY <1>1, <1>12, <1>13 DEF kept, Snapshots
  <2> HIDE DEF kept
  <2> QED BY <1>5, <1>8, <1>9, <1>10, <1>11, <1>13, <2>1, TakesKeep
<1>14. CASE txn.queue = <<>>
  <2>1. txn' = [seq |-> txn.seq, phase |-> "idle", pending |-> NoText, attempts |-> 0,
                queue |-> <<>>, before |-> NoText, foreign |-> FALSE, check |-> NoCheck]
    BY <1>4, <1>5, <1>14 DEF kept
  <2> QED BY <1>1, <1>5, <1>6, <1>8, <1>9, <1>10, <1>11, <1>12, <1>14, <2>1, RestsKeep
<1> QED BY <1>13, <1>14

(* The verdict on a pick's chord. *)
LEMMA ChordVerdictKeeps ==
    ASSUME IInv, NEW success \in BOOLEAN, ChordVerdict(success)
    PROVE  IInv'
<1>1. /\ chord.of = "pick" /\ chord' = NoChord
      /\ Ending(txnChordDone(txn, chord.seq, success))
      /\ IF txnChordDone(txn, chord.seq, success).action = "completed"
         THEN Delivered ELSE UNCHANGED owed
      /\ UNCHANGED <<clip, verify, snap, since>>
  BY DEF ChordVerdict
<1>2. txn.phase = "pasting" /\ chord.seq = txn.seq
  BY <1>1 DEF IInv, Shape, ChordShape
<1>3. CASE success = TRUE
  <2>1. txnChordDone(txn, chord.seq, TRUE).action = "completed"
    BY <1>2 DEF txnChordDone, Stay
  <2>2. Ending(txnChordDone(txn, txn.seq, TRUE)) /\ Delivered
    BY <1>1, <1>2, <1>3, <2>1
  <2> QED BY ONLY IInv, <1>1, <1>2, <2>2, DeliveredKeeps
<1>4. CASE success = FALSE
  <2>1. txnChordDone(txn, chord.seq, FALSE) = checkFor(txn, "cancelled")
    BY <1>2 DEF txnChordDone
  <2>2. checkFor(txn, "cancelled").action # "completed"
    BY DEF checkFor
  <2>3. Ending(checkFor(txn, "cancelled")) /\ UNCHANGED owed
    BY <1>1, <1>4, <2>1, <2>2
  <2>4. /\ ~timer /\ (moved => since) /\ (~since => clip = txn.pending)
        /\ txn.phase \notin {"idle", "snapshotting"}
    BY <1>2 DEF IInv, Shape, RunningShape, Promise, PasteIsFresh
  <2>5. /\ chord' \in Chords
        /\ chord'.of = "none"
    BY <1>1 DEF NoChord
  <2>6. /\ verify' \in VerifyRuns
        /\ verify'.seq = verify.seq
    BY <1>1 DEF IInv, Typed, ReadsTyped
  <2> QED BY ONLY IInv, <1>1, <2>3, <2>4, <2>5, <2>6, FailureKeeps
<1> QED BY <1>3, <1>4

(* The answer to the check that is owed. *)
LEMMA AnsweredKeeps ==
    ASSUME IInv, Checking,
           txn' = [txn EXCEPT !.check = NoCheck],
           check' \in CheckRuns,
           check'.on # "on", check'.id = check.id, check'.queued = 0,
           excused' \in {excused, "yes"},
           copying' \in {copying, [text |-> txn.check.before, restores |-> TRUE]},
           excused' # "yes" /\ ~since => copying'.restores,
           excused' # "yes" /\ since /\ copying'.restores => moved,
           UNCHANGED <<clip, timer, verify, snap, chord, moved, owed, since>>
    PROVE  IInv'
<1> USE TxnAssumption, DeliveryAssumption, TellableAssumption DEF Running, Checking, Reading
<1> DEFINE put == [text |-> txn.check.before, restores |-> TRUE]
<1>1. /\ txn'.phase = txn.phase /\ txn'.seq = txn.seq /\ txn'.pending = txn.pending
      /\ txn'.attempts = txn.attempts /\ txn'.queue = txn.queue /\ txn'.before = txn.before
      /\ txn'.foreign = txn.foreign /\ txn'.check = NoCheck
      /\ TxnTyped'
  BY DEF IInv, Typed, TxnTyped, NoCheck, Snapshots
<1>2. /\ txn.phase = "idle" /\ ~timer /\ snap.on # "on"
      /\ copying \in {NoCopy, Copy(txn.check.emoji)}
      /\ txn.check.before \in Texts \cup Emojis /\ txn.check.before # NoText
   BY DEF IInv, Typed, TxnTyped, Shape, PickShape, SnapshotShape, RunningShape, CheckShape,
     Snapshots
<1>3. /\ ~Copy(txn.check.emoji).restores /\ Copy(txn.check.emoji).text = txn.check.emoji
      /\ ~NoCopy.restores
      /\ put.restores /\ put.text = txn.check.before
      /\ put # NoCopy /\ put \in [text : Texts \cup Emojis, restores : BOOLEAN]
      /\ txn.check.before \in Texts \cup Emojis
  BY <1>2 DEF Copy, NoCopy
<1>4. excused' \in {"no", "mistaken", "yes"} /\ (excused' # "yes" => excused # "yes")
  BY DEF IInv, Typed
<1>5. copying' \in {copying, put}
  OBVIOUS
<1> HIDE DEF put
<1>a. Typed'
  BY <1>1, <1>3, <1>4, <1>5 DEF IInv, Typed, ReadsTyped
<1> USE DEF IInv, Shape, Promise
<1>s1. IdleShape'
  BY <1>1, <1>2, <1>3, <1>4, <1>5 DEF IdleShape
<1>s2. PickShape'
  BY <1>1, <1>2, <1>3, <1>4, <1>5 DEF PickShape
<1>s3. SnapshotShape'
  BY <1>1, <1>2, <1>3, <1>4, <1>5 DEF SnapshotShape
<1>s4. RunningShape'
  BY <1>1, <1>2, <1>3, <1>4, <1>5 DEF RunningShape
<1>s5. ChordShape'
  BY <1>1, <1>2, <1>3, <1>4, <1>5 DEF ChordShape
<1>s6. CheckShape'
  BY <1>1, <1>2, <1>3, <1>4, <1>5 DEF Typed, ReadsTyped, TxnTyped, CheckShape
<1>s7. CopiedSince'
  BY <1>1, <1>2, <1>3, <1>4, <1>5 DEF CopiedSince
<1>s8. RestoreIsLate'
  BY <1>1, <1>2, <1>3, <1>4, <1>5 DEF RestoreIsLate
<1>s9. SnapshotIsOwed'
  BY <1>1, <1>2, <1>3, <1>4, <1>5 DEF SnapshotIsOwed
<1>s10. BeforeIsOwed'
  BY <1>1, <1>2, <1>3, <1>4, <1>5 DEF BeforeIsOwed
<1>s11. PickLanded'
  BY <1>1, <1>2, <1>3, <1>4, <1>5 DEF PickLanded
<1>s12. ReadIsFresh'
  BY <1>1, <1>2, <1>3, <1>4, <1>5 DEF ReadIsFresh
<1>s13. PasteIsFresh'
  BY <1>1, <1>2, <1>3, <1>4, <1>5 DEF PasteIsFresh
<1>s14. ForeignIsTrue'
  BY <1>1, <1>2, <1>3, <1>4, <1>5 DEF ForeignIsTrue
<1>s15. CheckIsOwed'
  BY <1>1, <1>2, <1>3, <1>4, <1>5 DEF CheckIsOwed
<1>s16. RestIsOwed'
  BY <1>1, <1>2, <1>3, <1>4, <1>5 DEF CheckIsOwed, RestIsOwed
<1>s17. ChipIsItsOwn'
  BY <1>1, <1>2, <1>3, <1>4, <1>5 DEF CheckIsOwed, ChipIsItsOwn
<1> QED BY <1>a, <1>s1, <1>s2, <1>s3, <1>s4, <1>s5, <1>s6, <1>s7, <1>s8, <1>s9, <1>s10,
           <1>s11, <1>s12, <1>s13, <1>s14, <1>s15, <1>s16, <1>s17 DEF IInv, Shape, Promise

(* The exit of a run that a later question killed starts the read for it. *)
LEMMA RestartKeeps ==
    ASSUME IInv, check.on = "killed",
           check' \in CheckRuns,
           \/ check.queued = 0 /\ check'.on = "off" /\ check'.id = check.id
           \/ check'.on = "on" /\ check'.was = clip /\ check'.id = check.queued,
           check'.queued = 0,
           moved' \in BOOLEAN, moved' => moved,
           txn.check.id = check.queued /\ check.queued # 0 => ~moved',
           ~moved' => ~moved \/ (txn.check.id = check.queued /\ check.queued # 0),
           UNCHANGED <<clip, copying, txn, timer, verify, snap, chord, owed, excused, since>>
    PROVE  IInv'
<1> USE TxnAssumption, DeliveryAssumption, TellableAssumption DEF Running, Checking, Reading
<1>1. txn.check = NoCheck => txn.check.id = 0
  BY DEF NoCheck
<1>2. Checking => txn.phase = "idle"
  BY DEF IInv, Typed, TxnTyped, Shape, PickShape
<1>a. Typed'
  BY DEF IInv, Typed, TxnTyped, ReadsTyped
<1> USE DEF IInv, Shape, Promise
<1>s1. IdleShape'
  BY <1>1, <1>2 DEF IdleShape
<1>s2. PickShape'
  BY <1>1, <1>2 DEF Typed, ReadsTyped, TxnTyped, PickShape
<1>s3. SnapshotShape'
  BY <1>1, <1>2 DEF SnapshotShape
<1>s4. RunningShape'
  BY <1>1, <1>2 DEF RunningShape
<1>s5. ChordShape'
  BY <1>1, <1>2 DEF ChordShape
<1>s6. CheckShape'
  BY <1>1, <1>2 DEF Typed, ReadsTyped, TxnTyped, CheckShape
<1>s7. CopiedSince'
  BY <1>1, <1>2 DEF CopiedSince
<1>s8. RestoreIsLate'
  BY <1>1, <1>2 DEF CheckShape, NoCopy, Copy, RestoreIsLate
<1>s9. SnapshotIsOwed'
  BY <1>1, <1>2 DEF SnapshotIsOwed
<1>s10. BeforeIsOwed'
  BY <1>1, <1>2 DEF BeforeIsOwed
<1>s11. PickLanded'
  BY <1>1, <1>2 DEF PickLanded
<1>s12. ReadIsFresh'
  BY <1>1, <1>2 DEF PickShape, Typed, TxnTyped, ReadIsFresh
<1>s13. PasteIsFresh'
  BY <1>1, <1>2 DEF PickShape, Typed, TxnTyped, PasteIsFresh
<1>s14. ForeignIsTrue'
  BY <1>1, <1>2 DEF ForeignIsTrue
<1>s15. CheckIsOwed'
  BY <1>1, <1>2 DEF CheckShape, Typed, ReadsTyped, TxnTyped, CheckIsOwed
<1>s16. RestIsOwed'
  BY <1>1, <1>2 DEF RestIsOwed
<1>s17. ChipIsItsOwn'
  BY <1>1, <1>2 DEF CopiedSince, CheckIsOwed, CheckShape, ChordShape, ChipIsItsOwn
<1> QED BY <1>a, <1>s1, <1>s2, <1>s3, <1>s4, <1>s5, <1>s6, <1>s7, <1>s8, <1>s9, <1>s10,
           <1>s11, <1>s12, <1>s13, <1>s14, <1>s15, <1>s16, <1>s17 DEF IInv, Shape, Promise

(* The exit of a check nobody waits for. *)
LEMMA UnaskedKeeps ==
    ASSUME IInv, ~Checking,
           check' \in CheckRuns,
           check'.id = check.id, check'.queued = 0,
           excused' \in {excused, "yes"},
           UNCHANGED <<clip, copying, txn, timer, verify, snap, chord, moved, owed, since>>
    PROVE  IInv'
<1> USE TxnAssumption, DeliveryAssumption, TellableAssumption DEF Running, Checking, Reading
<1>4. excused' \in {"no", "mistaken", "yes"} /\ (excused' # "yes" => excused' = excused)
  BY DEF IInv, Typed
<1>a. Typed'
  BY <1>4 DEF IInv, Typed, TxnTyped, ReadsTyped
<1> USE DEF IInv, Shape, Promise
<1>s1. IdleShape'
  BY <1>4 DEF IdleShape
<1>s2. PickShape'
  BY <1>4 DEF Typed, ReadsTyped, TxnTyped, PickShape
<1>s3. SnapshotShape'
  BY <1>4 DEF SnapshotShape
<1>s4. RunningShape'
  BY <1>4 DEF RunningShape
<1>s5. ChordShape'
  BY <1>4 DEF ChordShape
<1>s6. CheckShape'
  BY <1>4 DEF Typed, ReadsTyped, TxnTyped, CheckShape
<1>s7. CopiedSince'
  BY <1>4 DEF CopiedSince
<1>s8. RestoreIsLate'
  BY <1>4 DEF RestoreIsLate
<1>s9. SnapshotIsOwed'
  BY <1>4 DEF SnapshotIsOwed
<1>s10. BeforeIsOwed'
  BY <1>4 DEF BeforeIsOwed
<1>s11. PickLanded'
  BY <1>4 DEF PickLanded
<1>s12. ReadIsFresh'
  BY <1>4 DEF ReadIsFresh
<1>s13. PasteIsFresh'
  BY <1>4 DEF PasteIsFresh
<1>s14. ForeignIsTrue'
  BY <1>4 DEF ForeignIsTrue
<1>s15. CheckIsOwed'
  BY <1>4 DEF CheckIsOwed
<1>s16. RestIsOwed'
  BY <1>4 DEF RestIsOwed
<1>s17. ChipIsItsOwn'
  BY <1>4 DEF ChipIsItsOwn
<1> QED BY <1>a, <1>s1, <1>s2, <1>s3, <1>s4, <1>s5, <1>s6, <1>s7, <1>s8, <1>s9, <1>s10,
           <1>s11, <1>s12, <1>s13, <1>s14, <1>s15, <1>s16, <1>s17 DEF IInv, Shape, Promise

(* A check that was read puts the snapshot back over its own pick only. *)
LEMMA CheckReadKeeps ==
    ASSUME IInv, CheckRead
    PROVE  IInv'
<1>1. PICK served \in Answers(check) :
         CheckAnswers(txnRestoreChecked(txn, check.id, served))
  BY DEF CheckRead
<1>2. /\ check.on = "on" /\ CheckEnds
      /\ UNCHANGED <<clip, timer, verify, snap, chord, owed, excused, since>>
  BY DEF CheckRead
<1>3. check.queued = 0 /\ (Checking => check.id = txn.check.id)
  BY <1>2 DEF IInv, Shape, CheckShape
<1>4. /\ check' \in CheckRuns
      /\ check'.on = "off" /\ check'.id = check.id /\ check'.queued = 0 /\ moved' = moved
  BY <1>2, <1>3 DEF CheckEnds, Ends, Runs, IInv, Typed, ReadsTyped
<1> DEFINE step == txnRestoreChecked(txn, check.id, served)
<1>5. CASE ~Checking
  <2>1. step.txn = txn /\ step.restore.does # "put"
    BY <1>5 DEF txnRestoreChecked, Stay, Nothing, Checking
  <2>2. UNCHANGED <<txn, copying>>
    BY <1>1, <2>1 DEF CheckAnswers
  <2> QED BY ONLY IInv, <1>2, <1>4, <1>5, <2>2, UnaskedKeeps
<1>6. CASE Checking
  <2> DEFINE debt == IF served = txn.check.emoji THEN PutBack(txn.check.before) ELSE Nothing
  <2>1. step = [txn |-> [txn EXCEPT !.check = NoCheck], action |-> "checked",
                restore |-> debt]
    BY <1>3, <1>6 DEF txnRestoreChecked, Checking
  <2>2. txn.check.before # NoText /\ txn.check.emoji \in Emojis
        /\ copying \in {NoCopy, Copy(txn.check.emoji)}
    BY <1>6 DEF IInv, Shape, CheckShape
  <2>3. /\ served = txn.check.emoji => debt.does = "put" /\ debt.text = txn.check.before
        /\ served # txn.check.emoji => debt.does # "put"
    BY <2>2 DEF PutBack, Nothing
  <2> HIDE DEF debt
  <2>4. step.txn = [txn EXCEPT !.check = NoCheck] /\ step.restore = debt
    BY <2>1
  <2> HIDE DEF step
  <2>5. /\ txn' = [txn EXCEPT !.check = NoCheck]
        /\ copying' = IF debt.does = "put"
                      THEN [text |-> debt.text, restores |-> TRUE] ELSE copying
    BY <1>1, <2>4 DEF CheckAnswers, step
  <2>6. served = txn.check.emoji =>
          copying' = [text |-> txn.check.before, restores |-> TRUE]
    BY <2>3, <2>5
  <2>7. served # txn.check.emoji => copying' = copying /\ ~copying.restores
    BY <2>2, <2>3, <2>5 DEF Copy, NoCopy
  <2>8. excused # "yes" /\ ~since => served = txn.check.emoji
    <3>1. SUFFICES ASSUME excused # "yes", ~since PROVE served = txn.check.emoji
      OBVIOUS
    <3>2. clip = txn.check.emoji /\ check.was = clip
      BY <1>2, <1>3, <1>6, <3>1 DEF IInv, Promise, CheckIsOwed
    <3>3. ~Secret(check)
      BY <3>2, <2>2, TellableAssumption DEF Secret
    <3> QED BY <3>2, <3>3 DEF Answers
  <2>9. excused # "yes" /\ since /\ served = txn.check.emoji => moved
    <3>1. SUFFICES ASSUME excused # "yes", since, served = txn.check.emoji, ~moved
                   PROVE  FALSE
      BY DEF IInv, Typed
    <3>2. check.was = clip /\ clip \notin Emojis
      BY <1>2, <1>3, <1>6, <3>1 DEF IInv, Promise, CheckIsOwed, CopiedSince
    <3>3. served \in {NoText, clip}
      BY <3>2 DEF Answers
    <3> QED BY <2>2, <3>1, <3>2, <3>3, DeliveryAssumption
  <2>10. copying' \in {copying, [text |-> txn.check.before, restores |-> TRUE]}
    BY <2>6, <2>7
  <2>11. /\ excused' # "yes" /\ ~since => copying'.restores
         /\ excused' # "yes" /\ since /\ copying'.restores => moved
    BY <1>2, <2>6, <2>7, <2>8, <2>9
  <2>12. check'.on # "on" /\ excused' \in {excused, "yes"}
    BY <1>2, <1>4
  <2> QED BY ONLY IInv, <1>2, <1>4, <1>6, <2>5, <2>10, <2>11, <2>12, AnsweredKeeps
<1> QED BY <1>5, <1>6

(* The exit of a killed check. *)
LEMMA CheckKilledKeeps ==
    ASSUME IInv, CheckKilled
    PROVE  IInv'
<1>1. /\ check.on = "killed" /\ CheckEnds
      /\ CheckAnswers(txnRestoreChecked(txn, check.id, NoText))
      /\ UNCHANGED <<clip, timer, verify, snap, chord, owed, excused, since>>
  BY DEF CheckKilled
<1>2. txn.check = NoCheck \/ txn.check.id # check.id
  BY <1>1 DEF IInv, Shape, CheckShape, Checking
<1>3. UNCHANGED <<txn, copying>>
  BY <1>1, <1>2 DEF CheckAnswers, txnRestoreChecked, Stay, Nothing
<1>4. /\ check \in CheckRuns
      /\ clip \in Contents /\ moved \in BOOLEAN
  BY DEF IInv, Typed, ReadsTyped
<1>5. CASE check.queued = 0
  <2>1. /\ check' = [on |-> "off", was |-> NoText, id |-> check.id, queued |-> 0]
        /\ moved' = moved
    BY <1>1, <1>4, <1>5 DEF CheckEnds, Ends
  <2>2. check' \in CheckRuns
    BY <1>4, <2>1 DEF Runs
  <2>3. check'.on = "off" /\ check'.id = check.id /\ check'.queued = 0 /\ moved' \in BOOLEAN
    BY <1>4, <2>1
  <2>4. /\ \/ check.queued = 0 /\ check'.on = "off" /\ check'.id = check.id
           \/ check'.on = "on" /\ check'.was = clip /\ check'.id = check.queued
        /\ moved' => moved
        /\ txn.check.id = check.queued /\ check.queued # 0 => ~moved'
        /\ ~moved' => ~moved \/ (txn.check.id = check.queued /\ check.queued # 0)
    BY <1>4, <1>5, <2>1
  <2> QED BY ONLY IInv, <1>1, <1>3, <1>5, <2>2, <2>3, <2>4, RestartKeeps
<1>6. CASE check.queued # 0
  <2>1. /\ check' = [on |-> "on", was |-> clip, id |-> check.queued, queued |-> 0]
        /\ moved' = (moved /\ txn.check.id # check.queued)
    BY <1>1, <1>4, <1>6 DEF CheckEnds, Starts
  <2>2. check' \in CheckRuns
    BY <1>4, <2>1 DEF Runs
  <2>3. /\ check'.on = "on" /\ check'.was = clip /\ check'.id = check.queued
        /\ check'.queued = 0
    BY <2>1
  <2>4. /\ moved' \in BOOLEAN /\ (moved' => moved)
        /\ txn.check.id = check.queued => ~moved'
        /\ ~moved' => ~moved \/ txn.check.id = check.queued
    BY <1>4, <2>1
  <2> QED BY ONLY IInv, <1>1, <1>3, <1>6, <2>2, <2>3, <2>4, RestartKeeps
<1> QED BY <1>5, <1>6

(* A check that stalls is given up. *)
LEMMA CheckStallsKeeps ==
    ASSUME IInv, CheckStalls
    PROVE  IInv'
<1>1. /\ check.on = "on" /\ check' = Kills(check)
      /\ CheckAnswers(txnRestoreChecked(txn, check.id, NoText))
      /\ excused' = IF txn.check.id = check.id THEN "yes" ELSE excused
      /\ UNCHANGED <<clip, timer, verify, snap, chord, moved, owed, since>>
  BY DEF CheckStalls
<1>2. /\ check.queued = 0 /\ (Checking => check.id = txn.check.id)
      /\ excused' \in {excused, "yes"} /\ (Checking => excused' = "yes")
  BY <1>1 DEF IInv, Shape, CheckShape
<1>3. /\ check' \in CheckRuns
      /\ check'.on = "killed" /\ check'.id = check.id /\ check'.queued = 0
  BY <1>1, <1>2 DEF Kills, Runs, IInv, Typed, ReadsTyped
<1> DEFINE step == txnRestoreChecked(txn, check.id, NoText)
<1>4. CASE ~Checking
  <2>1. UNCHANGED <<txn, copying>>
    BY <1>1, <1>4 DEF CheckAnswers, txnRestoreChecked, Stay, Nothing, Checking
  <2> QED BY ONLY IInv, <1>1, <1>2, <1>3, <1>4, <2>1, UnaskedKeeps
<1>5. CASE Checking
  <2>1. NoText # txn.check.emoji
    BY <1>5, DeliveryAssumption DEF IInv, Shape, CheckShape
  <2>2. step = [txn |-> [txn EXCEPT !.check = NoCheck], action |-> "checked",
                restore |-> Nothing]
    BY <1>2, <1>5, <2>1 DEF txnRestoreChecked, Checking
  <2>3. step.txn = [txn EXCEPT !.check = NoCheck] /\ step.restore.does # "put"
    BY <2>2 DEF Nothing
  <2> HIDE DEF step
  <2>4. txn' = [txn EXCEPT !.check = NoCheck] /\ copying' = copying
    BY <1>1, <2>3 DEF CheckAnswers, step
  <2>5. check'.on # "on" /\ excused' \in {excused, "yes"}
        /\ copying' \in {copying, [text |-> txn.check.before, restores |-> TRUE]}
        /\ (excused' # "yes" /\ ~since => copying'.restores)
        /\ (excused' # "yes" /\ since /\ copying'.restores => moved)
    BY <1>2, <1>3, <1>5, <2>4
  <2> QED BY ONLY IInv, <1>1, <1>3, <1>5, <2>4, <2>5, AnsweredKeeps
<1> QED BY <1>4, <1>5

(* It holds at first. *)
LEMMA InitHolds == ASSUME Init PROVE IInv
<1>1. /\ clip \in FirstClips /\ copying = NoCopy /\ txn = txnInitial /\ timer = FALSE
      /\ verify = [on |-> "off", was |-> NoText, seq |-> 0, retiring |-> FALSE]
      /\ snap = [on |-> "off", was |-> NoText, seq |-> 0]
      /\ check = [on |-> "off", was |-> NoText, id |-> 0, queued |-> 0]
      /\ chord = NoChord
      /\ moved = FALSE /\ owed = {} /\ excused = "no" /\ since = FALSE
  BY DEF Init, DeliveryInit
<1>2. /\ txn.seq = 0 /\ txn.phase = "idle" /\ txn.pending = NoText /\ txn.attempts = 0
      /\ txn.queue = <<>> /\ txn.before = NoText /\ txn.foreign = FALSE
      /\ txn.check = NoCheck
  BY <1>1 DEF txnInitial
<1>3. TxnTyped
  <2>1. NoCheck \in Checks
        /\ NoText \in Snapshots /\ <<>> \in Seq(Emojis)
    BY DEF NoCheck, Snapshots
  <2> HIDE DEF NoCheck, NoText
  <2> QED BY ONLY <1>1, <2>1 DEF txnInitial, TxnTyped
<1>4. Typed
  BY <1>1, <1>3, DeliveryAssumption
     DEF Typed, ReadsTyped, Runs, NoChord, Contents
<1>5. chord.of = "none"
  BY <1>1 DEF NoChord
<1>6. Shape
  BY <1>1, <1>2, <1>5
     DEF Shape, IdleShape, PickShape, SnapshotShape, RunningShape, ChordShape, CheckShape,
         Running, Checking, Reading
<1>7. Promise
  BY <1>1, <1>2, <1>5
     DEF Promise, CopiedSince, RestoreIsLate, SnapshotIsOwed, BeforeIsOwed, PickLanded,
         ReadIsFresh, PasteIsFresh, ForeignIsTrue, CheckIsOwed, RestIsOwed, ChipIsItsOwn,
         Running, Checking, Reading, NoCopy
<1> QED BY <1>4, <1>6, <1>7 DEF IInv

(* Every step of the delivery keeps it. *)
LEMMA DeliveryKeeps == ASSUME IInv, SwiftCopy, Delivery PROVE IInv'
<1>1. CASE Lands
  BY <1>1, LandsKeep
<1>2. CASE SnapshotRead
  BY <1>2, SnapshotReadKeeps
<1>3. CASE SnapshotKilled \/ SnapshotStalls
  BY <1>3, SnapshotUnreadKeeps
<1>4. CASE VerifyTick
  BY <1>4, TickKeeps
<1>5. CASE VerifyRead
  BY <1>5, VerifyReadKeeps
<1>6. CASE VerifyKilled
  BY <1>6, VerifyKilledKeeps
<1>7. CASE ChordPresses
  BY <1>7, PressKeeps
<1>8. CASE \E success \in BOOLEAN : ChordVerdict(success)
  BY <1>8, ChordVerdictKeeps
<1>9. CASE CheckRead
  BY <1>9, CheckReadKeeps
<1>10. CASE CheckKilled
  BY <1>10, CheckKilledKeeps
<1>11. CASE VerifyStalls
  BY <1>11, VerifyStallsKeeps
<1>12. CASE CheckStalls
  BY <1>12, CheckStallsKeeps
<1>13. CASE \E emoji \in Emojis : Picks(emoji)
  BY <1>13, PickKeeps DEF Picks, snapshotPlan
<1>14. CASE \E c \in Texts \cup Secrets : UserCopies(c)
  BY <1>14, CopiesKeep
<1> QED BY <1>1, <1>2, <1>3, <1>4, <1>5, <1>6, <1>7, <1>8, <1>9, <1>10, <1>11, <1>12,
           <1>13, <1>14 DEF Delivery, Background, Stalls

(* Every step of the panel keeps it. *)
LEMMA StepKeeps == ASSUME IInv, SwiftCopy, [Next]_vars PROVE IInv'
<1>1. CASE Delivery
  BY <1>1, DeliveryKeeps
<1>2. CASE ChipReads
  <2>1. UNCHANGED deliveryVars
    BY <1>2 DEF ChipReads, Notice, TypesExit, CountExit, PeekExit, ReaderExit
  <2> QED BY <2>1, FrameKeeps
<1>3. CASE ChipVerdict
  BY <1>3, ChipVerdictKeeps
<1>4. CASE ClickClient
  BY <1>4, ClickKeeps
<1>5. CASE User /\ ~ClickClient
  <2>1. UNCHANGED deliveryVars
    BY <1>5 DEF User, PeekStarts, PeekEnds, PeekStalls, ReaderStalls, ClickLocal, Moves,
                Closes, Opening
  <2> QED BY <2>1, FrameKeeps
<1>6. CASE UNCHANGED vars
  BY <1>6, FrameKeeps DEF vars
<1> QED BY <1>1, <1>2, <1>3, <1>4, <1>5, <1>6 DEF Next, User

(* The inductive invariant of the delivery: whatever the phase, what is served, what is
   under way and what the reads saw agree with what the clipboard owes. *)
THEOREM EveryBurstKeepsItsPromise ==
    ASSUME SwiftCopy = TRUE
    PROVE  Spec => []IInv
<1>1. Init => IInv
  BY InitHolds
<1>2. IInv /\ [Next]_vars => IInv'
  BY StepKeeps
<1> QED BY <1>1, <1>2, PTL DEF Spec

(* Once no pick runs and nothing is under way the clipboard serves the last pick
   delivered, what it served before the picks or what the user copied since, and never
   a pick that failed (ClipboardIsOwed), however the reads, kills, copies, verdicts and
   picks of EmojiDelivery.qml interleave. *)
THEOREM TheClipboardIsOwed ==
    ASSUME SwiftCopy = TRUE
    PROVE  Spec => []ClipboardIsOwed
<1>1. IInv => ClipboardIsOwed
  <2> SUFFICES ASSUME IInv, AtRest, excused = "no", owed # {}
               PROVE  clip \in owed
    BY DEF ClipboardIsOwed
  <2>1. txn.phase = "idle" /\ ~Checking /\ copying = NoCopy /\ ~copying.restores
    BY DEF AtRest, Checking, NoCopy
  <2> QED BY <2>1 DEF IInv, Promise, CopiedSince, RestIsOwed
<1> QED BY <1>1, EveryBurstKeepsItsPromise, PTL

(* No chord pastes what it was not sent for (ChordsPasteTheirOwn): the clipboard still
   serves a pick when its key goes down, and the chip's paste is not taken over by a pick. *)
THEOREM EveryChordPastesItsOwn ==
    ASSUME SwiftCopy = TRUE
    PROVE  Spec => ChordsPasteTheirOwn
<1>1. IInv /\ [Next]_vars =>
        [chord.of # "none" /\ ~chord.down /\ chord'.down =>
          \/ chord.of = "pick" /\ (clip = txn.pending \/ moved)
          \/ chord.of = "chip" /\ (clip = chord.held \/ clip \notin Emojis \/ moved
                                \/ clip \in owed \/ excused = "yes")]_vars
  <2> SUFFICES ASSUME IInv, chord.of # "none"
               PROVE  \/ chord.of = "pick" /\ (clip = txn.pending \/ moved)
                      \/ chord.of = "chip" /\ (clip = chord.held \/ clip \notin Emojis \/ moved
                                            \/ clip \in owed \/ excused = "yes")
    OBVIOUS
  <2>1. chord.of \in {"pick", "chip"}
    BY DEF IInv, Typed
  <2> QED BY <2>1 DEF IInv, Shape, ChordShape, Promise, PasteIsFresh, ChipIsItsOwn
<1> QED BY <1>1, EveryBurstKeepsItsPromise, PTL DEF Spec, ChordsPasteTheirOwn

-----------------------------------------------------------------------------
(***************************************************************************)
(* PanelTyping.  The argument is about the wire: a key is up before line p *)
(* if the lines up to p end by lifting it, or if it is not in hand and     *)
(* they do not put it down (Free), and down if they end by putting it down *)
(* or leave it in hand (Sure).  What the ledger does not call down is up   *)
(* at the end of the wire, a lock it shows is down there, and each key on  *)
(* the wire has up or down before it what its cap was drawn with.          *)
(*                                                                         *)
(* First what the reducer's lines do to the keys (Acts, Covers, Types),    *)
(* then the session's queue, then the invariant and its steps.             *)
(***************************************************************************)

(* The keys of the caps, all keys, and the lines that can be on the wire. *)
Positions == {cap.position : cap \in Caps}
KeyNames == ModifierKeys \cup Positions \cup {"PASTE", ""}
Strokes == {"down", "up"} \X KeyNames
Commands == Strokes \cup ({"configure"} \X Keymaps)

(* What the lines of w before p leave of a key: not named, up, or down. *)
Unnamed(w, x, p) == \A k \in DOMAIN w : k < p => w[k] # Up(x) /\ w[k] # Down(x)
Lifts(w, x, p) ==
    \E k \in DOMAIN w : /\ k < p /\ w[k] = Up(x)
                        /\ \A j \in DOMAIN w : k < j /\ j < p => w[j] # Down(x)
Lowers(w, x, p) ==
    \E k \in DOMAIN w : /\ k < p /\ w[k] = Down(x)
                        /\ \A j \in DOMAIN w : k < j /\ j < p => w[j] # Up(x)
(* The place behind the last line. *)
End(w) == Len(w) + 1

(* What lines do to the keys: these end down, these up, and no other is named. *)
Acts(w, down, up) ==
    /\ down \cap up = {}
    /\ \A x \in down : Lowers(w, x, End(w))
    /\ \A x \in up : Lifts(w, x, End(w))
    /\ \A x : x \notin down \cup up => Unnamed(w, x, End(w))
(* Runs that put no key down, or no key that types. *)
NoDowns(w) == \A k \in DOMAIN w : w[k][1] # "down"
IsKeyDown(command) == command[1] = "down" /\ command[2] \notin ModifierKeys
NoKeys(w) == \A k \in DOMAIN w : ~IsKeyDown(w[k])

(* A run of lines followed by another. *)
LEMMA Joined ==
    ASSUME NEW S, NEW a \in Seq(S), NEW b \in Seq(S)
    PROVE  /\ a \o b \in Seq(S)
           /\ Len(a) \in Nat /\ Len(b) \in Nat /\ Len(a \o b) = Len(a) + Len(b)
           /\ DOMAIN a = 1..Len(a) /\ DOMAIN b = 1..Len(b)
           /\ DOMAIN (a \o b) = 1..(Len(a) + Len(b))
           /\ \A i \in 1..Len(a) : (a \o b)[i] = a[i]
           /\ \A i \in 1..Len(b) : (a \o b)[Len(a) + i] = b[i]
           /\ \A i \in 1..(Len(a) + Len(b)) :
                i \in 1..Len(a) \/ (i - Len(a) \in 1..Len(b) /\ (a \o b)[i] = b[i - Len(a)])
  OBVIOUS

(* The lines before the seam. *)
LEMMA BeforeSeam ==
    ASSUME NEW S, NEW a \in Seq(S), NEW b \in Seq(S), NEW x, NEW p \in Nat, p <= End(a)
    PROVE  /\ Lifts(a, x, p) => Lifts(a \o b, x, p)
           /\ Lowers(a, x, p) => Lowers(a \o b, x, p)
           /\ Unnamed(a, x, p) => Unnamed(a \o b, x, p)
<1> DEFINE c == a \o b
<1>1. /\ Len(a) \in Nat /\ Len(b) \in Nat
      /\ DOMAIN a = 1..Len(a) /\ DOMAIN c = 1..(Len(a) + Len(b))
      /\ \A i \in 1..Len(a) : c[i] = a[i]
  BY Joined
<1> HIDE DEF c
<1>2. \A i \in Nat : i < p => (i \in DOMAIN a <=> i \in DOMAIN c) /\ (i \in DOMAIN a => c[i] = a[i])
  BY <1>1 DEF End
<1>3. DOMAIN a \subseteq Nat /\ DOMAIN c \subseteq Nat
  BY <1>1
<1>4. Lifts(a, x, p) => Lifts(c, x, p)
  BY <1>2, <1>3 DEF Lifts
<1>5. Lowers(a, x, p) => Lowers(c, x, p)
  BY <1>2, <1>3 DEF Lowers
<1>6. Unnamed(a, x, p) => Unnamed(c, x, p)
  BY <1>2, <1>3 DEF Unnamed
<1> QED  BY <1>4, <1>5, <1>6 DEF c

(* And those behind it. *)
LEMMA BehindSeam ==
    ASSUME NEW S, NEW a \in Seq(S), NEW b \in Seq(S), NEW x, NEW q \in Nat \ {0}, q <= End(b)
    PROVE  LET p == Len(a) + q
           IN  /\ Lifts(b, x, q) => Lifts(a \o b, x, p)
               /\ Lowers(b, x, q) => Lowers(a \o b, x, p)
               /\ Unnamed(b, x, q) =>
                    /\ Lifts(a, x, End(a)) => Lifts(a \o b, x, p)
                    /\ Lowers(a, x, End(a)) => Lowers(a \o b, x, p)
                    /\ Unnamed(a, x, End(a)) => Unnamed(a \o b, x, p)
<1> DEFINE c == a \o b
           p == Len(a) + q
<1>1. /\ Len(a) \in Nat /\ Len(b) \in Nat
      /\ DOMAIN a = 1..Len(a) /\ DOMAIN b = 1..Len(b) /\ DOMAIN c = 1..(Len(a) + Len(b))
      /\ \A i \in 1..Len(a) : c[i] = a[i]
      /\ \A i \in 1..Len(b) : c[Len(a) + i] = b[i]
      /\ \A i \in 1..(Len(a) + Len(b)) :
           i \in 1..Len(a) \/ (i - Len(a) \in 1..Len(b) /\ c[i] = b[i - Len(a)])
  BY Joined
<1> HIDE DEF c
<1>2. Lifts(b, x, q) => Lifts(c, x, p)
  <2> SUFFICES ASSUME NEW k \in DOMAIN b, k < q, b[k] = Up(x),
                      \A j \in DOMAIN b : k < j /\ j < q => b[j] # Down(x)
               PROVE  Lifts(c, x, p)
    BY DEF Lifts
  <2>1. Len(a) + k \in DOMAIN c /\ Len(a) + k < p /\ c[Len(a) + k] = Up(x)
    BY <1>1
  <2>2. ASSUME NEW j \in DOMAIN c, Len(a) + k < j, j < p
        PROVE  c[j] # Down(x)
    <3>1. j - Len(a) \in DOMAIN b /\ c[j] = b[j - Len(a)] /\ k < j - Len(a) /\ j - Len(a) < q
      BY <1>1, <2>2
    <3> QED  BY <3>1
  <2> QED  BY <2>1, <2>2 DEF Lifts
<1>3. Lowers(b, x, q) => Lowers(c, x, p)
  <2> SUFFICES ASSUME NEW k \in DOMAIN b, k < q, b[k] = Down(x),
                      \A j \in DOMAIN b : k < j /\ j < q => b[j] # Up(x)
               PROVE  Lowers(c, x, p)
    BY DEF Lowers
  <2>1. Len(a) + k \in DOMAIN c /\ Len(a) + k < p /\ c[Len(a) + k] = Down(x)
    BY <1>1
  <2>2. ASSUME NEW j \in DOMAIN c, Len(a) + k < j, j < p
        PROVE  c[j] # Up(x)
    <3>1. j - Len(a) \in DOMAIN b /\ c[j] = b[j - Len(a)] /\ k < j - Len(a) /\ j - Len(a) < q
      BY <1>1, <2>2
    <3> QED  BY <3>1
  <2> QED  BY <2>1, <2>2 DEF Lowers
<1>4. ASSUME Unnamed(b, x, q)
      PROVE  \A j \in DOMAIN c : j < p =>
               \/ j \in DOMAIN a /\ c[j] = a[j]
               \/ j > Len(a) /\ c[j] # Up(x) /\ c[j] # Down(x)
  <2> SUFFICES ASSUME NEW j \in DOMAIN c, j < p, j \notin DOMAIN a
               PROVE  j > Len(a) /\ c[j] # Up(x) /\ c[j] # Down(x)
    BY <1>1
  <2>1. /\ j - Len(a) \in DOMAIN b /\ j - Len(a) < q /\ c[j] = b[j - Len(a)]
        /\ j > Len(a)
    BY <1>1
  <2> QED  BY <2>1, <1>4 DEF Unnamed
<1>5. ASSUME Unnamed(b, x, q), Lifts(a, x, End(a))
      PROVE  Lifts(c, x, p)
  <2>1. PICK k \in DOMAIN a : /\ a[k] = Up(x)
                              /\ \A j \in DOMAIN a : k < j /\ j < End(a) => a[j] # Down(x)
    BY <1>5 DEF Lifts
  <2>2. k \in DOMAIN c /\ k < p /\ c[k] = Up(x)
    BY <2>1, <1>1
  <2>3. \A j \in DOMAIN c : k < j /\ j < p => c[j] # Down(x)
    BY <2>1, <1>1, <1>4, <1>5 DEF End
  <2> QED  BY <2>2, <2>3 DEF Lifts
<1>6. ASSUME Unnamed(b, x, q), Lowers(a, x, End(a))
      PROVE  Lowers(c, x, p)
  <2>1. PICK k \in DOMAIN a : /\ a[k] = Down(x)
                              /\ \A j \in DOMAIN a : k < j /\ j < End(a) => a[j] # Up(x)
    BY <1>6 DEF Lowers
  <2>2. k \in DOMAIN c /\ k < p /\ c[k] = Down(x)
    BY <2>1, <1>1
  <2>3. \A j \in DOMAIN c : k < j /\ j < p => c[j] # Up(x)
    BY <2>1, <1>1, <1>4, <1>6 DEF End
  <2> QED  BY <2>2, <2>3 DEF Lowers
<1>7. ASSUME Unnamed(b, x, q), Unnamed(a, x, End(a))
      PROVE  Unnamed(c, x, p)
  BY <1>1, <1>4, <1>7 DEF Unnamed, End
<1> QED  BY <1>2, <1>3, <1>5, <1>6, <1>7 DEF c

(* What two runs of lines do, one after the other. *)
LEMMA ActsInTurn ==
    ASSUME NEW S, NEW a \in Seq(S), NEW b \in Seq(S), NEW d1, NEW u1, NEW d2, NEW u2,
           Acts(a, d1, u1), Acts(b, d2, u2)
    PROVE  Acts(a \o b, (d1 \ u2) \cup d2, (u1 \ d2) \cup u2)
<1>1. Len(a) \in Nat /\ Len(b) \in Nat /\ End(b) \in Nat \ {0} /\ End(a \o b) = Len(a) + End(b)
  BY Joined DEF End
<1>2. \A x : /\ Lifts(b, x, End(b)) => Lifts(a \o b, x, End(a \o b))
             /\ Lowers(b, x, End(b)) => Lowers(a \o b, x, End(a \o b))
             /\ Unnamed(b, x, End(b)) =>
                    /\ Lifts(a, x, End(a)) => Lifts(a \o b, x, End(a \o b))
                    /\ Lowers(a, x, End(a)) => Lowers(a \o b, x, End(a \o b))
                    /\ Unnamed(a, x, End(a)) => Unnamed(a \o b, x, End(a \o b))
  BY <1>1, BehindSeam
<1> QED  BY <1>2 DEF Acts

(* Neither puts a key down: nor do the two. *)
LEMMA NoneJoined ==
    ASSUME NEW S, NEW a \in Seq(S), NEW b \in Seq(S)
    PROVE  /\ NoDowns(a) /\ NoDowns(b) => NoDowns(a \o b)
           /\ NoKeys(a) /\ NoKeys(b) => NoKeys(a \o b)
<1> DEFINE c == a \o b
<1>1. \A i \in DOMAIN c : (\E j \in DOMAIN a : c[i] = a[j]) \/ (\E j \in DOMAIN b : c[i] = b[j])
  BY Joined
<1> HIDE DEF c
<1>2. (NoDowns(a) /\ NoDowns(b) => NoDowns(c)) /\ (NoKeys(a) /\ NoKeys(b) => NoKeys(c))
  BY <1>1 DEF NoDowns, NoKeys
<1> QED  BY <1>2 DEF c

-----------------------------------------------------------------------------
(* One line, or none. *)
LEMMA OneActs ==
    ASSUME NEW x \in KeyNames
    PROVE  /\ <<Up(x)>> \in Seq(Strokes) /\ Acts(<<Up(x)>>, {}, {x})
           /\ NoDowns(<<Up(x)>>) /\ NoKeys(<<Up(x)>>)
           /\ <<Down(x)>> \in Seq(Strokes) /\ Acts(<<Down(x)>>, {x}, {})
           /\ x \in ModifierKeys => NoKeys(<<Down(x)>>)
           /\ <<>> \in Seq(Strokes) /\ Acts(<<>>, {}, {}) /\ NoDowns(<<>>) /\ NoKeys(<<>>)
<1>1. \A e : Len(<<e>>) = 1 /\ DOMAIN <<e>> = {1} /\ <<e>>[1] = e
  OBVIOUS
<1>2. Up(x) \in Strokes /\ Down(x) \in Strokes
  BY DEF Up, Down, Strokes
<1>3. <<Up(x)>> \in Seq(Strokes) /\ <<Down(x)>> \in Seq(Strokes) /\ <<>> \in Seq(Strokes)
  BY <1>2
<1>4. \A y : y # x => Up(y) # Up(x) /\ Down(y) # Down(x)
  BY DEF Up, Down
<1>5. \A y, z : Up(y) # Down(z)
  BY DEF Up, Down
<1>6. Acts(<<Up(x)>>, {}, {x})
  BY <1>1, <1>4, <1>5 DEF Acts, Lifts, Unnamed, End
<1>7. Acts(<<Down(x)>>, {x}, {})
  BY <1>1, <1>4, <1>5 DEF Acts, Lowers, Unnamed, End
<1>8. Acts(<<>>, {}, {})
  BY DEF Acts, Unnamed
<1>9. NoDowns(<<Up(x)>>) /\ NoKeys(<<Up(x)>>) /\ (x \in ModifierKeys => NoKeys(<<Down(x)>>))
  BY <1>1 DEF NoDowns, NoKeys, IsKeyDown, Up, Down
<1>10. NoDowns(<<>>) /\ NoKeys(<<>>)
  BY DEF NoDowns, NoKeys
<1> QED  BY <1>3, <1>6, <1>7, <1>8, <1>9, <1>10

(* The keys that carry modifiers for one chord. *)
KeysOf(set, level3) == {KeyOf(m, level3) : m \in set}

(* The keys of a chord's modifiers are modifier keys; Shift has one of its own. *)
LEMMA KeysAre ==
    ASSUME NEW set \in SUBSET Modifiers, NEW level3
    PROVE  /\ KeysOf(set, level3) \subseteq ModifierKeys /\ ModifierKeys \subseteq KeyNames
           /\ "shift" \in KeysOf(set, level3) <=> "shift" \in set
  BY DEF KeysOf, KeyOf, ModifierKeys, KeyNames, Modifiers

(* LineOf moves the key of its modifier, if it is of the set. *)
LEMMA LineOfActs ==
    ASSUME NEW set, NEW level3, NEW m \in Modifiers
    PROVE  LET up == LineOf("up", m, set, level3)
               down == LineOf("down", m, set, level3)
               key == IF m \in set THEN {KeyOf(m, level3)} ELSE {}
           IN  /\ up \in Seq(Strokes) /\ Acts(up, {}, key) /\ NoDowns(up) /\ NoKeys(up)
               /\ down \in Seq(Strokes) /\ Acts(down, key, {}) /\ NoKeys(down)
<1>1. KeyOf(m, level3) \in ModifierKeys /\ KeyOf(m, level3) \in KeyNames
  BY DEF KeyOf, ModifierKeys, KeyNames
<1>2. "" \in KeyNames
  BY DEF KeyNames
<1>3. CASE m \in set
  BY <1>1, <1>3, OneActs DEF LineOf, Up, Down
<1>4. CASE m \notin set
  BY <1>2, <1>4, OneActs DEF LineOf
<1> QED  BY <1>3, <1>4

(* Two runs that only put modifiers down. *)
LEMMA DownsJoined ==
    ASSUME NEW a \in Seq(Strokes), NEW b \in Seq(Strokes), NEW d1, NEW d2,
           Acts(a, d1, {}), Acts(b, d2, {}), NoKeys(a), NoKeys(b)
    PROVE  a \o b \in Seq(Strokes) /\ Acts(a \o b, d1 \cup d2, {}) /\ NoKeys(a \o b)
<1>1. (d1 \ {}) \cup d2 = d1 \cup d2 /\ ({} \ d2) \cup {} = {}
  OBVIOUS
<1> QED  BY <1>1, ActsInTurn, NoneJoined

(* Two runs that only lift. *)
LEMMA UpsJoined ==
    ASSUME NEW a \in Seq(Strokes), NEW b \in Seq(Strokes), NEW u1, NEW u2,
           Acts(a, {}, u1), Acts(b, {}, u2), NoKeys(a), NoKeys(b), NoDowns(a), NoDowns(b)
    PROVE  /\ a \o b \in Seq(Strokes) /\ Acts(a \o b, {}, u1 \cup u2)
           /\ NoKeys(a \o b) /\ NoDowns(a \o b)
<1>1. (u1 \ {}) \cup u2 = u1 \cup u2 /\ ({} \ u2) \cup {} = {}
  OBVIOUS
<1> QED  BY <1>1, ActsInTurn, NoneJoined

(* Lines and Lift move the keys of a set's modifiers, and no other. *)
LEMMA LinesAct ==
    ASSUME NEW set \in SUBSET Modifiers, NEW level3
    PROVE  LET down == Lines("down", set, level3)
               up == Lines("up", set, level3)
               lift == Lift(set, level3)
           IN  /\ down \in Seq(Strokes) /\ Acts(down, KeysOf(set, level3), {}) /\ NoKeys(down)
               /\ up \in Seq(Strokes) /\ Acts(up, {}, KeysOf(set, level3))
               /\ NoKeys(up) /\ NoDowns(up)
               /\ lift \in Seq(Strokes) /\ Acts(lift, {}, KeysOf(set, level3))
               /\ NoKeys(lift) /\ NoDowns(lift)
<1> DEFINE D(m) == LineOf("down", m, set, level3)
           U(m) == LineOf("up", m, set, level3)
           K(m) == IF m \in set THEN {KeyOf(m, level3)} ELSE {}
<1>1. ASSUME NEW m \in Modifiers
      PROVE  /\ U(m) \in Seq(Strokes) /\ Acts(U(m), {}, K(m)) /\ NoDowns(U(m)) /\ NoKeys(U(m))
             /\ D(m) \in Seq(Strokes) /\ Acts(D(m), K(m), {}) /\ NoKeys(D(m))
  BY LineOfActs
<1>2. /\ "ctrl" \in Modifiers /\ "alt" \in Modifiers /\ "logo" \in Modifiers
      /\ "level5" \in Modifiers /\ "altgr" \in Modifiers /\ "shift" \in Modifiers
      /\ \A m \in set : m \in {"ctrl", "alt", "logo", "level5", "altgr", "shift"}
  BY DEF Modifiers
<1>3. /\ Lines("down", set, level3) = D("ctrl") \o D("alt") \o D("logo")
                                        \o D("level5") \o D("altgr") \o D("shift")
      /\ Lines("up", set, level3) = U("ctrl") \o U("alt") \o U("logo")
                                        \o U("level5") \o U("altgr") \o U("shift")
      /\ Lift(set, level3) = U("shift") \o U("altgr") \o U("level5")
                                        \o U("logo") \o U("alt") \o U("ctrl")
  BY DEF Lines, Lift
<1>4. /\ KeysOf(set, level3) = K("ctrl") \cup K("alt") \cup K("logo")
                                        \cup K("level5") \cup K("altgr") \cup K("shift")
      /\ KeysOf(set, level3) = K("shift") \cup K("altgr") \cup K("level5")
                                        \cup K("logo") \cup K("alt") \cup K("ctrl")
  BY <1>2 DEF KeysOf
<1> HIDE DEF D, U, K
<1>5. /\ Lines("down", set, level3) \in Seq(Strokes) /\ NoKeys(Lines("down", set, level3))
      /\ Acts(Lines("down", set, level3), KeysOf(set, level3), {})
  <2> DEFINE two == D("ctrl") \o D("alt")
             three == two \o D("logo")
             four == three \o D("level5")
             five == four \o D("altgr")
             six == five \o D("shift")
  <2>2. two \in Seq(Strokes) /\ Acts(two, K("ctrl") \cup K("alt"), {}) /\ NoKeys(two)
    BY <1>1, <1>2, DownsJoined
  <2> HIDE DEF two
  <2>3. /\ three \in Seq(Strokes) /\ NoKeys(three)
        /\ Acts(three, K("ctrl") \cup K("alt") \cup K("logo"), {})
    BY <1>1, <1>2, <2>2, DownsJoined
  <2> HIDE DEF three
  <2>4. /\ four \in Seq(Strokes) /\ NoKeys(four)
        /\ Acts(four, K("ctrl") \cup K("alt") \cup K("logo") \cup K("level5"), {})
    BY <1>1, <1>2, <2>3, DownsJoined
  <2> HIDE DEF four
  <2>5. /\ five \in Seq(Strokes) /\ NoKeys(five)
        /\ Acts(five, K("ctrl") \cup K("alt") \cup K("logo") \cup K("level5") \cup K("altgr"), {})
    BY <1>1, <1>2, <2>4, DownsJoined
  <2> HIDE DEF five
  <2>6. /\ six \in Seq(Strokes) /\ NoKeys(six)
        /\ Acts(six, K("ctrl") \cup K("alt") \cup K("logo")
                       \cup K("level5") \cup K("altgr") \cup K("shift"), {})
    BY <1>1, <1>2, <2>5, DownsJoined
  <2> HIDE DEF six
  <2>7. Acts(six, KeysOf(set, level3), {})
    BY <1>4, <2>6
  <2> QED  BY <1>3, <2>6, <2>7 DEF two, three, four, five, six
<1>6. /\ Lines("up", set, level3) \in Seq(Strokes)
      /\ NoKeys(Lines("up", set, level3)) /\ NoDowns(Lines("up", set, level3))
      /\ Acts(Lines("up", set, level3), {}, KeysOf(set, level3))
  <2> DEFINE two == U("ctrl") \o U("alt")
             three == two \o U("logo")
             four == three \o U("level5")
             five == four \o U("altgr")
             six == five \o U("shift")
  <2>2. /\ two \in Seq(Strokes) /\ NoKeys(two) /\ NoDowns(two)
        /\ Acts(two, {}, K("ctrl") \cup K("alt"))
    BY <1>1, <1>2, UpsJoined
  <2> HIDE DEF two
  <2>3. /\ three \in Seq(Strokes) /\ NoKeys(three) /\ NoDowns(three)
        /\ Acts(three, {}, K("ctrl") \cup K("alt") \cup K("logo"))
    BY <1>1, <1>2, <2>2, UpsJoined
  <2> HIDE DEF three
  <2>4. /\ four \in Seq(Strokes) /\ NoKeys(four) /\ NoDowns(four)
        /\ Acts(four, {}, K("ctrl") \cup K("alt") \cup K("logo") \cup K("level5"))
    BY <1>1, <1>2, <2>3, UpsJoined
  <2> HIDE DEF four
  <2>5. /\ five \in Seq(Strokes) /\ NoKeys(five) /\ NoDowns(five)
        /\ Acts(five, {}, K("ctrl") \cup K("alt") \cup K("logo") \cup K("level5") \cup K("altgr"))
    BY <1>1, <1>2, <2>4, UpsJoined
  <2> HIDE DEF five
  <2>6. /\ six \in Seq(Strokes) /\ NoKeys(six) /\ NoDowns(six)
        /\ Acts(six, {}, K("ctrl") \cup K("alt") \cup K("logo")
                           \cup K("level5") \cup K("altgr") \cup K("shift"))
    BY <1>1, <1>2, <2>5, UpsJoined
  <2> HIDE DEF six
  <2>7. Acts(six, {}, KeysOf(set, level3))
    BY <1>4, <2>6
  <2> QED  BY <1>3, <2>6, <2>7 DEF two, three, four, five, six
<1>7. /\ Lift(set, level3) \in Seq(Strokes)
      /\ NoKeys(Lift(set, level3)) /\ NoDowns(Lift(set, level3))
      /\ Acts(Lift(set, level3), {}, KeysOf(set, level3))
  <2> DEFINE two == U("shift") \o U("altgr")
             three == two \o U("level5")
             four == three \o U("logo")
             five == four \o U("alt")
             six == five \o U("ctrl")
  <2>2. /\ two \in Seq(Strokes) /\ NoKeys(two) /\ NoDowns(two)
        /\ Acts(two, {}, K("shift") \cup K("altgr"))
    BY <1>1, <1>2, UpsJoined
  <2> HIDE DEF two
  <2>3. /\ three \in Seq(Strokes) /\ NoKeys(three) /\ NoDowns(three)
        /\ Acts(three, {}, K("shift") \cup K("altgr") \cup K("level5"))
    BY <1>1, <1>2, <2>2, UpsJoined
  <2> HIDE DEF three
  <2>4. /\ four \in Seq(Strokes) /\ NoKeys(four) /\ NoDowns(four)
        /\ Acts(four, {}, K("shift") \cup K("altgr") \cup K("level5") \cup K("logo"))
    BY <1>1, <1>2, <2>3, UpsJoined
  <2> HIDE DEF four
  <2>5. /\ five \in Seq(Strokes) /\ NoKeys(five) /\ NoDowns(five)
        /\ Acts(five, {}, K("shift") \cup K("altgr") \cup K("level5") \cup K("logo") \cup K("alt"))
    BY <1>1, <1>2, <2>4, UpsJoined
  <2> HIDE DEF five
  <2>6. /\ six \in Seq(Strokes) /\ NoKeys(six) /\ NoDowns(six)
        /\ Acts(six, {}, K("shift") \cup K("altgr") \cup K("level5")
                           \cup K("logo") \cup K("alt") \cup K("ctrl"))
    BY <1>1, <1>2, <2>5, UpsJoined
  <2> HIDE DEF six
  <2>7. Acts(six, {}, KeysOf(set, level3))
    BY <1>4, <2>6
  <2> QED  BY <1>3, <2>6, <2>7 DEF two, three, four, five, six
<1> QED  BY <1>5, <1>6, <1>7

-----------------------------------------------------------------------------
(* The ledger's states, and what they say is down. *)
Values == {"idle", "latched", "locked"}
Pendings == [position : Positions \cup {""}, wrap : SUBSET Modifiers,
             restore : SUBSET Modifiers, level3 : BOOLEAN, stamp : Nat]
Ledgers == [mods : [Modifiers -> Values], caps : BOOLEAN, pending : Pendings,
            lastClick : Values \cup {"none"}, prevClick : Values \cup {"none"}]
Locked(s) == InState(s, "locked")
Chord(p) == IF p = NoPending THEN {} ELSE {p.position} \cup KeysOf(p.wrap, p.level3)
HeldBy(s) == (Locked(s) \ s.pending.restore) \cup Chord(s.pending)
Regular(s) ==
    /\ s \in Ledgers
    /\ Locked(s) \subseteq {"shift"} /\ s.mods["level5"] = "idle"
    /\ s.pending.restore \subseteq Locked(s)
    /\ "shift" \in Locked(s) => "shift" \notin s.pending.wrap
    /\ s.pending = NoPending \/ s.pending.position \in Positions

(* An event from s to t whose lines w are these: what went down is held by t, what s held
   is held by t or lifted, and (`sure`) a lock t shows is put down or left down. *)
Covers(s, t, w, sure) ==
    /\ w \in Seq(Strokes)
    /\ \E down, up :
        /\ Acts(w, down, up)
        /\ down \subseteq HeldBy(t) /\ HeldBy(s) \subseteq HeldBy(t) \cup up
        /\ sure /\ "shift" \in Locked(t) \ t.pending.restore =>
             \/ "shift" \in down
             \/ "shift" \notin up /\ "shift" \in Locked(s) \ s.pending.restore

(* A run of lines that types one key under the modifiers of a set, from the locks. *)
Types(s, w, set) ==
    \E pre, post \in Seq(Strokes), key \in KeyNames \ ModifierKeys : \E down, up :
        /\ w = (pre \o <<Down(key)>>) \o post
        /\ NoKeys(pre) /\ NoKeys(post)
        /\ Acts(pre, down, up)
        /\ set = down \cup (Locked(s) \ up)

(* Two events one after the other are covered by their lines. *)
LEMMA CoversInTurn ==
    ASSUME NEW s, NEW t, NEW r, NEW a, NEW b, NEW f \in BOOLEAN,
           Covers(s, t, a, f), Covers(t, r, b, f)
    PROVE  Covers(s, r, a \o b, f)
<1>1. PICK d1, u1 : /\ Acts(a, d1, u1)
                    /\ d1 \subseteq HeldBy(t) /\ HeldBy(s) \subseteq HeldBy(t) \cup u1
                    /\ f /\ "shift" \in Locked(t) \ t.pending.restore =>
                         \/ "shift" \in d1
                         \/ "shift" \notin u1 /\ "shift" \in Locked(s) \ s.pending.restore
  BY DEF Covers
<1>2. PICK d2, u2 : /\ Acts(b, d2, u2)
                    /\ d2 \subseteq HeldBy(r) /\ HeldBy(t) \subseteq HeldBy(r) \cup u2
                    /\ f /\ "shift" \in Locked(r) \ r.pending.restore =>
                         \/ "shift" \in d2
                         \/ "shift" \notin u2 /\ "shift" \in Locked(t) \ t.pending.restore
  BY DEF Covers
<1> DEFINE d == (d1 \ u2) \cup d2
           u == (u1 \ d2) \cup u2
<1>3. a \in Seq(Strokes) /\ b \in Seq(Strokes)
  BY DEF Covers
<1>4. a \o b \in Seq(Strokes) /\ Acts(a \o b, d, u)
  BY <1>1, <1>2, <1>3, ActsInTurn
<1>5. d \subseteq HeldBy(r) /\ HeldBy(s) \subseteq HeldBy(r) \cup u
  BY <1>1, <1>2
<1>6. f /\ "shift" \in Locked(r) \ r.pending.restore =>
        \/ "shift" \in d
        \/ "shift" \notin u /\ "shift" \in Locked(s) \ s.pending.restore
  <2>1. d2 \cap u2 = {} /\ d1 \cap u1 = {}
    BY <1>1, <1>2 DEF Acts
  <2> QED  BY <1>1, <1>2, <2>1
<1> HIDE DEF d, u
<1> QED  BY <1>4, <1>5, <1>6 DEF Covers

(* The locks are their own keys. *)
LEMMA LockKeys ==
    ASSUME NEW set, set \subseteq {"shift"}, NEW level3
    PROVE  KeysOf(set, level3) = set
  BY DEF KeysOf, KeyOf

(* Nothing under the button. *)
LEMMA NoPendingIs ==
    /\ NoPending \in Pendings
    /\ NoPending.position = "" /\ NoPending.wrap = {} /\ NoPending.restore = {}
  BY DEF NoPending, Pendings

-----------------------------------------------------------------------------
(* A press. *)
LEMMA SpentLatches ==
    ASSUME NEW s, Regular(s)
    PROVE  LET t == spendLatches(s)
           IN  /\ Regular(t) /\ t.pending = s.pending /\ t.caps = s.caps
               /\ Locked(t) = Locked(s) /\ HeldBy(t) = HeldBy(s)
               /\ t = [s EXCEPT !.mods = t.mods] /\ t.mods \in [Modifiers -> Values]
<1> DEFINE v == [m \in Modifiers |-> IF s.mods[m] = "latched" THEN "idle" ELSE s.mods[m]]
           t == [s EXCEPT !.mods = v]
<1>1. s \in Ledgers /\ s.mods \in [Modifiers -> Values]
  BY DEF Regular, Ledgers
<1>2. v \in [Modifiers -> Values] /\ \A m \in Modifiers : v[m] = "locked" <=> s.mods[m] = "locked"
  BY <1>1 DEF Values
<1>3. "level5" \in Modifiers /\ v["level5"] = "idle"
  BY DEF Modifiers, Regular
<1>4. spendLatches(s) = t
  BY <1>1 DEF spendLatches
<1> HIDE DEF v
<1>5. t \in Ledgers /\ t.pending = s.pending /\ t.caps = s.caps /\ t.mods = v
  BY <1>1, <1>2 DEF Ledgers
<1> HIDE DEF t
<1>6. Locked(t) = Locked(s)
  BY <1>2, <1>5 DEF Locked, InState
<1>7. HeldBy(t) = HeldBy(s) /\ Regular(t)
  BY <1>3, <1>5, <1>6 DEF HeldBy, Regular
<1> QED  BY <1>2, <1>4, <1>5, <1>6, <1>7 DEF t

(* What Meant says, of any ledger. *)
ActiveIn(s, m) == s.mods[m] \in {"latched", "locked"}
ShiftMeantIn(s, cap) ==
    IF cap.exact THEN cap.shift
    ELSE IF ActiveIn(s, "shift") THEN ~(s.caps /\ cap.letter)
    ELSE cap.shift \/ (s.caps /\ cap.letter)
MeantIn(s, cap) ==
    {m \in {"ctrl", "alt", "logo"} : ActiveIn(s, m)}
        \cup (IF cap.level5 THEN {"level5"} ELSE {})
        \cup (IF cap.altgr \/ (~cap.exact /\ ActiveIn(s, "altgr"))
             THEN {KeyOf("altgr", cap.level3)} ELSE {})
        \cup (IF ShiftMeantIn(s, cap) THEN {"shift"} ELSE {})

(* The chord of a press, and the lock it lifts. *)
Wrap(s, cap) == latchesInChord(s, cap)
                  \cup (IF shiftForPress(s, cap) = "wrap" THEN {"shift"} ELSE {})
                  \cup (IF cap.altgr THEN {"altgr"} ELSE {})
                  \cup (IF cap.level5 THEN {"level5"} ELSE {})
Around(s, cap) == IF shiftForPress(s, cap) = "lift-around" THEN {"shift"} ELSE {}

(* What the assumption on the caps says of one. *)
LEMMA CapIs ==
    ASSUME NEW cap \in Caps
    PROVE  /\ cap.letter \in BOOLEAN /\ cap.shift \in BOOLEAN /\ cap.altgr \in BOOLEAN
           /\ cap.level5 \in BOOLEAN /\ cap.level3 \in BOOLEAN /\ cap.exact \in BOOLEAN
           /\ cap.position \in Positions /\ cap.position \in KeyNames
           /\ cap.position \notin ModifierKeys /\ cap.position # ""
  BY TypingAssumption DEF Positions, KeyNames

(* shiftForPress wraps Shift only when it is not locked, lifts it only when it is, and
   leaves it as the cap is drawn. *)
LEMMA ShiftPlan ==
    ASSUME NEW s, Regular(s), NEW cap \in Caps
    PROVE  LET plan == shiftForPress(s, cap)
           IN  /\ plan = "wrap" => s.mods["shift"] # "locked"
               /\ plan = "lift-around" => s.mods["shift"] = "locked"
               /\ ShiftMeantIn(s, cap) <=>
                    \/ plan = "wrap"
                    \/ s.mods["shift"] = "locked" /\ plan # "lift-around"
<1>1. s.mods["shift"] \in Values /\ s.caps \in BOOLEAN
  BY DEF Regular, Ledgers, Modifiers
<1>2. cap.letter \in BOOLEAN /\ cap.shift \in BOOLEAN /\ cap.exact \in BOOLEAN
  BY CapIs
<1> DEFINE x == s.mods["shift"]
<1>3. CASE cap.exact
  BY <1>1, <1>2, <1>3 DEF shiftForPress, ShiftMeantIn, Values
<1>4. CASE ~cap.exact /\ x = "locked"
  BY <1>1, <1>2, <1>4 DEF shiftForPress, ShiftMeantIn, ActiveIn
<1>5. CASE ~cap.exact /\ x = "latched"
  BY <1>1, <1>2, <1>5 DEF shiftForPress, ShiftMeantIn, ActiveIn, shiftWanted
<1>6. CASE ~cap.exact /\ x = "idle"
  BY <1>1, <1>2, <1>6 DEF shiftForPress, ShiftMeantIn, ActiveIn, shiftWanted
<1> QED  BY <1>1, <1>3, <1>4, <1>5, <1>6 DEF Values

(* The chord of a press, with the locks it leaves alone, is what the cap is drawn with. *)
LEMMA PressTyped ==
    ASSUME NEW s, Regular(s), NEW cap \in Caps
    PROVE  /\ Wrap(s, cap) \in SUBSET Modifiers /\ Around(s, cap) \in SUBSET Modifiers
           /\ Around(s, cap) \subseteq Locked(s)
           /\ "shift" \in Wrap(s, cap) <=> shiftForPress(s, cap) = "wrap"
           /\ "shift" \in Locked(s) => "shift" \notin Wrap(s, cap)
           /\ Locked(s) \subseteq {"shift"}
           /\ KeysOf(Wrap(s, cap), cap.level3) \cup (Locked(s) \ Around(s, cap)) = MeantIn(s, cap)
<1>1. /\ s.mods \in [Modifiers -> Values] /\ Locked(s) \subseteq {"shift"}
      /\ s.mods["level5"] = "idle" /\ s.caps \in BOOLEAN
  BY DEF Regular, Ledgers
<1>2. \A m \in Modifiers : s.mods[m] = "locked" <=> m \in Locked(s)
  BY DEF Locked, InState
<1>3. latchesInChord(s, cap) \subseteq Modifiers /\ "shift" \notin latchesInChord(s, cap)
  BY DEF latchesInChord, InState
<1>4. {"shift", "altgr", "level5"} \subseteq Modifiers
  BY DEF Modifiers
<1>5. Wrap(s, cap) \in SUBSET Modifiers /\ Around(s, cap) \in SUBSET Modifiers
  BY <1>3, <1>4 DEF Wrap, Around
<1>6. Around(s, cap) \subseteq Locked(s)
  BY <1>2, <1>4, ShiftPlan DEF Around
<1>7. "shift" \in Wrap(s, cap) <=> shiftForPress(s, cap) = "wrap"
  BY <1>3 DEF Wrap
<1>8. "shift" \in Locked(s) => "shift" \notin Wrap(s, cap)
  BY <1>2, <1>4, <1>7, ShiftPlan
<1>9. KeysOf(Wrap(s, cap), cap.level3) \cup (Locked(s) \ Around(s, cap)) = MeantIn(s, cap)
  <2> DEFINE w == Wrap(s, cap)
             k == KeysOf(w, cap.level3)
             lock == Locked(s) \ Around(s, cap)
             key == KeyOf("altgr", cap.level3)
  <2>1. \A m \in {"ctrl", "alt", "logo"} : m \in w <=> ActiveIn(s, m)
    BY <1>1, <1>2 DEF Wrap, latchesInChord, InState, ActiveIn, Modifiers, Values
  <2>2. "level5" \in w <=> cap.level5
    BY <1>1 DEF Wrap, latchesInChord, InState
  <2>3. "altgr" \in w <=> cap.altgr \/ (~cap.exact /\ ActiveIn(s, "altgr"))
    BY <1>1, <1>2 DEF Wrap, latchesInChord, InState, ActiveIn, Modifiers, Values
  <2>4. "shift" \in w \/ "shift" \in lock <=> ShiftMeantIn(s, cap)
    <3>1. "shift" \in lock <=> s.mods["shift"] = "locked" /\ shiftForPress(s, cap) # "lift-around"
      BY <1>2, <1>4 DEF Around
    <3> QED  BY <3>1, <1>7, ShiftPlan
  <2>5. lock \subseteq {"shift"} /\ w \subseteq Modifiers
    BY <1>1, <1>5
  <2>6. /\ \A m \in {"ctrl", "alt", "logo", "level5", "shift"} : m \in k <=> m \in w
        /\ key \in k <=> "altgr" \in w
        /\ k \subseteq {"ctrl", "alt", "logo", "level5", "shift", key}
        /\ key \notin {"ctrl", "alt", "logo", "level5", "shift"}
    BY <2>5 DEF KeysOf, KeyOf, Modifiers
  <2> HIDE DEF k, w, lock, key
  <2>7. /\ \A m \in {"ctrl", "alt", "logo"} : m \in MeantIn(s, cap) <=> ActiveIn(s, m)
        /\ "level5" \in MeantIn(s, cap) <=> cap.level5
        /\ key \in MeantIn(s, cap) <=> cap.altgr \/ (~cap.exact /\ ActiveIn(s, "altgr"))
        /\ "shift" \in MeantIn(s, cap) <=> ShiftMeantIn(s, cap)
        /\ MeantIn(s, cap) \subseteq {"ctrl", "alt", "logo", "level5", "shift", key}
    BY <2>6 DEF MeantIn, key
  <2>8. \A x : x \in k \cup lock <=> x \in MeantIn(s, cap)
    BY <2>1, <2>2, <2>3, <2>4, <2>5, <2>6, <2>7
  <2>9. k \cup lock = MeantIn(s, cap)
    BY <2>8
  <2> QED  BY <2>9 DEF k, w, lock
<1> QED  BY <1>1, <1>5, <1>6, <1>7, <1>8, <1>9

(* A cap typed from no key down: the ledger holds its chord, its lines put down
   exactly that, and the key goes down under what its cap is drawn with. *)
LEMMA PressIs ==
    ASSUME NEW s, Regular(s), s.pending = NoPending, NEW cap \in Caps, NEW n \in Nat,
           NEW out, out = press(s, cap, n)
    PROVE  /\ Regular(out.state) /\ Covers(s, out.state, out.lines, TRUE)
           /\ Types(s, out.lines, MeantIn(s, cap))
<1> DEFINE t == out.state
           w == Wrap(s, cap)
           r == Around(s, cap)
           p == [position |-> cap.position, wrap |-> w, restore |-> r,
                 level3 |-> cap.level3, stamp |-> n]
           k == KeysOf(w, cap.level3)
           up == Lift(r, cap.level3)
           down == Lines("down", w, cap.level3)
           q == spendLatches(s)
<1>1. out = [state |-> [q EXCEPT !.pending = p],
             lines |-> up \o down \o <<Down(cap.position)>>]
  BY DEF press, Wrap, Around
<1>2. t = [q EXCEPT !.pending = p] /\ out.lines = (up \o down) \o <<Down(cap.position)>>
  BY <1>1
<1>3. /\ Regular(q) /\ q.pending = NoPending /\ Locked(q) = Locked(s)
  BY SpentLatches
<1>4. /\ w \in SUBSET Modifiers /\ r \in SUBSET Modifiers /\ r \subseteq Locked(s)
      /\ "shift" \in Locked(s) => "shift" \notin w
      /\ Locked(s) \subseteq {"shift"}
      /\ k \cup (Locked(s) \ r) = MeantIn(s, cap)
  BY PressTyped
<1>5. /\ cap.position \in Positions /\ cap.position \in KeyNames /\ cap.position # ""
      /\ cap.position \notin ModifierKeys /\ cap.level3 \in BOOLEAN
  BY CapIs
<1> HIDE DEF q, w, r
<1>6. /\ p \in Pendings /\ p.wrap = w /\ p.restore = r
      /\ p.position = cap.position /\ p.level3 = cap.level3
  BY <1>4, <1>5 DEF Pendings
<1>7. p # NoPending
  BY <1>5, <1>6, NoPendingIs
<1> HIDE DEF p
<1>8. t \in Ledgers /\ t.pending = p /\ t.mods = q.mods
  BY <1>2, <1>3, <1>6 DEF Regular, Ledgers
<1> HIDE DEF t
<1>9. Locked(t) = Locked(s)
  BY <1>3, <1>8 DEF Locked, InState
<1>10. Regular(t)
  BY <1>3, <1>4, <1>5, <1>6, <1>8, <1>9 DEF Regular
<1>11. HeldBy(t) = (Locked(s) \ r) \cup {cap.position} \cup k
  BY <1>6, <1>7, <1>8, <1>9 DEF HeldBy, Chord
<1>12. HeldBy(s) = Locked(s)
  BY NoPendingIs DEF HeldBy, Chord
<1>13. /\ up \in Seq(Strokes) /\ Acts(up, {}, KeysOf(r, cap.level3)) /\ NoKeys(up)
       /\ down \in Seq(Strokes) /\ Acts(down, k, {}) /\ NoKeys(down)
  BY <1>4, LinesAct
<1>14. KeysOf(r, cap.level3) = r
  BY <1>4, LockKeys
<1>15. r \cap k = {} /\ k \subseteq ModifierKeys
  BY <1>4, KeysAre
<1> HIDE DEF up, down, k
<1>16. /\ up \o down \in Seq(Strokes) /\ NoKeys(up \o down) /\ Acts(up \o down, k, r)
  <2>1. ({} \ {}) \cup k = k /\ (r \ k) \cup {} = r
    BY <1>15
  <2>2. Acts(up, {}, r)
    BY <1>13, <1>14
  <2> QED  BY <1>13, <2>1, <2>2, ActsInTurn, NoneJoined, Joined
<1> DEFINE pre == up \o down
<1>17. out.lines = pre \o <<Down(cap.position)>>
  BY <1>2
<1>18. pre \in Seq(Strokes) /\ NoKeys(pre) /\ Acts(pre, k, r)
  BY <1>16
<1> HIDE DEF pre
<1>19. <<Down(cap.position)>> \in Seq(Strokes) /\ Acts(<<Down(cap.position)>>, {cap.position}, {})
  BY <1>5, OneActs
<1>20. Covers(s, t, out.lines, TRUE)
  <2>1. (k \ {}) \cup {cap.position} = k \cup {cap.position} /\ (r \ {cap.position}) \cup {} = r
    BY <1>4, <1>5, <1>15 DEF ModifierKeys, Modifiers
  <2>2. Acts(out.lines, k \cup {cap.position}, r)
    <3>1. Acts(pre \o <<Down(cap.position)>>,
               (k \ {}) \cup {cap.position}, (r \ {cap.position}) \cup {})
      BY <1>18, <1>19, ActsInTurn
    <3> QED  BY <1>17, <2>1, <3>1
  <2>3. out.lines \in Seq(Strokes)
    BY <1>17, <1>18, <1>19, Joined
  <2>4. k \cup {cap.position} \subseteq HeldBy(t) /\ HeldBy(s) \subseteq HeldBy(t) \cup r
    BY <1>11, <1>12
  <2>5. "shift" \in Locked(t) \ t.pending.restore
          => "shift" \notin r /\ "shift" \in Locked(s) \ s.pending.restore
    BY <1>6, <1>8, <1>9, NoPendingIs
  <2> QED  BY <2>2, <2>3, <2>4, <2>5 DEF Covers
<1>21. Types(s, out.lines, MeantIn(s, cap))
  <2>1. out.lines = (pre \o <<Down(cap.position)>>) \o <<>>
    BY <1>17, <1>18, <1>19, Joined
  <2>2. <<>> \in Seq(Strokes) /\ NoKeys(<<>>) /\ cap.position \in KeyNames \ ModifierKeys
    BY <1>5, OneActs
  <2>3. MeantIn(s, cap) = k \cup (Locked(s) \ r)
    BY <1>4 DEF k
  <2> QED  BY <1>18, <2>1, <2>2, <2>3 DEF Types
<1> QED  BY <1>10, <1>20, <1>21 DEF t

(* ActsInTurn, with the sets named. *)
LEMMA JoinAct ==
    ASSUME NEW a \in Seq(Strokes), NEW b \in Seq(Strokes), NEW d1, NEW u1, NEW d2, NEW u2,
           Acts(a, d1, u1), Acts(b, d2, u2), NEW d, NEW u,
           d = (d1 \ u2) \cup d2, u = (u1 \ d2) \cup u2
    PROVE  a \o b \in Seq(Strokes) /\ Acts(a \o b, d, u)
  BY ActsInTurn, Joined

(* What a regular ledger says of its parts. *)
LEMMA LedgerIs ==
    ASSUME NEW s, Regular(s)
    PROVE  /\ s.pending \in Pendings /\ s.mods \in [Modifiers -> Values] /\ s.caps \in BOOLEAN
           /\ s.pending.position \in KeyNames
           /\ s.pending.wrap \in SUBSET Modifiers /\ s.pending.restore \in SUBSET Modifiers
           /\ s.pending.restore \subseteq {"shift"} /\ s.pending.restore \subseteq Locked(s)
           /\ Locked(s) \subseteq {"shift"}
           /\ KeysOf(s.pending.wrap, s.pending.level3) \subseteq ModifierKeys
           /\ "shift" \in Locked(s) =>
                "shift" \notin KeysOf(s.pending.wrap, s.pending.level3)
           /\ "shift" \in KeyNames /\ "shift" \in ModifierKeys /\ "shift" \in Modifiers
           /\ s.pending.position \notin ModifierKeys
<1>1. s \in Ledgers /\ s.pending \in Pendings
  BY DEF Regular, Ledgers
<1>2. s.pending.position \in Positions \cup {""} /\ s.pending.wrap \in SUBSET Modifiers
      /\ s.pending.restore \in SUBSET Modifiers
  BY <1>1 DEF Pendings
<1>3. "" \notin ModifierKeys /\ "shift" \in Modifiers
  BY DEF ModifierKeys, Modifiers
<1>4. \A x \in Positions : x \notin ModifierKeys
  BY TypingAssumption DEF Positions
<1>5. s.mods \in [Modifiers -> Values] /\ s.caps \in BOOLEAN
  BY <1>1 DEF Ledgers
<1>6. s.pending.position \in KeyNames /\ s.pending.position \notin ModifierKeys
  BY <1>2, <1>3, <1>4 DEF KeyNames
<1>7. /\ s.pending.restore \subseteq Locked(s) /\ Locked(s) \subseteq {"shift"}
      /\ "shift" \in Locked(s) => "shift" \notin s.pending.wrap
  BY DEF Regular
<1>8. /\ KeysOf(s.pending.wrap, s.pending.level3) \subseteq ModifierKeys
      /\ "shift" \in KeysOf(s.pending.wrap, s.pending.level3) <=> "shift" \in s.pending.wrap
  BY <1>2, KeysAre
<1>9. "shift" \in KeyNames /\ "shift" \in ModifierKeys
  BY <1>3 DEF KeyNames, ModifierKeys
<1> QED  BY <1>1, <1>2, <1>3, <1>5, <1>6, <1>7, <1>8, <1>9

(* The lines that let a chord go. *)
ChordUps(p) == <<Up(p.position)>> \o Lift(p.wrap, p.level3)

(* The lines of a release lift the key and its chord. *)
LEMMA ChordUpsAct ==
    ASSUME NEW s, Regular(s)
    PROVE  LET p == s.pending
               w == ChordUps(p)
           IN  /\ w \in Seq(Strokes) /\ NoDowns(w) /\ NoKeys(w)
               /\ Acts(w, {}, {p.position} \cup KeysOf(p.wrap, p.level3))
<1> DEFINE p == s.pending
           k == KeysOf(p.wrap, p.level3)
           a == <<Up(p.position)>>
           b == Lift(p.wrap, p.level3)
<1>1. p.position \in KeyNames /\ p.wrap \in SUBSET Modifiers
  BY LedgerIs
<1>2. a \in Seq(Strokes) /\ Acts(a, {}, {p.position}) /\ NoDowns(a) /\ NoKeys(a)
  BY <1>1, OneActs
<1>3. b \in Seq(Strokes) /\ Acts(b, {}, k) /\ NoDowns(b) /\ NoKeys(b)
  BY <1>1, LinesAct
<1> QED  BY <1>2, <1>3, UpsJoined DEF ChordUps

(* A release: the chord is let go, and a lock lifted for it goes back down. *)
LEMMA ReleaseIs ==
    ASSUME NEW s, Regular(s), NEW f \in BOOLEAN, NEW out, out = release(s, f)
    PROVE  /\ Regular(out.state) /\ out.state.pending = NoPending
           /\ out.state.mods = s.mods /\ out.state.caps = s.caps
           /\ Covers(s, out.state, out.lines, FALSE)
           /\ f \/ s.pending.restore = {} => Covers(s, out.state, out.lines, TRUE)
           /\ NoKeys(out.lines) /\ (~f => NoDowns(out.lines))
           /\ s.pending = NoPending => NoDowns(out.lines)
<1> DEFINE p == s.pending
           k == KeysOf(p.wrap, p.level3)
           t == out.state
<1>1. CASE p = NoPending
  <2>1. out.state = s /\ out.lines = <<>>
    BY <1>1 DEF release
  <2>2. <<>> \in Seq(Strokes) /\ Acts(<<>>, {}, {}) /\ NoDowns(<<>>) /\ NoKeys(<<>>)
    BY LedgerIs, OneActs
  <2>3. Covers(s, s, <<>>, TRUE) /\ Covers(s, s, <<>>, FALSE)
    BY <2>2 DEF Covers
  <2> QED  BY <1>1, <2>1, <2>2, <2>3
<1>2. CASE p # NoPending
  <2> DEFINE a == ChordUps(p)
             b == IF f THEN Lines("down", p.restore, p.level3) ELSE <<>>
             d == IF f THEN p.restore ELSE {}
  <2>1. out = [state |-> [s EXCEPT !.pending = NoPending],
               lines |-> <<Up(p.position)>> \o Lift(p.wrap, p.level3) \o b]
    BY <1>2 DEF release
  <2>2. t = [s EXCEPT !.pending = NoPending] /\ out.lines = a \o b
    <3> HIDE DEF b
    <3> QED  BY <2>1 DEF ChordUps
  <2>3. /\ t \in Ledgers /\ t.pending = NoPending /\ t.mods = s.mods /\ t.caps = s.caps
    BY <2>2, NoPendingIs DEF Regular, Ledgers
  <2>4. Locked(t) = Locked(s)
    BY <2>3 DEF Locked, InState
  <2>5. Regular(t)
    BY <2>3, <2>4, NoPendingIs DEF Regular
  <2>6. HeldBy(t) = Locked(s)
    BY <2>3, <2>4, NoPendingIs DEF HeldBy, Chord
  <2>7. HeldBy(s) = (Locked(s) \ p.restore) \cup {p.position} \cup k
    BY <1>2 DEF HeldBy, Chord
  <2>8. a \in Seq(Strokes) /\ NoDowns(a) /\ NoKeys(a) /\ Acts(a, {}, {p.position} \cup k)
    BY ChordUpsAct
  <2>9. b \in Seq(Strokes) /\ NoKeys(b) /\ Acts(b, d, {}) /\ (~f => NoDowns(b))
    <3>1. p.restore \in SUBSET Modifiers /\ KeysOf(p.restore, p.level3) = p.restore
      BY LedgerIs, LockKeys
    <3>2. CASE f
      BY <3>1, <3>2, LinesAct
    <3>3. CASE ~f
      BY <3>3, LedgerIs, OneActs
    <3> QED  BY <3>2, <3>3
  <2> HIDE DEF a, b
  <2> DEFINE u == ({p.position} \cup k) \ d
  <2>10. out.lines \in Seq(Strokes) /\ Acts(out.lines, d, u)
    <3>1. d = ({} \ {}) \cup d /\ u = (({p.position} \cup k) \ d) \cup {}
      OBVIOUS
    <3> HIDE DEF d, u
    <3> QED  BY <2>2, <2>8, <2>9, <3>1, JoinAct
  <2>11. d \subseteq HeldBy(t) /\ HeldBy(s) \subseteq HeldBy(t) \cup u
    BY <2>6, <2>7, LedgerIs
  <2>12. f \/ p.restore = {} =>
          ("shift" \in Locked(t) \ t.pending.restore =>
             \/ "shift" \in d
             \/ "shift" \notin u /\ "shift" \in Locked(s) \ s.pending.restore)
    BY <2>4, LedgerIs
  <2> HIDE DEF d, u, t
  <2>13. /\ Covers(s, t, out.lines, FALSE)
         /\ f \/ p.restore = {} => Covers(s, t, out.lines, TRUE)
    BY <2>10, <2>11, <2>12 DEF Covers
  <2>14. NoKeys(out.lines) /\ (~f => NoDowns(out.lines))
    BY <2>2, <2>8, <2>9, NoneJoined
  <2> QED  BY <1>2, <2>3, <2>5, <2>13, <2>14 DEF t
<1> QED  BY <1>1, <1>2

(* No line is needed where nothing that is down changes. *)
LEMMA UntouchedCovers ==
    ASSUME NEW s, Regular(s), NEW t, HeldBy(t) = HeldBy(s), Locked(t) = Locked(s),
           t.pending = s.pending
    PROVE  Covers(s, t, <<>>, TRUE)
<1>1. <<>> \in Seq(Strokes) /\ Acts(<<>>, {}, {})
  BY LedgerIs, OneActs
<1> QED  BY <1>1 DEF Covers

(* One modifier changes state, with no chord in its way. *)
LEMMA TransitionIs ==
    ASSUME NEW s, Regular(s), s.pending = NoPending, NEW m \in Clickable, NEW v \in Values,
           v = "locked" => m = "shift", NEW out, out = transition(s, m, v)
    PROVE  /\ Regular(out.state) /\ out.state.pending = NoPending
           /\ Covers(s, out.state, out.lines, TRUE) /\ NoKeys(out.lines)
<1> DEFINE t == [s EXCEPT !.mods[m] = v]
           w == IF (s.mods[m] = "locked") = (v = "locked") THEN <<>>
                ELSE IF v = "locked" THEN <<Down(m)>> ELSE <<Up(m)>>
<1>1. out.state = t /\ out.lines = w
  BY DEF transition
<1>2. s \in Ledgers /\ s.mods \in [Modifiers -> Values] /\ m \in Modifiers /\ m # "level5"
  BY DEF Regular, Ledgers, Clickable
<1>3. /\ t \in Ledgers /\ t.pending = NoPending /\ t.mods = [s.mods EXCEPT ![m] = v]
  BY <1>2 DEF Ledgers
<1> HIDE DEF t
<1>4. Locked(t) = IF v = "locked" THEN Locked(s) \cup {m} ELSE Locked(s) \ {m}
  BY <1>2, <1>3 DEF Locked, InState
<1>5. s.mods[m] = "locked" <=> m \in Locked(s)
  BY <1>2 DEF Locked, InState
<1>6. Regular(t)
  BY <1>2, <1>3, <1>4, NoPendingIs DEF Regular, Modifiers
<1>7. HeldBy(t) = Locked(t) /\ HeldBy(s) = Locked(s)
  BY <1>3, NoPendingIs DEF HeldBy, Chord
<1>8. m \in KeyNames /\ m \in ModifierKeys
  BY <1>2 DEF KeyNames, ModifierKeys
<1>9. Covers(s, t, w, TRUE) /\ NoKeys(w)
  <2>1. CASE (s.mods[m] = "locked") = (v = "locked")
    <3>1. w = <<>> /\ Locked(t) = Locked(s)
      BY <2>1, <1>4, <1>5
    <3>2. <<>> \in Seq(Strokes) /\ Acts(<<>>, {}, {}) /\ NoKeys(<<>>)
      BY <1>8, OneActs
    <3> QED  BY <3>1, <3>2, <1>3, <1>7 DEF Covers
  <2>2. CASE v = "locked" /\ s.mods[m] # "locked"
    <3>1. w = <<Down(m)>> /\ Locked(t) = Locked(s) \cup {m}
      BY <2>2, <1>4
    <3>2. <<Down(m)>> \in Seq(Strokes) /\ Acts(<<Down(m)>>, {m}, {}) /\ NoKeys(<<Down(m)>>)
      BY <1>8, OneActs
    <3>3. m = "shift"
      BY <2>2
    <3> HIDE DEF w
    <3>4. {m} \subseteq HeldBy(t) /\ HeldBy(s) \subseteq HeldBy(t) \cup {}
      BY <3>1, <1>7
    <3> QED  BY <3>1, <3>2, <3>3, <3>4 DEF Covers
  <2>3. CASE v # "locked" /\ s.mods[m] = "locked"
    <3>1. w = <<Up(m)>> /\ Locked(t) = Locked(s) \ {m}
      BY <2>3, <1>4
    <3>2. <<Up(m)>> \in Seq(Strokes) /\ Acts(<<Up(m)>>, {}, {m}) /\ NoKeys(<<Up(m)>>)
      BY <1>8, OneActs
    <3>3. HeldBy(s) \subseteq HeldBy(t) \cup {m}
      BY <3>1, <1>7
    <3>4. "shift" \in Locked(t) => "shift" # m /\ "shift" \in Locked(s)
      BY <3>1
    <3> HIDE DEF w
    <3>5. {} \subseteq HeldBy(t) /\ s.pending.restore = {}
      BY NoPendingIs
    <3> QED  BY <3>1, <3>2, <3>3, <3>4, <3>5, <1>3 DEF Covers
  <2> QED  BY <2>1, <2>2, <2>3
<1> QED  BY <1>1, <1>3, <1>6, <1>9

(* The locks and the chord are all that a ledger says is down. *)
LEMMA HeldAlike ==
    ASSUME NEW s, Regular(s), NEW t \in Ledgers, t.pending = s.pending, t.mods = s.mods
    PROVE  Regular(t) /\ HeldBy(t) = HeldBy(s) /\ Locked(t) = Locked(s)
<1>1. Locked(t) = Locked(s)
  BY DEF Locked, InState
<1> QED  BY <1>1 DEF HeldBy, Regular

(* A click latches or lifts, and never locks. *)
LEMMA ClickIs ==
    ASSUME NEW s, Regular(s), s.pending = NoPending, NEW m \in Clickable,
           NEW out, out = click(s, m)
    PROVE  /\ Regular(out.state) /\ out.state.pending = NoPending
           /\ Covers(s, out.state, out.lines, TRUE) /\ NoKeys(out.lines)
<1> DEFINE v == IF s.mods[m] = "idle" THEN "latched" ELSE "idle"
           first == transition(s, m, v)
           a == IF m = "shift" THEN s.mods[m] ELSE NoClick
           b == IF m = "shift" THEN s.lastClick ELSE NoClick
           t == [first.state EXCEPT !.lastClick = a, !.prevClick = b]
<1>1. v \in Values /\ v # "locked"
  BY DEF Values
<1>2. /\ Regular(first.state) /\ first.state.pending = NoPending
      /\ Covers(s, first.state, first.lines, TRUE) /\ NoKeys(first.lines)
  <2>1. first = transition(s, m, v)
    OBVIOUS
  <2> HIDE DEF v, first
  <2> QED  BY <1>1, <2>1, TransitionIs
<1>3. a \in Values \cup {"none"} /\ b \in Values \cup {"none"}
  BY DEF Regular, Ledgers, NoClick, Clickable
<1>4. out.state = t /\ out.lines = first.lines
  <2>1. \E x, y : first = [state |-> x, lines |-> y]
    BY DEF transition
  <2>2. first.state \in Ledgers
    BY <1>2 DEF Regular
  <2>3. out = [first EXCEPT !.state.prevClick = b, !.state.lastClick = a]
    BY DEF click
  <2> HIDE DEF first, a, b
  <2>4. PICK x, y : first = [state |-> x, lines |-> y]
    BY <2>1
  <2>5. first.state = x /\ first.lines = y
    BY <2>4
  <2>6. out.state = [[x EXCEPT !.prevClick = b] EXCEPT !.lastClick = a] /\ out.lines = y
    BY <2>3, <2>4
  <2>7. [[x EXCEPT !.prevClick = b] EXCEPT !.lastClick = a]
          = [x EXCEPT !.lastClick = a, !.prevClick = b]
    BY <2>2, <2>5 DEF Ledgers
  <2> QED  BY <2>5, <2>6, <2>7
<1> HIDE DEF first, a, b
<1>5. /\ Regular(t) /\ t.pending = NoPending
      /\ HeldBy(t) = HeldBy(first.state) /\ Locked(t) = Locked(first.state)
  <2>1. first.state \in Ledgers
    BY <1>2 DEF Regular
  <2>2. t \in Ledgers /\ t.pending = first.state.pending /\ t.mods = first.state.mods
    BY <1>3, <2>1 DEF Ledgers
  <2> HIDE DEF t
  <2> QED  BY <1>2, <2>2, HeldAlike
<1> HIDE DEF t
<1>6. Covers(s, t, first.lines, TRUE)
  BY <1>2, <1>5 DEF Covers
<1> QED  BY <1>2, <1>4, <1>5, <1>6

(* What a double click adds: Shift locked, or lifted. *)
LEMMA DoubleClickIs ==
    ASSUME NEW s, Regular(s), s.pending = NoPending, NEW out, out = doubleClick(s, "shift")
    PROVE  /\ Regular(out.state) /\ out.state.pending = NoPending
           /\ Covers(s, out.state, out.lines, TRUE) /\ NoKeys(out.lines)
<1> DEFINE v == IF "shift" = "shift" /\ gestureOrigin(s) # "locked" THEN "locked" ELSE "idle"
           first == transition(s, "shift", v)
           t == [first.state EXCEPT !.lastClick = NoClick, !.prevClick = NoClick]
<1>1. v \in Values /\ "shift" \in Clickable /\ NoClick \in Values \cup {"none"}
  BY DEF Values, Clickable, Modifiers, NoClick
<1>2. /\ Regular(first.state) /\ first.state.pending = NoPending
      /\ Covers(s, first.state, first.lines, TRUE) /\ NoKeys(first.lines)
  <2>1. first = transition(s, "shift", v)
    OBVIOUS
  <2> HIDE DEF v, first
  <2> QED  BY <1>1, <2>1, TransitionIs
<1>3. out.state = t /\ out.lines = first.lines
  BY DEF doubleClick
<1> HIDE DEF first
<1>5. /\ Regular(t) /\ t.pending = NoPending
      /\ HeldBy(t) = HeldBy(first.state) /\ Locked(t) = Locked(first.state)
  <2>1. first.state \in Ledgers
    BY <1>2 DEF Regular
  <2>2. t \in Ledgers /\ t.pending = first.state.pending /\ t.mods = first.state.mods
    BY <1>1, <2>1 DEF Ledgers
  <2> HIDE DEF t
  <2> QED  BY <1>2, <2>2, HeldAlike
<1> HIDE DEF t
<1>6. Covers(s, t, first.lines, TRUE)
  BY <1>2, <1>5 DEF Covers
<1> QED  BY <1>2, <1>3, <1>5, <1>6

(* Caps is not a key at the device. *)
LEMMA CapsClickIs ==
    ASSUME NEW s, Regular(s)
    PROVE  LET t == capsClick(s)
           IN  Regular(t) /\ t.pending = s.pending /\ HeldBy(t) = HeldBy(s) /\ Locked(t) = Locked(s)
<1> DEFINE t == [s EXCEPT !.caps = ~s.caps]
<1>1. s \in Ledgers
  BY DEF Regular
<1>2. t \in Ledgers /\ t.pending = s.pending /\ t.mods = s.mods
  BY <1>1 DEF Ledgers
<1>3. capsClick(s) = t
  BY DEF capsClick
<1> HIDE DEF t
<1> QED  BY <1>2, <1>3, HeldAlike

(* The ledger with every modifier idle. *)
FreshWith(caps, p) == [initialState EXCEPT !.caps = caps, !.pending = p]

(* A ledger made new with a chord holds that chord. *)
LEMMA FreshIs ==
    ASSUME NEW caps \in BOOLEAN, NEW p \in Pendings, p.restore = {},
           p = NoPending \/ p.position \in Positions,
           NEW t, t = FreshWith(caps, p)
    PROVE  Regular(t) /\ t.pending = p /\ Locked(t) = {} /\ HeldBy(t) = Chord(p)
<1>1. t = [mods |-> [m \in Modifiers |-> "idle"], caps |-> caps, pending |-> p,
           lastClick |-> "none", prevClick |-> "none"]
  BY DEF FreshWith, initialState, NoClick
<1>2. /\ t \in Ledgers /\ t.pending = p /\ t.mods = [m \in Modifiers |-> "idle"]
  <2> DEFINE z == [m \in Modifiers |-> "idle"]
  <2>1. z \in [Modifiers -> Values]
    BY DEF Values
  <2>2. t = [mods |-> z, caps |-> caps, pending |-> p, lastClick |-> "none", prevClick |-> "none"]
    BY <1>1
  <2> HIDE DEF z
  <2>3. t.pending = p /\ t.mods = z
    BY <2>2
  <2>4. t \in Ledgers
    BY <2>1, <2>2 DEF Ledgers
  <2> QED  BY <2>3, <2>4 DEF z
<1>3. Locked(t) = {} /\ t.mods["level5"] = "idle"
  BY <1>2 DEF Locked, InState, Modifiers
<1>4. Regular(t)
  BY <1>2, <1>3 DEF Regular
<1>5. HeldBy(t) = Chord(p)
  BY <1>2, <1>3 DEF HeldBy
<1> QED  BY <1>2, <1>3, <1>4, <1>5

(* The panel closed: everything goes up. *)
LEMMA ReleaseAllIs ==
    ASSUME NEW s, Regular(s), NEW out, out = releaseAll(s)
    PROVE  /\ Regular(out.state) /\ out.state.pending = NoPending
           /\ Locked(out.state) = {} /\ HeldBy(out.state) = {}
           /\ Covers(s, out.state, out.lines, TRUE)
           /\ NoKeys(out.lines) /\ NoDowns(out.lines)
<1> DEFINE t == FreshWith(s.caps, NoPending)
           a == release(s, FALSE).lines
           r == release(s, FALSE).state
           rest == Locked(s) \ s.pending.restore
           b == Lift(rest, FALSE)
<1>1. out.state = [initialState EXCEPT !.caps = s.caps] /\ out.lines = a \o b
  BY DEF releaseAll, Locked
<1>2. [initialState EXCEPT !.caps = s.caps] = t
  <2>1. initialState.pending = NoPending /\ initialState \in Ledgers
    BY NoPendingIs DEF initialState, NoClick, Ledgers, Values
  <2> QED  BY <2>1 DEF Ledgers, FreshWith
<1>3. s.caps \in BOOLEAN /\ rest \in SUBSET Modifiers /\ rest \subseteq {"shift"}
  BY LedgerIs
<1>4. Regular(t) /\ t.pending = NoPending /\ Locked(t) = {} /\ HeldBy(t) = {}
  BY <1>3, FreshIs, NoPendingIs DEF Chord
<1> HIDE DEF t
<1> DEFINE p == s.pending
           u == IF p = NoPending THEN {} ELSE {p.position} \cup KeysOf(p.wrap, p.level3)
<1>5. a \in Seq(Strokes) /\ NoKeys(a) /\ NoDowns(a) /\ Acts(a, {}, u)
  <2>1. CASE p = NoPending
    <3>1. a = <<>> /\ u = {}
      BY <2>1 DEF release
    <3> QED  BY <3>1, LedgerIs, OneActs
  <2>2. CASE p # NoPending
    <3> DEFINE w == ChordUps(p)
    <3>1. w \in Seq(Strokes) /\ NoKeys(w) /\ NoDowns(w) /\ Acts(w, {}, u)
      BY <2>2, ChordUpsAct
    <3>2. a = w \o <<>>
      BY <2>2 DEF release, ChordUps
    <3> HIDE DEF w, a, u
    <3>3. w \o <<>> = w
      BY <3>1
    <3> QED  BY <3>1, <3>2, <3>3
  <2> QED  BY <2>1, <2>2
<1>6. HeldBy(s) = rest \cup u
  BY DEF HeldBy, Chord
<1>7. b \in Seq(Strokes) /\ Acts(b, {}, rest) /\ NoKeys(b) /\ NoDowns(b)
  <2>1. KeysOf(rest, FALSE) = rest
    BY <1>3, LockKeys
  <2> HIDE DEF rest
  <2> QED  BY <1>3, <2>1, LinesAct
<1> HIDE DEF a, b, u, rest
<1>8. a \o b \in Seq(Strokes) /\ Acts(a \o b, {}, u \cup rest) /\ NoKeys(a \o b) /\ NoDowns(a \o b)
  BY <1>5, <1>7, UpsJoined
<1>9. Covers(s, t, a \o b, TRUE)
  BY <1>4, <1>6, <1>8 DEF Covers
<1> QED  BY <1>1, <1>2, <1>4, <1>8, <1>9

(* A drain: the locks are forgotten, and the chord, or kept without its lock. *)
LEMMA DrainIs ==
    ASSUME NEW s, Regular(s), NEW n, NEW t, t = configureDrain(s, n)
    PROVE  /\ Regular(t) /\ Locked(t) = {}
           /\ s.pending = NoPending => t.pending = NoPending
           /\ n = -1 => HeldBy(t) = Chord(s.pending)
           /\ t.pending.restore = {}
<1> DEFINE p == [s.pending EXCEPT !.restore = {}]
<1>1. s.caps \in BOOLEAN /\ s.pending \in Pendings
  BY LedgerIs
<1>2. p \in Pendings /\ p.restore = {} /\ p.wrap = s.pending.wrap
      /\ p.position = s.pending.position /\ p.level3 = s.pending.level3
      /\ p.stamp = s.pending.stamp
  BY <1>1 DEF Pendings
<1>3. t = FreshWith(s.caps, IF survives(s.pending, n) THEN p ELSE NoPending)
  BY DEF configureDrain, FreshWith
<1> HIDE DEF p
<1>4. CASE survives(s.pending, n)
  <2>1. t = FreshWith(s.caps, p)
    BY <1>3, <1>4
  <2>3. s.pending # NoPending /\ s.pending.position \in Positions
    BY <1>4 DEF survives, Regular
  <2>2. Regular(t) /\ t.pending = p /\ Locked(t) = {} /\ HeldBy(t) = Chord(p)
    BY <1>1, <1>2, <2>1, <2>3, FreshIs
  <2>4. p # NoPending
    <3>1. "" \notin Positions
      BY TypingAssumption DEF Positions
    <3> QED  BY <1>2, <2>3, <3>1, NoPendingIs
  <2>5. Chord(p) = Chord(s.pending)
    BY <1>2, <2>3, <2>4 DEF Chord
  <2> QED  BY <1>2, <2>2, <2>3, <2>5
<1>5. CASE ~survives(s.pending, n)
  <2>1. t = FreshWith(s.caps, NoPending)
    BY <1>3, <1>5
  <2>2. Regular(t) /\ t.pending = NoPending /\ Locked(t) = {} /\ HeldBy(t) = Chord(NoPending)
    BY <1>1, NoPendingIs, <2>1, FreshIs
  <2>3. n = -1 => s.pending = NoPending
    <3> SUFFICES ASSUME n = -1, s.pending # NoPending  PROVE FALSE
      OBVIOUS
    <3>1. ~(s.pending.stamp >= -1)
      BY <1>5 DEF survives
    <3>2. s.pending.stamp \in Nat
      BY <1>1 DEF Pendings
    <3> QED  BY <3>1, <3>2
  <2> QED  BY <2>2, <2>3, NoPendingIs
<1> QED  BY <1>4, <1>5

(* Two lines are one and one. *)
LEMMA Two ==
    ASSUME NEW S, NEW x \in S, NEW y \in S
    PROVE  <<x, y>> = <<x>> \o <<y>>
<1>1. <<x, y>> \in Seq(S) /\ <<x>> \in Seq(S) /\ <<y>> \in Seq(S)
  OBVIOUS
<1>2. <<x>> \o <<y>> \in Seq(S) /\ Len(<<x>> \o <<y>>) = 2
  BY <1>1
<1>3. (<<x>> \o <<y>>)[1] = x /\ (<<x>> \o <<y>>)[2] = y
  BY <1>1
<1>4. Len(<<x, y>>) = 2 /\ <<x, y>>[1] = x /\ <<x, y>>[2] = y
  OBVIOUS
<1>5. \A i \in 1..2 : <<x, y>>[i] = (<<x>> \o <<y>>)[i]
  BY <1>3, <1>4
<1> QED  BY <1>1, <1>2, <1>4, <1>5, SeqEqual

(* Joining is associative. *)
LEMMA Assoc ==
    ASSUME NEW S, NEW x \in Seq(S), NEW y \in Seq(S), NEW z \in Seq(S)
    PROVE  (x \o y) \o z = x \o (y \o z)
  BY ConcatAssociative

(* A paste is put down and let go whole, around the locks. *)
LEMMA PasteIs ==
    ASSUME NEW s, Regular(s), s.pending = NoPending, NEW ctrl \in BOOLEAN, NEW shift \in BOOLEAN,
           NEW out, out = paste(s, ctrl, shift, "PASTE"), NEW set,
           set = (IF ctrl THEN {"ctrl"} ELSE {}) \cup (IF shift THEN {"shift"} ELSE {})
    PROVE  /\ Regular(out.state) /\ out.state.pending = NoPending
           /\ Covers(s, out.state, out.lines, TRUE)
           /\ Types(s, out.lines, set)
<1> DEFINE locked == s.mods["shift"] = "locked"
           w == (IF ctrl THEN {"ctrl"} ELSE {}) \cup (IF shift /\ ~locked THEN {"shift"} ELSE {})
           r == IF locked /\ ~shift THEN {"shift"} ELSE {}
           t == spendLatches(s)
           a1 == Lift(r, FALSE)
           a2 == Lines("down", w, FALSE)
           a3 == <<Down("PASTE")>>
           a4 == <<Up("PASTE")>>
           a5 == Lift(w, FALSE)
           a6 == Lines("down", r, FALSE)
<1>1. out.state = t /\ out.lines = a1 \o a2 \o <<Down("PASTE"), Up("PASTE")>> \o a5 \o a6
  BY DEF paste
<1>2. /\ Regular(t) /\ t.pending = NoPending /\ Locked(t) = Locked(s)
      /\ HeldBy(t) = Locked(s) /\ HeldBy(s) = Locked(s)
  BY SpentLatches, NoPendingIs DEF HeldBy, Chord
<1>3. locked <=> "shift" \in Locked(s)
  BY LedgerIs DEF Locked, InState
<1>4. /\ w \in SUBSET Modifiers /\ r \in SUBSET Modifiers /\ w \cap r = {}
      /\ r \subseteq Locked(s) /\ Locked(s) \subseteq {"shift"} /\ r \subseteq {"shift"}
      /\ w \subseteq ModifierKeys
      /\ "shift" \in Locked(s) => "shift" \notin w
      /\ set = w \cup (Locked(s) \ r)
  BY <1>3, LedgerIs DEF Modifiers, ModifierKeys
<1>5. KeysOf(w, FALSE) = w /\ KeysOf(r, FALSE) = r
  BY DEF KeysOf, KeyOf
<1>6. "PASTE" \in KeyNames \ ModifierKeys
  BY DEF KeyNames, ModifierKeys, Modifiers
<1> HIDE DEF w, r, t, locked
<1>7. /\ a1 \in Seq(Strokes) /\ Acts(a1, {}, r) /\ NoKeys(a1)
      /\ a2 \in Seq(Strokes) /\ Acts(a2, w, {}) /\ NoKeys(a2)
      /\ a5 \in Seq(Strokes) /\ Acts(a5, {}, w) /\ NoKeys(a5)
      /\ a6 \in Seq(Strokes) /\ Acts(a6, r, {}) /\ NoKeys(a6)
  <2>1. w \in SUBSET Modifiers /\ r \in SUBSET Modifiers
    BY <1>4
  <2>2. /\ a1 \in Seq(Strokes) /\ Acts(a1, {}, KeysOf(r, FALSE)) /\ NoKeys(a1)
        /\ a6 \in Seq(Strokes) /\ Acts(a6, KeysOf(r, FALSE), {}) /\ NoKeys(a6)
    BY ONLY <2>1, LinesAct
  <2>3. /\ a2 \in Seq(Strokes) /\ Acts(a2, KeysOf(w, FALSE), {}) /\ NoKeys(a2)
        /\ a5 \in Seq(Strokes) /\ Acts(a5, {}, KeysOf(w, FALSE)) /\ NoKeys(a5)
    BY ONLY <2>1, LinesAct
  <2> HIDE DEF a1, a2, a5, a6
  <2> QED  BY ONLY <1>5, <2>2, <2>3
<1>8. /\ a3 \in Seq(Strokes) /\ Acts(a3, {"PASTE"}, {})
      /\ a4 \in Seq(Strokes) /\ Acts(a4, {}, {"PASTE"}) /\ NoKeys(a4)
  BY <1>6, OneActs
<1>9. <<Down("PASTE"), Up("PASTE")>> = a3 \o a4
  <2>1. Down("PASTE") \in Strokes /\ Up("PASTE") \in Strokes
    BY <1>6 DEF Up, Down, Strokes
  <2> QED  BY <2>1, Two
<1> HIDE DEF a1, a2, a3, a4, a5, a6
<1> DEFINE pre == a1 \o a2
           post == (a4 \o a5) \o a6
<1>10. pre \in Seq(Strokes) /\ Acts(pre, w, r) /\ NoKeys(pre)
  <2>1. w = ({} \ {}) \cup w /\ r = (r \ w) \cup {}
    BY <1>4
  <2>2. pre \in Seq(Strokes) /\ Acts(pre, w, r)
    BY <1>7, <2>1, JoinAct
  <2> QED  BY <1>7, <2>2, NoneJoined
<1>11. a4 \o a5 \in Seq(Strokes) /\ Acts(a4 \o a5, {}, {"PASTE"} \cup w) /\ NoKeys(a4 \o a5)
  <2>1. {} = ({} \ w) \cup {} /\ {"PASTE"} \cup w = ({"PASTE"} \ {}) \cup w
    OBVIOUS
  <2>2. a4 \o a5 \in Seq(Strokes) /\ Acts(a4 \o a5, {}, {"PASTE"} \cup w)
    BY <1>7, <1>8, <2>1, JoinAct
  <2> QED  BY <1>7, <1>8, <2>2, NoneJoined
<1>12. post \in Seq(Strokes) /\ Acts(post, r, {"PASTE"} \cup w) /\ NoKeys(post)
  <2>1. r = ({} \ {}) \cup r /\ {"PASTE"} \cup w = (({"PASTE"} \cup w) \ r) \cup {}
    BY <1>4, <1>6 DEF ModifierKeys, Modifiers
  <2>2. post \in Seq(Strokes) /\ Acts(post, r, {"PASTE"} \cup w)
    BY <1>7, <1>11, <2>1, JoinAct
  <2> QED  BY <1>7, <1>11, <2>2, NoneJoined
<1> HIDE DEF pre
<1>13. out.lines = (pre \o a3) \o post
  <2>1. pre \in Seq(Strokes) /\ a3 \in Seq(Strokes) /\ a4 \in Seq(Strokes)
    BY <1>8, <1>10
  <2>2. (pre \o a3) \o a4 = pre \o (a3 \o a4)
    BY ONLY <2>1, Assoc, SMT
  <2> DEFINE x == pre \o a3
  <2>3. x \in Seq(Strokes)
    BY <2>1, Joined
  <2> HIDE DEF x
  <2> DEFINE y == a4 \o a5
  <2>4. x \in Seq(Strokes) /\ a4 \in Seq(Strokes) /\ a5 \in Seq(Strokes)
    BY <1>7, <1>8, <2>3
  <2>5. (x \o a4) \o a5 = x \o y
    BY ONLY <2>4, Assoc, SMT
  <2>6. y \in Seq(Strokes)
    BY <1>11
  <2> HIDE DEF y
  <2>7. x \in Seq(Strokes) /\ y \in Seq(Strokes) /\ a6 \in Seq(Strokes)
    BY <1>7, <2>3, <2>6
  <2>8. (x \o y) \o a6 = x \o (y \o a6)
    BY ONLY <2>7, Assoc, SMT
  <2> QED  BY <1>1, <1>9, <2>2, <2>5, <2>8 DEF pre, x, y
<1> HIDE DEF post
<1>14. Types(s, out.lines, set)
  BY <1>4, <1>6, <1>10, <1>12, <1>13 DEF Types, a3
<1>15. pre \o a3 \in Seq(Strokes) /\ Acts(pre \o a3, w \cup {"PASTE"}, r)
  <2>1. w \cup {"PASTE"} = (w \ {}) \cup {"PASTE"} /\ r = (r \ {"PASTE"}) \cup {}
    BY <1>4
  <2> QED  BY <1>8, <1>10, <2>1, JoinAct
<1>16. out.lines \in Seq(Strokes) /\ Acts(out.lines, r, {"PASTE"} \cup w)
  <2> DEFINE d == w \cup {"PASTE"}
             u == {"PASTE"} \cup w
  <2>1. r = (d \ u) \cup r /\ u = (r \ r) \cup u
    OBVIOUS
  <2> HIDE DEF d, u
  <2>2. Acts(pre \o a3, d, r) /\ Acts(post, r, u)
    BY <1>12, <1>15 DEF d, u
  <2> DEFINE x == pre \o a3
  <2>3. x \in Seq(Strokes) /\ Acts(x, d, r) /\ out.lines = x \o post
    BY <1>13, <1>15, <2>2
  <2> HIDE DEF x
  <2>4. x \o post \in Seq(Strokes) /\ Acts(x \o post, r, u)
    BY <1>12, <2>1, <2>2, <2>3, JoinAct
  <2>5. out.lines \in Seq(Strokes) /\ Acts(out.lines, r, u)
    BY <2>3, <2>4
  <2> QED  BY <2>5 DEF u
<1>17. Covers(s, t, out.lines, TRUE)
  <2>1. s.pending.restore = {} /\ t.pending.restore = {}
    BY <1>2, NoPendingIs
  <2>2. "shift" \in Locked(t) => "shift" \notin {"PASTE"} \cup w
    BY <1>2, <1>4
  <2>3. r \subseteq HeldBy(t) /\ HeldBy(s) \subseteq HeldBy(t) \cup ({"PASTE"} \cup w)
    BY <1>2, <1>4
  <2> QED  BY <1>2, <1>16, <2>1, <2>2, <2>3 DEF Covers
<1> QED  BY <1>1, <1>2, <1>14, <1>17

-----------------------------------------------------------------------------
(* What the operators of the session leave of its record. *)
Session(q, a, n, g, h, c) ==
    [queue |-> q, acked |-> a, ackedGen |-> n, group |-> g, helloOk |-> h, caps |-> c]
Entries == [keymap : Keymaps, changed : BOOLEAN, group : {0}]
Shaped(s) == \E q, a, n, g, h, c : q \in Seq(Entries) /\ s = Session(q, a, n, g, h, c)

(* The queue of a session is a sequence of entries. *)
LEMMA ShapedIs ==
    ASSUME NEW s, Shaped(s)
    PROVE  s.queue \in Seq(Entries)
<1>1. PICK q, a, n, g, h, c : q \in Seq(Entries) /\ s = Session(q, a, n, g, h, c)
  BY DEF Shaped
<1> QED  BY <1>1 DEF Session

(* A configure is appended, and compared with what is then installed. *)
LEMMA SentIs ==
    ASSUME NEW s, Shaped(s), NEW k \in Keymaps, NEW t, t = configureSent(s, k, 0)
    PROVE  /\ Shaped(t) /\ t.acked = s.acked /\ t.ackedGen = s.ackedGen
           /\ t.queue = Append(s.queue, [keymap  |-> k, changed |-> k # installed(s),
                                         group |-> 0])
<1>1. PICK q, a, n, g, h, c : q \in Seq(Entries) /\ s = Session(q, a, n, g, h, c)
  BY DEF Shaped
<1> DEFINE e == [keymap |-> k, changed |-> k # installed(s), group |-> 0]
           p == Append(q, e)
<1>2. t = [s EXCEPT !.queue = p]
  BY <1>1 DEF configureSent, Session
<1>3. e \in Entries
  BY DEF Entries
<1>4. p \in Seq(Entries)
  <2> HIDE DEF e
  <2> QED  BY <1>1, <1>3
<1>5. p = Append(s.queue, e)
  BY <1>1 DEF Session
<1> HIDE DEF p
<1>6. t = Session(p, a, n, g, h, c)
  BY <1>1, <1>2 DEF Session
<1>7. Shaped(t)
  BY <1>4, <1>6 DEF Shaped
<1>8. t.queue = p /\ t.acked = a /\ t.ackedGen = n /\ s.acked = a /\ s.ackedGen = n
  BY <1>1, <1>6 DEF Session
<1> QED  BY <1>5, <1>7, <1>8

(* An acknowledgement settles the configure at the head. *)
LEMMA AckIs ==
    ASSUME NEW s, Shaped(s), s.queue # <<>>, NEW n0, NEW t, t = configureAck(s, n0)
    PROVE  /\ Shaped(t) /\ t.queue = Tail(s.queue)
           /\ t.acked = s.queue[1].keymap /\ t.ackedGen = n0
<1>1. PICK q, a, n, g, h, c : q \in Seq(Entries) /\ s = Session(q, a, n, g, h, c)
  BY DEF Shaped
<1>2. s.queue = q /\ q # <<>> /\ Head(q) = q[1] /\ Tail(q) \in Seq(Entries)
  BY <1>1 DEF Session
<1> DEFINE p == Tail(q)
           e == Head(q)
<1>3. t = Session(p, e.keymap, n0, e.group, h, c)
  BY <1>1, <1>2 DEF Session, configureAck, settled
<1>4. p \in Seq(Entries) /\ p = Tail(s.queue) /\ e = s.queue[1]
  BY <1>2
<1> HIDE DEF p, e
<1>5. t.queue = p /\ t.acked = e.keymap /\ t.ackedGen = n0
  BY <1>3 DEF Session
<1>6. Shaped(t)
  BY <1>3, <1>4 DEF Shaped
<1> QED  BY <1>4, <1>5, <1>6

(* A refusal drops it, and compares the others again. *)
LEMMA FailedIs ==
    ASSUME NEW s, Shaped(s), s.queue # <<>>, NEW t, t = configureFailed(s)
    PROVE  /\ Shaped(t) /\ t.acked = s.acked /\ t.ackedGen = s.ackedGen
           /\ Len(t.queue) = Len(s.queue) - 1
           /\ \A i \in 1..(Len(s.queue) - 1) :
                /\ t.queue[i].keymap = s.queue[i + 1].keymap
                /\ t.queue[i].changed <=>
                     s.queue[i + 1].keymap # (IF i = 1 THEN s.acked ELSE s.queue[i].keymap)
<1>1. PICK q, a, n, g, h, c : q \in Seq(Entries) /\ s = Session(q, a, n, g, h, c)
  BY DEF Shaped
<1>2. s.queue = q /\ q # <<>> /\ s.acked = a /\ s.ackedGen = n
  BY <1>1 DEF Session
<1> DEFINE p == Tail(q)
           r == Rebased(p, a)
<1>3. t = Session(r, a, n, g, h, c)
  BY <1>1, <1>2 DEF Session, configureFailed, settled
<1>4. /\ p \in Seq(Entries) /\ Len(q) \in Nat \ {0} /\ Len(p) = Len(q) - 1
      /\ Len(p) \in Nat /\ DOMAIN p = 1 .. Len(p)
      /\ \A i \in 1 .. Len(p) : p[i] = q[i + 1]
  BY <1>1, <1>2
<1> HIDE DEF p
<1> DEFINE v(i) == [p[i] EXCEPT !.changed =
                       p[i].keymap # (IF i = 1 THEN a ELSE p[i - 1].keymap)]
<1>5. r = [i \in 1 .. Len(p) |-> v(i)]
  BY <1>4 DEF Rebased
<1> HIDE DEF r
<1>6. ASSUME NEW i \in 1 .. Len(p)
      PROVE  /\ r[i] \in Entries /\ r[i].keymap = p[i].keymap
             /\ r[i].changed <=> p[i].keymap # (IF i = 1 THEN a ELSE p[i - 1].keymap)
  <2> DEFINE f == p[i].keymap # (IF i = 1 THEN a ELSE p[i - 1].keymap)
  <2>1. r[i] = [p[i] EXCEPT !.changed = f]
    BY <1>5
  <2>2. p[i] \in Entries /\ f \in BOOLEAN
    BY <1>4
  <2>3. f <=> p[i].keymap # (IF i = 1 THEN a ELSE p[i - 1].keymap)
    OBVIOUS
  <2> HIDE DEF f
  <2>4. r[i] \in Entries /\ r[i].keymap = p[i].keymap /\ r[i].changed = f
    BY <2>1, <2>2 DEF Entries
  <2> QED  BY <2>3, <2>4
<1> HIDE DEF v
<1>7. r \in Seq(Entries) /\ Len(r) = Len(p)
  <2>1. r \in [1 .. Len(p) -> Entries]
    BY <1>5, <1>6
  <2> QED  BY <1>4, <2>1
<1>8. t.queue = r /\ t.acked = a /\ t.ackedGen = n
  BY <1>3 DEF Session
<1>9. Shaped(t)
  BY <1>3, <1>7 DEF Shaped
<1>10. ASSUME NEW i \in 1 .. Len(p)
       PROVE  /\ r[i].keymap = q[i + 1].keymap
              /\ r[i].changed <=> q[i + 1].keymap # (IF i = 1 THEN a ELSE q[i].keymap)
  <2>1. i # 1 => i - 1 \in 1 .. Len(p) /\ p[i - 1] = q[i]
    BY <1>4
  <2> QED  BY <1>4, <1>6, <2>1
<1> QED  BY <1>2, <1>4, <1>7, <1>8, <1>9, <1>10

(* Facts, and the loss of the connection, leave the queue and what was acknowledged. *)
LEMMA FactsAre ==
    ASSUME NEW s, Shaped(s), NEW n0, NEW g0, NEW k, NEW t,
           t = capsFacts(s, n0, g0, k) \/ t = connectionDown(s)
    PROVE  Shaped(t) /\ t.queue = s.queue /\ t.acked = s.acked /\ t.ackedGen = s.ackedGen
<1>1. PICK q, a, n, g, h, c : q \in Seq(Entries) /\ s = Session(q, a, n, g, h, c)
  BY DEF Shaped
<1>2. \E hh, cc : t = Session(q, a, n, g, hh, cc)
  <2>1. CASE t = connectionDown(s)
    <3>1. t = Session(q, a, n, g, FALSE, c)
      BY <1>1, <2>1 DEF Session, connectionDown
    <3> QED  BY <3>1
  <2>2. CASE t = capsFacts(s, n0, g0, k) /\ n0 # s.ackedGen
    <3>1. t = s
      BY <2>2 DEF capsFacts
    <3> QED  BY <1>1, <3>1
  <2>3. CASE t = capsFacts(s, n0, g0, k) /\ n0 = s.ackedGen
    <3> DEFINE have == IF s.caps.gen = n0 THEN s.caps.byGroup ELSE <<>>
               cc == [gen |-> n0, byGroup |-> [x \in DOMAIN have \cup {g0} |->
                                                 IF x = g0 THEN k ELSE have[x]]]
    <3>1. t = [s EXCEPT !.caps = cc]
      BY <2>3 DEF capsFacts
    <3> HIDE DEF cc
    <3>2. t = Session(q, a, n, g, h, cc)
      BY <1>1, <3>1 DEF Session
    <3> QED  BY <3>2
  <2> QED  BY <2>1, <2>2, <2>3
<1>3. PICK hh, cc : t = Session(q, a, n, g, hh, cc)
  BY <1>2
<1>4. Shaped(t)
  BY <1>1, <1>3 DEF Shaped
<1>5. t.queue = q /\ t.acked = a /\ t.ackedGen = n
  BY <1>3 DEF Session
<1>6. s.queue = q /\ s.acked = a /\ s.ackedGen = n
  BY <1>1 DEF Session
<1> QED  BY <1>4, <1>5, <1>6

(* A new connection knows nothing. *)
LEMMA FreshSession ==
    ASSUME NEW s, NEW t, t = helloAcked(s, TRUE) \/ t = [initial EXCEPT !.helloOk = TRUE]
    PROVE  Shaped(t) /\ t.queue = <<>> /\ t.acked = NoKeymap /\ t.ackedGen = 0
<1>1. t = [initial EXCEPT !.helloOk = TRUE]
  BY DEF helloAcked
<1>2. t = Session(<<>>, NoKeymap, 0, 0, TRUE, NoFacts)
  BY <1>1 DEF Session, initial
<1>3. t.queue = <<>> /\ t.acked = NoKeymap /\ t.ackedGen = 0
  BY <1>2 DEF Session
<1>4. <<>> \in Seq(Entries)
  OBVIOUS
<1>5. Shaped(t)
  BY <1>2, <1>4 DEF Shaped
<1> QED  BY <1>3, <1>5

-----------------------------------------------------------------------------
(* A key that is up, or that nobody has to answer for, before line p: the lines lift
   it, or it is not in hand and goes down at most in lines written blind. *)
Free(w, hand, lines, x, p) ==
    \/ Lifts(w, x, p)
    \/ x \notin hand /\ \A i \in DOMAIN w : i < p /\ w[i] = Down(x) => i <= lines

(* A key that is down before line p. *)
Sure(w, hand, x, p) ==
    \/ Lowers(w, x, p)
    \/ x \in hand /\ \A i \in DOMAIN w : i < p => w[i] # Up(x)

(* Lines written behind leave what is before them. *)
LEMMA FreeBefore ==
    ASSUME NEW S, NEW a \in Seq(S), NEW b \in Seq(S), NEW x, NEW p \in Nat, p <= End(a),
           NEW hand, NEW lines
    PROVE  /\ Free(a, hand, lines, x, p) => Free(a \o b, hand, lines, x, p)
           /\ Sure(a, hand, x, p) => Sure(a \o b, hand, x, p)
<1> DEFINE c == a \o b
<1>1. /\ Lifts(a, x, p) => Lifts(c, x, p)
      /\ Lowers(a, x, p) => Lowers(c, x, p)
  BY BeforeSeam
<1>2. \A i \in DOMAIN c : i < p => i \in DOMAIN a /\ c[i] = a[i]
  BY Joined DEF End
<1> HIDE DEF c
<1>3. Free(a, hand, lines, x, p) => Free(c, hand, lines, x, p)
  BY <1>1, <1>2 DEF Free
<1>4. Sure(a, hand, x, p) => Sure(c, hand, x, p)
  BY <1>1, <1>2 DEF Sure
<1> QED  BY <1>3, <1>4 DEF c

(* What is up, or down, before the lines of b reach it. *)
LEMMA FreeBehind ==
    ASSUME NEW S, NEW a \in Seq(S), NEW b \in Seq(S), NEW x, NEW q \in Nat \ {0}, q <= End(b),
           NEW hand, NEW lines, NEW p, p = Len(a) + q
    PROVE  /\ Lifts(b, x, q) => Free(a \o b, hand, lines, x, p)
           /\ Lowers(b, x, q) => Sure(a \o b, hand, x, p)
           /\ Unnamed(b, x, q) /\ Free(a, hand, lines, x, End(a))
                => Free(a \o b, hand, lines, x, p)
           /\ Unnamed(b, x, q) /\ Sure(a, hand, x, End(a)) => Sure(a \o b, hand, x, p)
<1> DEFINE c == a \o b
<1>1. /\ Lifts(b, x, q) => Lifts(c, x, p)
      /\ Lowers(b, x, q) => Lowers(c, x, p)
      /\ Unnamed(b, x, q) => /\ Lifts(a, x, End(a)) => Lifts(c, x, p)
                             /\ Lowers(a, x, End(a)) => Lowers(c, x, p)
  BY BehindSeam
<1>2. ASSUME Unnamed(b, x, q), NEW i \in DOMAIN c, i < p
      PROVE  \/ i \in DOMAIN a /\ i < End(a) /\ c[i] = a[i]
             \/ c[i] # Up(x) /\ c[i] # Down(x)
  <2>1. /\ Len(a) \in Nat /\ Len(b) \in Nat
        /\ DOMAIN a = 1..Len(a) /\ DOMAIN b = 1..Len(b) /\ DOMAIN c = 1..(Len(a) + Len(b))
        /\ \A j \in 1..Len(a) : c[j] = a[j]
        /\ \A j \in 1..(Len(a) + Len(b)) :
             j \in 1..Len(a) \/ (j - Len(a) \in 1..Len(b) /\ c[j] = b[j - Len(a)])
    BY Joined
  <2> HIDE DEF c
  <2>2. CASE i \in 1..Len(a)
    BY <2>1, <2>2 DEF End
  <2>3. CASE i \notin 1..Len(a)
    BY <1>2, <2>1, <2>3 DEF Unnamed
  <2> QED  BY <2>2, <2>3
<1> HIDE DEF c
<1>3. Lifts(b, x, q) => Free(c, hand, lines, x, p)
  BY <1>1 DEF Free
<1>4. Lowers(b, x, q) => Sure(c, hand, x, p)
  BY <1>1 DEF Sure
<1>5. Unnamed(b, x, q) /\ Free(a, hand, lines, x, End(a)) => Free(c, hand, lines, x, p)
  BY <1>1, <1>2 DEF Free
<1>6. Unnamed(b, x, q) /\ Sure(a, hand, x, End(a)) => Sure(c, hand, x, p)
  BY <1>1, <1>2 DEF Sure
<1> QED  BY <1>3, <1>4, <1>5, <1>6 DEF c

(* The first line runs. *)
LEMMA TailIs ==
    ASSUME NEW S, NEW w \in Seq(S), w # <<>>
    PROVE  /\ Tail(w) \in Seq(S) /\ Len(w) \in Nat \ {0} /\ Len(Tail(w)) = Len(w) - 1
           /\ DOMAIN w = 1..Len(w) /\ DOMAIN Tail(w) = 1..(Len(w) - 1)
           /\ \A i \in 1..(Len(w) - 1) : Tail(w)[i] = w[i + 1]
           /\ Head(w) = w[1] /\ w[1] \in S
  OBVIOUS

(* A line names one key, and lifts it or puts it down. *)
LEMMA UpIsNotDown ==
    \A x, y : /\ Up(x) # Down(y)
              /\ Up(x) = Up(y) <=> x = y
              /\ Down(x) = Down(y) <=> x = y
  BY DEF Up, Down

(* A key that is up before line p + 1 is up before line p once the first has run, if the
   first did not put it in hand. *)
LEMMA FreeBehindFirst ==
    ASSUME NEW S, NEW w \in Seq(S), w # <<>>, NEW x, NEW p \in Nat \ {0},
           NEW hand, NEW after, NEW lines \in Nat,
           x \in after => \/ x \in hand /\ w[1] # Up(x)
                          \/ w[1] = Down(x) /\ lines = 0,
           Free(w, hand, lines, x, p + 1)
    PROVE  Free(Tail(w), after, IF lines > 0 THEN lines - 1 ELSE 0, x, p)
<1> DEFINE v == Tail(w)
           less == IF lines > 0 THEN lines - 1 ELSE 0
<1>1. /\ Len(w) \in Nat \ {0} /\ DOMAIN w = 1..Len(w) /\ DOMAIN v = 1..(Len(w) - 1)
      /\ \A i \in 1..(Len(w) - 1) : v[i] = w[i + 1]
  BY TailIs
<1>2. less \in Nat /\ \A i \in Nat \ {0} : i + 1 <= lines => i <= less
  OBVIOUS
<1> HIDE DEF v, less
<1>3. CASE Lifts(w, x, p + 1)
  <2>1. PICK k \in DOMAIN w : /\ k < p + 1 /\ w[k] = Up(x)
                              /\ \A j \in DOMAIN w : k < j /\ j < p + 1 => w[j] # Down(x)
    BY <1>3 DEF Lifts
  <2>2. CASE k # 1
    <3>1. k - 1 \in DOMAIN v /\ k - 1 < p /\ v[k - 1] = Up(x)
      BY <1>1, <2>1, <2>2
    <3>2. ASSUME NEW j \in DOMAIN v, k - 1 < j, j < p
          PROVE  v[j] # Down(x)
      <4>1. j + 1 \in DOMAIN w /\ k < j + 1 /\ j + 1 < p + 1 /\ v[j] = w[j + 1]
        BY <1>1, <2>1, <3>2
      <4> QED  BY <2>1, <4>1
    <3>3. Lifts(v, x, p)
      BY <3>1, <3>2 DEF Lifts
    <3> QED  BY <3>3 DEF Free, v, less
  <2>3. CASE k = 1
    <3>1. x \notin after
      BY <2>1, <2>3, UpIsNotDown
    <3>2. ASSUME NEW j \in DOMAIN v, j < p
          PROVE  v[j] # Down(x)
      <4>1. j + 1 \in DOMAIN w /\ k < j + 1 /\ j + 1 < p + 1 /\ v[j] = w[j + 1]
        BY <1>1, <2>1, <2>3, <3>2
      <4> QED  BY <2>1, <4>1
    <3> QED  BY <3>1, <3>2 DEF Free, v, less
  <2> QED  BY <2>2, <2>3
<1>4. CASE x \notin hand /\ \A i \in DOMAIN w : i < p + 1 /\ w[i] = Down(x) => i <= lines
  <2>1. x \notin after
    <3>1. w[1] = Down(x) => 1 <= lines
      BY <1>1, <1>4
    <3> QED  BY <1>4, <3>1
  <2>2. ASSUME NEW j \in DOMAIN v, j < p, v[j] = Down(x)
        PROVE  j <= less
    <3>1. j \in Nat \ {0} /\ j + 1 \in DOMAIN w /\ j + 1 < p + 1 /\ w[j + 1] = Down(x)
      BY <1>1, <2>2
    <3> QED  BY <1>2, <1>4, <3>1
  <2> QED  BY <2>1, <2>2 DEF Free, v, less
<1> QED  BY <1>3, <1>4 DEF Free

(* And one that is down, if the first did not lift it. *)
LEMMA SureBehindFirst ==
    ASSUME NEW S, NEW w \in Seq(S), w # <<>>, NEW x, NEW p \in Nat \ {0}, NEW hand, NEW after,
           w[1] = Down(x) => x \in after, x \in hand /\ w[1] # Up(x) => x \in after,
           Sure(w, hand, x, p + 1)
    PROVE  Sure(Tail(w), after, x, p)
<1> DEFINE v == Tail(w)
<1>1. /\ Len(w) \in Nat \ {0} /\ DOMAIN w = 1..Len(w) /\ DOMAIN v = 1..(Len(w) - 1)
      /\ \A i \in 1..(Len(w) - 1) : v[i] = w[i + 1]
  BY TailIs
<1> HIDE DEF v
<1>3. CASE Lowers(w, x, p + 1)
  <2>1. PICK k \in DOMAIN w : /\ k < p + 1 /\ w[k] = Down(x)
                              /\ \A j \in DOMAIN w : k < j /\ j < p + 1 => w[j] # Up(x)
    BY <1>3 DEF Lowers
  <2>2. CASE k # 1
    <3>1. k - 1 \in DOMAIN v /\ k - 1 < p /\ v[k - 1] = Down(x)
      BY <1>1, <2>1, <2>2
    <3>2. ASSUME NEW j \in DOMAIN v, k - 1 < j, j < p
          PROVE  v[j] # Up(x)
      <4>1. j + 1 \in DOMAIN w /\ k < j + 1 /\ j + 1 < p + 1 /\ v[j] = w[j + 1]
        BY <1>1, <2>1, <3>2
      <4> QED  BY <2>1, <4>1
    <3>3. Lowers(v, x, p)
      BY <3>1, <3>2 DEF Lowers
    <3> QED  BY <3>3 DEF Sure, v
  <2>3. CASE k = 1
    <3>1. x \in after
      BY <2>1, <2>3
    <3>2. ASSUME NEW j \in DOMAIN v, j < p
          PROVE  v[j] # Up(x)
      <4>1. j + 1 \in DOMAIN w /\ k < j + 1 /\ j + 1 < p + 1 /\ v[j] = w[j + 1]
        BY <1>1, <2>1, <2>3, <3>2
      <4> QED  BY <2>1, <4>1
    <3> QED  BY <3>1, <3>2 DEF Sure, v
  <2> QED  BY <2>2, <2>3
<1>4. CASE x \in hand /\ \A i \in DOMAIN w : i < p + 1 => w[i] # Up(x)
  <2>1. x \in after
    BY <1>1, <1>4
  <2>2. ASSUME NEW j \in DOMAIN v, j < p
        PROVE  v[j] # Up(x)
    <3>1. j \in Nat \ {0} /\ j + 1 \in DOMAIN w /\ j + 1 < p + 1 /\ v[j] = w[j + 1]
      BY <1>1, <2>2
    <3> QED  BY <1>4, <3>1
  <2> QED  BY <2>1, <2>2 DEF Sure, v
<1> QED  BY <1>3, <1>4 DEF Sure

-----------------------------------------------------------------------------
(* Numbers in order. *)
Enumerates(at, n, P) ==
    /\ at \in [1..n -> P]
    /\ \A i, j \in 1..n : i < j => at[i] < at[j]
    /\ \A p \in P : \E i \in 1..n : at[i] = p

(* A number greater than all is the next. *)
LEMMA OneMore ==
    ASSUME NEW n \in Nat, NEW P \in SUBSET Nat, NEW at, Enumerates(at, n, P),
           NEW p \in Nat, \A q \in P : q < p,
           NEW on, on = [i \in 1..(n + 1) |-> IF i <= n THEN at[i] ELSE p]
    PROVE  Enumerates(on, n + 1, P \cup {p})
<1>1. /\ \A i \in 1..n : at[i] \in P /\ at[i] \in Nat /\ at[i] < p /\ on[i] = at[i]
      /\ on[n + 1] = p
  <2>1. \A i \in 1..n : at[i] \in P
    BY DEF Enumerates
  <2>2. \A q \in P : q \in Nat /\ q < p
    OBVIOUS
  <2>3. n + 1 \in 1..(n + 1) /\ ~(n + 1 <= n) /\ \A i \in 1..n : i \in 1..(n + 1) /\ i <= n
    OBVIOUS
  <2>4. on[n + 1] = p /\ \A i \in 1..n : on[i] = at[i]
    BY <2>3
  <2> QED  BY <2>1, <2>2, <2>4
<1>2. on \in [1..(n + 1) -> P \cup {p}]
  BY <1>1
<1>3. ASSUME NEW i \in 1..(n + 1), NEW j \in 1..(n + 1), i < j
      PROVE  on[i] < on[j]
  <2>1. i \in 1..n
    BY <1>3
  <2>2. j \in 1..n \/ j = n + 1
    BY <1>3
  <2> QED  BY <1>1, <1>3, <2>1, <2>2 DEF Enumerates
<1>4. ASSUME NEW q \in P \cup {p}
      PROVE  \E i \in 1..(n + 1) : on[i] = q
  <2>1. CASE q = p
    <3>1. n + 1 \in 1..(n + 1)
      OBVIOUS
    <3> QED  BY <1>1, <2>1, <3>1
  <2>2. CASE q \in P
    <3>1. PICK i \in 1..n : at[i] = q
      BY <2>2 DEF Enumerates
    <3>2. i \in 1..(n + 1)
      OBVIOUS
    <3> QED  BY <1>1, <3>1, <3>2
  <2> QED  BY <2>1, <2>2
<1> QED  BY <1>2, <1>3, <1>4 DEF Enumerates

(* All shifted by one, when the first line is none of them. *)
LEMMA AllLess ==
    ASSUME NEW n \in Nat, NEW P \in SUBSET Nat, NEW at, Enumerates(at, n, P),
           NEW Q, Q = {p - 1 : p \in P}, NEW on, on = [i \in 1..n |-> at[i] - 1]
    PROVE  Enumerates(on, n, Q)
<1>1. \A i \in 1..n : at[i] \in P /\ at[i] \in Nat /\ on[i] = at[i] - 1 /\ on[i] \in Q
  BY DEF Enumerates
<1>2. on \in [1..n -> Q]
  BY <1>1
<1>3. \A i, j \in 1..n : i < j => on[i] < on[j]
  BY <1>1 DEF Enumerates
<1>4. ASSUME NEW q \in Q
      PROVE  \E i \in 1..n : on[i] = q
  <2>1. PICK p \in P : q = p - 1
    OBVIOUS
  <2>2. PICK i \in 1..n : at[i] = p
    BY DEF Enumerates
  <2> QED  BY <1>1, <2>1, <2>2
<1> QED  BY <1>2, <1>3, <1>4 DEF Enumerates

(* The first taken and the others shifted, when it is. *)
LEMMA OneTaken ==
    ASSUME NEW n \in Nat, NEW P \in SUBSET (Nat \ {0}), 1 \in P, NEW at, Enumerates(at, n, P),
           NEW Q, Q = {p - 1 : p \in P \ {1}},
           NEW on, on = [i \in 1..(n - 1) |-> at[i + 1] - 1]
    PROVE  n \in Nat \ {0} /\ at[1] = 1 /\ Enumerates(on, n - 1, Q)
<1>1. PICK one \in 1..n : at[one] = 1
  BY DEF Enumerates
<1>2. \A i \in 1..n : at[i] \in P /\ at[i] \in Nat /\ at[i] >= 1
  <2>1. \A i \in 1..n : at[i] \in P
    BY DEF Enumerates
  <2>2. \A q \in P : q \in Nat /\ q >= 1
    OBVIOUS
  <2> QED  BY <2>1, <2>2
<1>3. one = 1
  <2>1. SUFFICES ASSUME one # 1 PROVE FALSE
    OBVIOUS
  <2>2. 1 \in 1..n /\ 1 < one
    BY <2>1
  <2> QED  BY <1>1, <1>2, <2>2 DEF Enumerates
<1>4. \A i \in 1..(n - 1) : /\ i + 1 \in 1..n /\ on[i] = at[i + 1] - 1
                            /\ at[i + 1] > 1 /\ at[i + 1] \in P \ {1} /\ on[i] \in Q
  <2>1. ASSUME NEW i \in 1..(n - 1)
        PROVE  i + 1 \in 1..n /\ at[i + 1] > 1
    <3>1. i + 1 \in 1..n /\ 1 \in 1..n /\ 1 < i + 1
      OBVIOUS
    <3>2. at[1] < at[i + 1]
      BY <3>1 DEF Enumerates
    <3> QED  BY <1>1, <1>2, <1>3, <3>1, <3>2
  <2> QED  BY <1>2, <2>1
<1>5. on \in [1..(n - 1) -> Q]
  BY <1>4
<1>6. ASSUME NEW i \in 1..(n - 1), NEW j \in 1..(n - 1), i < j
      PROVE  on[i] < on[j]
  <2>1. i + 1 \in 1..n /\ j + 1 \in 1..n /\ i + 1 < j + 1
    BY <1>6
  <2>2. at[i + 1] < at[j + 1]
    BY <2>1 DEF Enumerates
  <2> QED  BY <1>2, <1>4, <2>1, <2>2
<1>7. ASSUME NEW q \in Q
      PROVE  \E i \in 1..(n - 1) : on[i] = q
  <2>1. PICK p \in P \ {1} : q = p - 1
    OBVIOUS
  <2>2. PICK i \in 1..n : at[i] = p
    BY DEF Enumerates
  <2>3. i # 1
    BY <1>1, <1>3, <2>1, <2>2
  <2>4. i - 1 \in 1..(n - 1) /\ (i - 1) + 1 = i
    BY <2>3
  <2> QED  BY <1>4, <2>1, <2>2, <2>4
<1>8. Enumerates(on, n - 1, Q)
  BY <1>5, <1>6, <1>7 DEF Enumerates
<1>9. n \in Nat \ {0} /\ at[1] = 1
  BY <1>1, <1>3
<1> QED  BY <1>8, <1>9

(* Where the keys and the configures of a line are. *)
KeysAt(w) == {i \in DOMAIN w : IsKeyDown(w[i])}
ConfsAt(w) == {i \in DOMAIN w : w[i][1] = "configure"}

(* Places are positive. *)
LEMMA PlacesAre ==
    ASSUME NEW S, NEW w \in Seq(S)
    PROVE  KeysAt(w) \in SUBSET (Nat \ {0}) /\ ConfsAt(w) \in SUBSET (Nat \ {0})
  BY DEF KeysAt, ConfsAt

(* The places in two runs joined. *)
LEMMA PlacesJoined ==
    ASSUME NEW S, NEW a \in Seq(S), NEW b \in Seq(S)
    PROVE  /\ KeysAt(a \o b) = KeysAt(a) \cup {Len(a) + i : i \in KeysAt(b)}
           /\ ConfsAt(a \o b) = ConfsAt(a) \cup {Len(a) + i : i \in ConfsAt(b)}
<1> DEFINE c == a \o b
<1>1. /\ Len(a) \in Nat /\ Len(b) \in Nat
      /\ DOMAIN a = 1..Len(a) /\ DOMAIN b = 1..Len(b) /\ DOMAIN c = 1..(Len(a) + Len(b))
      /\ \A j \in 1..Len(a) : c[j] = a[j]
      /\ \A j \in 1..Len(b) : c[Len(a) + j] = b[j]
  BY Joined
<1> HIDE DEF c
<1>2. ASSUME NEW i \in DOMAIN c
      PROVE  \/ i \in DOMAIN a /\ c[i] = a[i] /\ ~(\E j \in DOMAIN b : i = Len(a) + j)
             \/ i \notin DOMAIN a /\ \E j \in DOMAIN b : i = Len(a) + j /\ c[i] = b[j]
  <2>1. CASE i \in 1..Len(a)
    BY <1>1, <2>1
  <2>2. CASE i \notin 1..Len(a)
    <3>1. i - Len(a) \in 1..Len(b) /\ i = Len(a) + (i - Len(a))
      BY <1>1, <2>2
    <3> QED  BY <1>1, <2>2, <3>1
  <2> QED  BY <2>1, <2>2
<1>3. /\ \A i \in DOMAIN a : i \in DOMAIN c /\ c[i] = a[i]
      /\ \A j \in DOMAIN b : Len(a) + j \in DOMAIN c /\ c[Len(a) + j] = b[j]
  BY <1>1
<1>4. KeysAt(c) = KeysAt(a) \cup {Len(a) + i : i \in KeysAt(b)}
  BY <1>2, <1>3 DEF KeysAt
<1>5. ConfsAt(c) = ConfsAt(a) \cup {Len(a) + i : i \in ConfsAt(b)}
  BY <1>2, <1>3 DEF ConfsAt
<1> QED  BY <1>4, <1>5 DEF c

(* The places once the first line has run. *)
LEMMA PlacesBehindFirst ==
    ASSUME NEW S, NEW w \in Seq(S), w # <<>>
    PROVE  /\ KeysAt(Tail(w)) = {i - 1 : i \in KeysAt(w) \ {1}}
           /\ ConfsAt(Tail(w)) = {i - 1 : i \in ConfsAt(w) \ {1}}
           /\ 1 \in KeysAt(w) <=> IsKeyDown(w[1])
           /\ 1 \in ConfsAt(w) <=> w[1][1] = "configure"
<1> DEFINE v == Tail(w)
<1>1. /\ Len(w) \in Nat \ {0} /\ DOMAIN w = 1..Len(w) /\ DOMAIN v = 1..(Len(w) - 1)
      /\ \A i \in 1..(Len(w) - 1) : v[i] = w[i + 1]
  BY TailIs
<1> HIDE DEF v
<1>2. /\ \A i \in DOMAIN v : i + 1 \in DOMAIN w /\ i + 1 # 1 /\ (i + 1) - 1 = i /\ v[i] = w[i + 1]
      /\ \A i \in DOMAIN w \ {1} : i - 1 \in DOMAIN v /\ v[i - 1] = w[i]
  BY <1>1
<1>3. KeysAt(v) = {i - 1 : i \in KeysAt(w) \ {1}}
  <2>1. ASSUME NEW i \in KeysAt(v) PROVE i \in {j - 1 : j \in KeysAt(w) \ {1}}
    <3>1. i + 1 \in KeysAt(w) \ {1} /\ i = (i + 1) - 1
      BY <1>2 DEF KeysAt
    <3> QED  BY <3>1
  <2>2. ASSUME NEW j \in KeysAt(w) \ {1} PROVE j - 1 \in KeysAt(v)
    BY <1>2 DEF KeysAt
  <2> QED  BY <2>1, <2>2
<1>4. ConfsAt(v) = {i - 1 : i \in ConfsAt(w) \ {1}}
  <2>1. ASSUME NEW i \in ConfsAt(v) PROVE i \in {j - 1 : j \in ConfsAt(w) \ {1}}
    <3>1. i + 1 \in ConfsAt(w) \ {1} /\ i = (i + 1) - 1
      BY <1>2 DEF ConfsAt
    <3> QED  BY <3>1
  <2>2. ASSUME NEW j \in ConfsAt(w) \ {1} PROVE j - 1 \in ConfsAt(v)
    BY <1>2 DEF ConfsAt
  <2> QED  BY <2>1, <2>2
<1>5. 1 \in DOMAIN w
  BY <1>1
<1> QED  BY <1>3, <1>4, <1>5 DEF v, KeysAt, ConfsAt

-----------------------------------------------------------------------------
(* The keymap a configure of the queue finds, or what was acknowledged before all. *)
MapAt(s, i) == IF i = 0 THEN s.acked ELSE s.queue[i].keymap

(* A flag says that a configure changes the keymap; unflagged ones share theirs. *)
Chain(s) ==
    /\ \A i \in DOMAIN s.queue : s.queue[i].changed <=> MapAt(s, i) # MapAt(s, i - 1)
    /\ \A i, j \in 0..Len(s.queue) :
         /\ i <= j
         /\ \A k \in DOMAIN s.queue : i < k /\ k <= j => ~s.queue[k].changed
         => MapAt(s, i) = MapAt(s, j)

(* Without a flag up to a configure its keymap is the acknowledged one. *)
LEMMA Unchanged ==
    ASSUME NEW s, Shaped(s), Chain(s), NEW i \in DOMAIN s.queue,
           \A k \in DOMAIN s.queue : k <= i => ~s.queue[k].changed
    PROVE  s.queue[i].keymap = s.acked
<1>1. s.queue \in Seq(Entries)
  BY ShapedIs
<1>2. i \in 1..Len(s.queue) /\ Len(s.queue) \in Nat
  BY <1>1
<1>3. MapAt(s, 0) = MapAt(s, i)
  BY <1>2 DEF Chain
<1> QED  BY <1>2, <1>3 DEF MapAt

(* The queue of a session, entry by entry. *)
LEMMA QueueIs ==
    ASSUME NEW s, Shaped(s)
    PROVE  /\ Len(s.queue) \in Nat /\ DOMAIN s.queue = 1..Len(s.queue)
           /\ s.queue = <<>> <=> Len(s.queue) = 0
           /\ \A i \in DOMAIN s.queue :
                s.queue[i].keymap \in Keymaps /\ s.queue[i].changed \in BOOLEAN
<1>1. s.queue \in Seq(Entries)
  BY ShapedIs
<1>2. \A i \in DOMAIN s.queue : s.queue[i] \in Entries
  BY <1>1
<1> QED  BY <1>1, <1>2 DEF Entries

(* A configure sent keeps the flags true. *)
LEMMA SentChain ==
    ASSUME NEW s, Shaped(s), Chain(s), NEW k \in Keymaps, NEW t, t = configureSent(s, k, 0)
    PROVE  /\ Chain(t) /\ Len(t.queue) = Len(s.queue) + 1
           /\ \A i \in 1..Len(s.queue) : t.queue[i] = s.queue[i]
           /\ t.queue[Len(s.queue) + 1].keymap = k
           /\ t.queue[Len(s.queue) + 1].changed <=> k # installed(s)
<1> DEFINE n == Len(s.queue)
           e == [keymap |-> k, changed |-> k # installed(s), group |-> 0]
<1>1. s.queue \in Seq(Entries) /\ t.acked = s.acked /\ t.queue = Append(s.queue, e)
  BY ShapedIs, SentIs
<1>2. e.keymap = k /\ (e.changed <=> k # installed(s))
  OBVIOUS
<1> HIDE DEF e
<1>3. /\ n \in Nat /\ Len(t.queue) = n + 1 /\ t.queue[n + 1] = e
      /\ \A i \in 1..n : t.queue[i] = s.queue[i]
      /\ DOMAIN s.queue = 1..n /\ DOMAIN t.queue = 1..(n + 1)
  BY <1>1
<1>4. installed(s) = MapAt(s, n)
  BY <1>1, <1>3 DEF installed, MapAt
<1>5. /\ \A i \in 0..n : MapAt(t, i) = MapAt(s, i)
      /\ MapAt(t, n + 1) = k
  BY <1>1, <1>2, <1>3 DEF MapAt
<1> HIDE DEF n
<1>6. ASSUME NEW i \in DOMAIN t.queue
      PROVE  t.queue[i].changed <=> MapAt(t, i) # MapAt(t, i - 1)
  <2>1. CASE i = n + 1
    <3>1. n \in 0..n /\ i - 1 = n
      BY <1>3, <2>1
    <3> QED  BY <1>2, <1>3, <1>4, <1>5, <2>1, <3>1
  <2>2. CASE i # n + 1
    <3>1. i \in 1..n /\ i \in 0..n /\ i - 1 \in 0..n
      BY <1>3, <2>2
    <3> QED  BY <1>3, <1>5, <3>1 DEF Chain
  <2> QED  BY <2>1, <2>2
<1>7. ASSUME NEW i \in 0..Len(t.queue), NEW j \in 0..Len(t.queue), i <= j,
             \A m \in DOMAIN t.queue : i < m /\ m <= j => ~t.queue[m].changed
      PROVE  MapAt(t, i) = MapAt(t, j)
  <2>1. ASSUME NEW m \in 0..n, i <= m, m <= j PROVE MapAt(s, i) = MapAt(s, m)
    <3>1. i \in 0..n /\ m \in 0..n
      BY <1>3, <2>1
    <3>2. ASSUME NEW o \in DOMAIN s.queue, i < o, o <= m PROVE ~s.queue[o].changed
      <4>1. o \in DOMAIN t.queue /\ o <= j /\ t.queue[o] = s.queue[o]
        BY <1>3, <2>1, <3>2
      <4> QED  BY <1>7, <3>2, <4>1
    <3> QED  BY <1>3, <2>1, <3>1, <3>2 DEF Chain, n
  <2>2. CASE j <= n
    <3>1. j \in 0..n /\ i \in 0..n
      BY <1>3, <1>7, <2>2
    <3> QED  BY <1>5, <1>7, <2>1, <3>1
  <2>3. CASE j = n + 1 /\ i <= n
    <3>1. n \in 0..n /\ i \in 0..n /\ n + 1 \in DOMAIN t.queue
      BY <1>3, <2>3
    <3>2. MapAt(s, i) = MapAt(s, n)
      BY <1>3, <2>1, <2>3, <3>1
    <3>3. ~t.queue[n + 1].changed
      BY <1>3, <1>7, <2>3, <3>1
    <3> QED  BY <1>2, <1>3, <1>4, <1>5, <2>3, <3>1, <3>2, <3>3
  <2>4. CASE j = n + 1 /\ i = n + 1
    BY <2>4
  <2> QED  BY <1>3, <1>7, <2>2, <2>3, <2>4
<1>8. Chain(t)
  BY <1>6, <1>7 DEF Chain
<1> QED  BY <1>2, <1>3, <1>8 DEF n

(* So does an acknowledgement, *)
LEMMA AckChain ==
    ASSUME NEW s, Shaped(s), Chain(s), s.queue # <<>>, NEW g, NEW t, t = configureAck(s, g)
    PROVE  /\ Chain(t) /\ Len(t.queue) = Len(s.queue) - 1
           /\ \A i \in 1..(Len(s.queue) - 1) : t.queue[i] = s.queue[i + 1]
           /\ \A i \in 0..(Len(s.queue) - 1) : MapAt(t, i) = MapAt(s, i + 1)
<1> DEFINE n == Len(s.queue) - 1
<1>1. s.queue \in Seq(Entries) /\ t.acked = s.queue[1].keymap /\ t.queue = Tail(s.queue)
  BY ShapedIs, AckIs
<1>2. /\ n \in Nat /\ Len(t.queue) = n /\ Len(s.queue) = n + 1
      /\ \A i \in 1..n : t.queue[i] = s.queue[i + 1]
      /\ DOMAIN s.queue = 1..(n + 1) /\ DOMAIN t.queue = 1..n
  BY <1>1
<1>3. \A i \in 0..n : MapAt(t, i) = MapAt(s, i + 1)
  BY <1>1, <1>2 DEF MapAt
<1> HIDE DEF n
<1>4. ASSUME NEW i \in DOMAIN t.queue
      PROVE  t.queue[i].changed <=> MapAt(t, i) # MapAt(t, i - 1)
  <2>1. /\ i + 1 \in DOMAIN s.queue /\ i \in 0..n /\ i - 1 \in 0..n
        /\ (i - 1) + 1 = i /\ (i + 1) - 1 = i
    BY <1>2
  <2>2. s.queue[i + 1].changed <=> MapAt(s, i + 1) # MapAt(s, i)
    BY <2>1 DEF Chain
  <2>3. MapAt(t, i) = MapAt(s, i + 1) /\ MapAt(t, i - 1) = MapAt(s, i)
    BY <1>3, <2>1
  <2> QED  BY <1>2, <2>1, <2>2, <2>3
<1>5. ASSUME NEW i \in 0..n, NEW j \in 0..n, i <= j,
             \A m \in DOMAIN t.queue : i < m /\ m <= j => ~t.queue[m].changed
      PROVE  MapAt(t, i) = MapAt(t, j)
  <2>1. i + 1 \in 0..Len(s.queue) /\ j + 1 \in 0..Len(s.queue) /\ i + 1 <= j + 1
    BY <1>2, <1>5
  <2>2. ASSUME NEW o \in DOMAIN s.queue, i + 1 < o, o <= j + 1 PROVE ~s.queue[o].changed
    <3>1. o - 1 \in DOMAIN t.queue /\ i < o - 1 /\ o - 1 <= j /\ t.queue[o - 1] = s.queue[o]
      BY <1>2, <2>2, SMTT(20)
    <3> QED  BY <1>5, <3>1
  <2>3. MapAt(s, i + 1) = MapAt(s, j + 1)
    BY <2>1, <2>2 DEF Chain
  <2> QED  BY <1>3, <2>3
<1>6. Chain(t)
  BY <1>2, <1>4, <1>5 DEF Chain
<1> QED  BY <1>2, <1>3, <1>6 DEF n

(* and a refusal, which may raise the first flag only where one was raised. *)
LEMMA FailedChain ==
    ASSUME NEW s, Shaped(s), Chain(s), s.queue # <<>>, NEW t, t = configureFailed(s)
    PROVE  /\ Chain(t) /\ Len(t.queue) = Len(s.queue) - 1
           /\ \A i \in 1..(Len(s.queue) - 1) :
                /\ t.queue[i].keymap = s.queue[i + 1].keymap
                /\ t.queue[i].changed => s.queue[i + 1].changed \/ (i = 1 /\ s.queue[1].changed)
<1> DEFINE n == Len(s.queue) - 1
<1>1. s.queue \in Seq(Entries) /\ Len(s.queue) \in Nat \ {0} /\ t.acked = s.acked
  BY ShapedIs, FailedIs
<1>2. /\ Len(t.queue) = n
      /\ \A i \in 1..n :
           /\ t.queue[i].keymap = s.queue[i + 1].keymap
           /\ t.queue[i].changed <=>
                s.queue[i + 1].keymap # (IF i = 1 THEN s.acked ELSE s.queue[i].keymap)
  BY FailedIs
<1>3. n \in Nat /\ DOMAIN s.queue = 1..(n + 1) /\ DOMAIN t.queue = 1..n /\ Len(s.queue) = n + 1
  <2>1. Shaped(t)
    BY FailedIs
  <2> QED  BY <1>1, <1>2, <2>1, QueueIs
<1> HIDE DEF n
<1>4. /\ MapAt(t, 0) = MapAt(s, 0)
      /\ \A i \in 1..n : MapAt(t, i) = MapAt(s, i + 1)
  BY <1>1, <1>2, <1>3 DEF MapAt
<1>5. ASSUME NEW i \in 1..n
      PROVE  t.queue[i].changed <=> MapAt(t, i) # MapAt(t, i - 1)
  <2>1. CASE i = 1
    <3>1. i - 1 = 0 /\ i + 1 # 0
      BY <2>1
    <3> QED  BY <1>2, <1>4, <2>1, <3>1 DEF MapAt
  <2>2. CASE i # 1
    <3>1. i - 1 \in 1..n /\ (i - 1) + 1 = i /\ i + 1 # 0 /\ i # 0
      BY <1>3, <2>2
    <3>2. MapAt(t, i - 1) = s.queue[i].keymap /\ MapAt(t, i) = s.queue[i + 1].keymap
      BY <1>4, <3>1 DEF MapAt
    <3> QED  BY <1>2, <2>2, <3>2
  <2> QED  BY <2>1, <2>2
<1>6. ASSUME NEW i \in 2..n
      PROVE  t.queue[i].changed <=> s.queue[i + 1].changed
  <2>1. i \in 1..n /\ i # 1 /\ i + 1 \in DOMAIN s.queue /\ (i + 1) - 1 = i /\ i # 0 /\ i + 1 # 0
    BY <1>3
  <2>2. s.queue[i + 1].changed <=> MapAt(s, i + 1) # MapAt(s, i)
    BY <2>1 DEF Chain
  <2> QED  BY <1>2, <2>1, <2>2 DEF MapAt
<1>7. ASSUME NEW i \in 1..n, NEW j \in 1..n, i <= j,
             \A m \in 1..n : i < m /\ m <= j => ~t.queue[m].changed
      PROVE  MapAt(t, i) = MapAt(t, j)
  <2>1. i + 1 \in 0..Len(s.queue) /\ j + 1 \in 0..Len(s.queue) /\ i + 1 <= j + 1
    BY <1>3, <1>7
  <2>2. ASSUME NEW o \in DOMAIN s.queue, i + 1 < o, o <= j + 1 PROVE ~s.queue[o].changed
    <3>1. o - 1 \in 2..n /\ o - 1 \in 1..n /\ i < o - 1 /\ o - 1 <= j /\ (o - 1) + 1 = o
      BY <1>3, <2>2
    <3>2. ~t.queue[o - 1].changed
      BY <1>7, <3>1
    <3>3. t.queue[o - 1].changed <=> s.queue[(o - 1) + 1].changed
      BY <1>6, <3>1
    <3> QED  BY <3>1, <3>2, <3>3
  <2>3. MapAt(s, i + 1) = MapAt(s, j + 1)
    BY <2>1, <2>2 DEF Chain
  <2> QED  BY <1>4, <2>3
<1>8. ASSUME NEW i \in 0..n, NEW j \in 0..n, i <= j,
             \A m \in DOMAIN t.queue : i < m /\ m <= j => ~t.queue[m].changed
      PROVE  MapAt(t, i) = MapAt(t, j)
  <2>1. CASE i # 0
    <3>1. i \in 1..n /\ j \in 1..n
      BY <1>3, <1>8, <2>1
    <3> QED  BY <1>3, <1>7, <1>8, <3>1
  <2>2. CASE i = 0 /\ j = 0
    BY <2>2
  <2>3. CASE i = 0 /\ j # 0
    <3>1. 1 \in 1..n /\ j \in 1..n /\ 1 <= j /\ 1 - 1 = 0
      BY <1>3, <2>3
    <3>2. \A m \in 1..n : 1 < m /\ m <= j => ~t.queue[m].changed
      BY <1>3, <1>8, <2>3
    <3>3. MapAt(t, 1) = MapAt(t, j)
      BY <1>7, <3>1, <3>2
    <3>4. ~t.queue[1].changed
      BY <1>3, <1>8, <2>3, <3>1
    <3>5. MapAt(t, 1) = MapAt(t, 0)
      BY <1>5, <3>1, <3>4
    <3> QED  BY <2>3, <3>3, <3>5
  <2> QED  BY <2>1, <2>2, <2>3
<1>9. Chain(t)
  BY <1>2, <1>3, <1>5, <1>8, SMTT(20) DEF Chain
<1>10. ASSUME NEW i \in 1..n, t.queue[i].changed
       PROVE  s.queue[i + 1].changed \/ (i = 1 /\ s.queue[1].changed)
  <2>1. CASE i # 1
    <3>1. i \in 2..n
      BY <1>3, <2>1
    <3> QED  BY <1>6, <1>10, <3>1
  <2>2. CASE i = 1
    <3>1. 1 \in DOMAIN s.queue /\ 2 \in DOMAIN s.queue /\ 2 - 1 = 1 /\ 1 - 1 = 0 /\ 1 + 1 = 2
      BY <1>3, <2>2
    <3>2. /\ s.queue[1].changed <=> MapAt(s, 1) # MapAt(s, 0)
          /\ s.queue[2].changed <=> MapAt(s, 2) # MapAt(s, 1)
      BY <3>1 DEF Chain
    <3>3. MapAt(s, 2) # MapAt(s, 0)
      BY <1>2, <1>10, <2>2, <3>1 DEF MapAt
    <3> QED  BY <2>2, <3>1, <3>2, <3>3
  <2> QED  BY <2>1, <2>2
<1> QED  BY <1>2, <1>9, <1>10 DEF n

-----------------------------------------------------------------------------
(* The invariant. *)
HelperWords == [word : {"configured", "cannot", "bad group"}, gen : Nat]
Meanings == [modifiers : SUBSET ModifierKeys, sure : BOOLEAN]
Configured(i) == replies[i].word = "configured"

(* What the variables range over. *)
TypingTyped ==
    /\ Shaped(session)
    /\ session.acked \in Keymaps \cup {NoKeymap} /\ session.ackedGen \in Nat
    /\ session.ackedGen = 0 <=> session.acked = NoKeymap
    /\ sends \in Nat /\ stamps \in Seq(Nat) /\ Len(stamps) = Len(session.queue)
    /\ inputReady \in BOOLEAN /\ pointer \in BOOLEAN /\ linked \in BOOLEAN /\ withheld \in BOOLEAN
    /\ Regular(ledger)
    /\ wire \in Seq(Commands) /\ replies \in Seq(HelperWords)
    /\ held \subseteq KeyNames
    /\ installedGen \in Nat \ {0} /\ installedMap \in Keymaps \cup {NoKeymap}
    /\ meant \in Seq(Meanings) /\ blindLines \in Nat

(* The gate, the link, and what nothing acknowledged leaves undone. *)
TypingGate ==
    /\ ~pointer => ledger.pending = NoPending
    /\ inputReady => /\ linked /\ session.ackedGen # 0
                     /\ \A i \in DOMAIN session.queue : ~session.queue[i].changed
    /\ ~linked => held = {} /\ wire = <<>> /\ replies = <<>> /\ meant = <<>>
    /\ linked /\ session.ackedGen = 0 => ledger.pending = NoPending /\ held = {} /\ NoDowns(wire)

(* Generations on their way: in order, one keymap each, and a drain not yet heard of
   leaves in hand only keys pressed blind. *)
TypingGens ==
    linked =>
    /\ session.ackedGen <= installedGen
    /\ session.ackedGen = installedGen /\ installedMap # NoKeymap => session.acked = installedMap
    /\ installedMap # NoKeymap =>
         \/ session.ackedGen = installedGen
         \/ session.ackedGen = 0 /\ \A i \in DOMAIN replies : ~Configured(i)
         \/ \E i \in DOMAIN replies : Configured(i) /\ replies[i].gen = installedGen
    /\ \A i \in DOMAIN replies : Configured(i) =>
         /\ replies[i].gen \in 1..installedGen /\ session.ackedGen <= replies[i].gen
         /\ replies[i].gen = session.ackedGen => session.queue[i].keymap = session.acked
         /\ replies[i].gen = installedGen /\ installedMap # NoKeymap
              => session.queue[i].keymap = installedMap
         /\ replies[i].gen # session.ackedGen => held \subseteq blind
    /\ \A i, j \in DOMAIN replies : i < j /\ Configured(i) /\ Configured(j) =>
         /\ replies[i].gen <= replies[j].gen
         /\ replies[i].gen = replies[j].gen => session.queue[i].keymap = session.queue[j].keymap

(* No key is put down behind line p. *)
QuietAfter(w, p) == \A j \in DOMAIN w : j > p => w[j][1] # "down"

(* The configures of the queue are replied to, or on the wire in order, and no key is
   put down behind one that changes the keymap. *)
TypingConfs ==
    linked =>
    /\ Chain(session) /\ Len(replies) <= Len(session.queue)
    /\ \E at \in [1..(Len(session.queue) - Len(replies)) -> ConfsAt(wire)] :
         /\ Enumerates(at, Len(session.queue) - Len(replies), ConfsAt(wire))
         /\ \A d \in 1..(Len(session.queue) - Len(replies)) :
              /\ wire[at[d]][2] = session.queue[Len(replies) + d].keymap
              /\ session.queue[Len(replies) + d].changed => QuietAfter(wire, at[d])
    /\ \A i \in DOMAIN replies : session.queue[i].changed => NoDowns(wire)

(* What the ledger does not call down is up, or on its way up. *)
TypingUps ==
    linked => \A x \in KeyNames \ HeldBy(ledger) :
                Free(wire, held \ blind, blindLines, x, End(wire))

(* A lock is down or on its way down, unless a refusal on its way says it may be up. *)
Refusal == \E i \in DOMAIN replies :
             replies[i].word = "cannot" /\ session.queue[i].keymap # session.acked
TypingLocks ==
    linked /\ KeymapIsKnown /\ ~withheld /\ "shift" \in Locked(ledger) \ ledger.pending.restore
      => Sure(wire, held, "shift", End(wire)) \/ Refusal

(* Each key on the wire goes down under what it was drawn with. *)
Drawn(w, hand, all, lines, known, meaning, p) ==
    /\ \A x \in ModifierKeys \ meaning.modifiers : Free(w, hand, lines, x, p)
    /\ known /\ meaning.sure => \A x \in meaning.modifiers : Sure(w, all, x, p)
TypingMeant ==
    linked =>
    \E at \in [1..Len(meant) -> KeysAt(wire)] :
      /\ Enumerates(at, Len(meant), KeysAt(wire))
      /\ \A n \in 1..Len(meant) : at[n] > blindLines =>
           Drawn(wire, held \ blind, held, blindLines, KeymapIsKnown, meant[n], at[n])

TypingInv == /\ TypingTyped /\ TypingGate /\ TypingGens /\ TypingConfs
             /\ TypingUps /\ TypingLocks /\ TypingMeant

-----------------------------------------------------------------------------
(* Strokes written behind what is on the wire. *)
Steady ==
    /\ session' = session /\ replies' = replies /\ linked' = linked
    /\ held' = held /\ installedGen' = installedGen /\ installedMap' = installedMap
    /\ blind' = blind /\ blindLines' = blindLines
(* What decides whether a key is up or down. *)
SameHands ==
    /\ linked' = linked /\ held' = held /\ blind' = blind /\ blindLines' = blindLines
    /\ KeymapIsKnown' <=> KeymapIsKnown
(* No drain is ahead. *)
NoFlags == \A i \in DOMAIN session.queue : ~session.queue[i].changed

(* Strokes are lines, and no configure is among them. *)
LEMMA StrokesAre ==
    ASSUME TypingTyped, NEW lines \in Seq(Strokes)
    PROVE  /\ lines \in Seq(Commands) /\ wire \in Seq(Commands) /\ wire \o lines \in Seq(Commands)
           /\ Len(wire) \in Nat /\ Len(lines) \in Nat
           /\ End(wire) \in Nat /\ End(lines) \in Nat \ {0}
           /\ End(wire \o lines) = Len(wire) + End(lines)
           /\ ConfsAt(lines) = {} /\ ConfsAt(wire \o lines) = ConfsAt(wire)
<1>1. Strokes \subseteq Commands
  BY DEF Commands
<1>2. lines \in Seq(Commands) /\ wire \in Seq(Commands)
  BY <1>1 DEF TypingTyped
<1>3. \A i \in DOMAIN lines : lines[i] \in Strokes
  OBVIOUS
<1>4. ConfsAt(lines) = {}
  BY <1>3 DEF ConfsAt, Strokes
<1>5. ConfsAt(wire \o lines) = ConfsAt(wire)
  <2>1. ConfsAt(wire \o lines) = ConfsAt(wire) \cup {Len(wire) + i : i \in ConfsAt(lines)}
    BY <1>2, PlacesJoined
  <2>2. {Len(wire) + i : i \in ConfsAt(lines)} = {}
    BY <1>4
  <2> QED  BY <2>1, <2>2
<1>6. wire \o lines \in Seq(Commands) /\ Len(wire \o lines) = Len(wire) + Len(lines)
      /\ Len(wire) \in Nat /\ Len(lines) \in Nat
  BY <1>2, Joined
<1> QED  BY <1>2, <1>4, <1>5, <1>6 DEF End

(* What the lines of b leave at the end of a joined with b. *)
LEMMA FreeAtEnd ==
    ASSUME NEW a \in Seq(Commands), NEW b \in Seq(Commands), NEW x, NEW hand, NEW n
    PROVE  /\ Lifts(b, x, End(b)) => Free(a \o b, hand, n, x, End(a \o b))
           /\ Lowers(b, x, End(b)) => Sure(a \o b, hand, x, End(a \o b))
           /\ Unnamed(b, x, End(b)) /\ Free(a, hand, n, x, End(a))
                => Free(a \o b, hand, n, x, End(a \o b))
           /\ Unnamed(b, x, End(b)) /\ Sure(a, hand, x, End(a))
                => Sure(a \o b, hand, x, End(a \o b))
<1> DEFINE q == End(b)
           p == End(a \o b)
<1>1. q \in Nat \ {0} /\ q <= End(b) /\ p = Len(a) + q
  BY Joined DEF End
<1> HIDE DEF q, p
<1>2. /\ Lifts(b, x, q) => Free(a \o b, hand, n, x, p)
      /\ Lowers(b, x, q) => Sure(a \o b, hand, x, p)
      /\ Unnamed(b, x, q) /\ Free(a, hand, n, x, End(a)) => Free(a \o b, hand, n, x, p)
      /\ Unnamed(b, x, q) /\ Sure(a, hand, x, End(a)) => Sure(a \o b, hand, x, p)
  BY <1>1, FreeBehind
<1> QED  BY <1>2 DEF q, p

(* Lines that cover the ledger's change keep up what it does not call down. *)
LEMMA StrokesUps ==
    ASSUME TypingTyped, TypingUps, linked, Steady, NEW lines, NEW f,
           Covers(ledger, ledger', lines, f), wire' = wire \o lines
    PROVE  TypingUps'
<1>1. PICK down, up :
        /\ Acts(lines, down, up)
        /\ down \subseteq HeldBy(ledger') /\ HeldBy(ledger) \subseteq HeldBy(ledger') \cup up
  BY DEF Covers
<1>2. lines \in Seq(Strokes)
  BY DEF Covers
<1>3. /\ lines \in Seq(Commands) /\ wire \in Seq(Commands)
      /\ End(lines) \in Nat \ {0} /\ End(wire') = Len(wire) + End(lines)
  BY <1>2, StrokesAre
<1> DEFINE hand == held \ blind
<1>4. ASSUME NEW x \in KeyNames, x \notin HeldBy(ledger')
      PROVE  Free(wire', hand, blindLines, x, End(wire'))
  <2>1. x \notin down
    BY <1>1, <1>4
  <2>2. CASE x \in up
    <3>1. Lifts(lines, x, End(lines))
      BY <1>1, <2>2 DEF Acts
    <3> HIDE DEF hand
    <3> QED  BY <1>3, <3>1, FreeAtEnd
  <2>3. CASE x \notin up
    <3>1. Unnamed(lines, x, End(lines))
      BY <1>1, <2>1, <2>3 DEF Acts
    <3>2. x \notin HeldBy(ledger)
      BY <1>1, <1>4, <2>3
    <3>3. Free(wire, hand, blindLines, x, End(wire))
      BY <3>2 DEF TypingUps
    <3> HIDE DEF hand
    <3> QED  BY <1>3, <3>1, <3>3, FreeAtEnd
  <2> QED  BY <2>2, <2>3
<1> QED  BY <1>4 DEF TypingUps, Steady

(* And the lock it says is down. *)
LEMMA StrokesLocks ==
    ASSUME TypingTyped, TypingLocks, linked, Steady, NEW lines, NEW f,
           Covers(ledger, ledger', lines, f), wire' = wire \o lines,
           f \/ withheld', withheld => withheld'
    PROVE  TypingLocks'
<1> SUFFICES ASSUME KeymapIsKnown, ~withheld',
                    "shift" \in Locked(ledger') \ ledger'.pending.restore
             PROVE  Sure(wire', held, "shift", End(wire')) \/ Refusal
  BY DEF TypingLocks, Steady, KeymapIsKnown, Refusal
<1>1. PICK down, up :
        /\ Acts(lines, down, up)
        /\ \/ "shift" \in down
           \/ "shift" \notin up /\ "shift" \in Locked(ledger) \ ledger.pending.restore
  BY DEF Covers
<1>2. lines \in Seq(Strokes)
  BY DEF Covers
<1>3. /\ lines \in Seq(Commands) /\ wire \in Seq(Commands)
      /\ End(lines) \in Nat \ {0} /\ End(wire') = Len(wire) + End(lines)
  BY <1>2, StrokesAre
<1>4. CASE "shift" \in down
  <2>1. Lowers(lines, "shift", End(lines))
    BY <1>1, <1>4 DEF Acts
  <2>2. Sure(wire', held, "shift", End(wire'))
    BY <1>3, <2>1, FreeAtEnd
  <2> QED  BY <2>2
<1>5. CASE "shift" \notin down
  <2>1. "shift" \notin up /\ "shift" \in Locked(ledger) \ ledger.pending.restore
    BY <1>1, <1>5
  <2>2. Unnamed(lines, "shift", End(lines))
    BY <1>1, <1>5, <2>1 DEF Acts
  <2>3. Sure(wire, held, "shift", End(wire)) \/ Refusal
    BY <2>1 DEF TypingLocks
  <2>4. Sure(wire, held, "shift", End(wire)) => Sure(wire', held, "shift", End(wire'))
    BY <1>3, <2>2, FreeAtEnd
  <2> QED  BY <2>3, <2>4
<1> QED  BY <1>4, <1>5

(* What was drawn for a key that is on the wire already stays true. *)
LEMMA DrawnStays ==
    ASSUME NEW w \in Seq(Commands), NEW lines \in Seq(Commands), NEW hand, NEW all, NEW n,
           NEW known, NEW meaning, NEW p \in Nat, p <= End(w),
           Drawn(w, hand, all, n, known, meaning, p)
    PROVE  Drawn(w \o lines, hand, all, n, known, meaning, p)
  BY FreeBefore DEF Drawn

(* Lines without a key leave what was meant. *)
LEMMA MeantKept ==
    ASSUME TypingTyped, TypingMeant, linked, SameHands, NEW lines \in Seq(Commands),
           wire' = wire \o lines, KeysAt(lines) = {}, meant' = meant
    PROVE  TypingMeant'
<1>1. wire \in Seq(Commands)
  BY DEF TypingTyped
<1>2. KeysAt(wire') = KeysAt(wire)
  <2>1. KeysAt(wire \o lines) = KeysAt(wire) \cup {Len(wire) + i : i \in KeysAt(lines)}
    BY <1>1, PlacesJoined
  <2>2. {Len(wire) + i : i \in KeysAt(lines)} = {}
    OBVIOUS
  <2> QED  BY <2>1, <2>2
<1>3. PICK at \in [1..Len(meant) -> KeysAt(wire)] :
        /\ Enumerates(at, Len(meant), KeysAt(wire))
        /\ \A n \in 1..Len(meant) : at[n] > blindLines =>
             Drawn(wire, held \ blind, held, blindLines, KeymapIsKnown, meant[n], at[n])
  BY DEF TypingMeant
<1>4. ASSUME NEW n \in 1..Len(meant), at[n] > blindLines
      PROVE  Drawn(wire', held \ blind, held, blindLines, KeymapIsKnown, meant[n], at[n])
  <2>1. at[n] \in KeysAt(wire)
    OBVIOUS
  <2>2. at[n] \in Nat /\ at[n] <= End(wire)
    BY <1>1, <2>1 DEF KeysAt, End
  <2> QED  BY <1>1, <1>3, <1>4, <2>2, DrawnStays
<1> QED  BY <1>2, <1>3, <1>4 DEF TypingMeant, SameHands

(* MeantKept, for strokes. *)
LEMMA StrokesKept ==
    ASSUME TypingTyped, TypingMeant, linked, Steady, NEW lines \in Seq(Strokes), NoKeys(lines),
           wire' = wire \o lines, meant' = meant
    PROVE  TypingMeant'
<1>1. KeysAt(lines) = {}
  BY DEF KeysAt, NoKeys
<1>2. lines \in Seq(Commands)
  BY StrokesAre
<1>3. SameHands
  BY DEF Steady, SameHands, KeymapIsKnown
<1> QED  BY <1>1, <1>2, <1>3, MeantKept

(* No key is put down behind a drain: the lines lift, or no drain is ahead. *)
LEMMA StrokesConfs ==
    ASSUME TypingTyped, TypingConfs, linked, Steady, NEW lines \in Seq(Strokes),
           wire' = wire \o lines, NoDowns(lines) \/ NoFlags
    PROVE  TypingConfs'
<1>1. /\ lines \in Seq(Commands) /\ wire \in Seq(Commands) /\ ConfsAt(wire') = ConfsAt(wire)
  BY StrokesAre
<1> DEFINE m == Len(replies)
           n == Len(session.queue) - m
<1>2. PICK at \in [1..n -> ConfsAt(wire)] :
         /\ Enumerates(at, n, ConfsAt(wire))
         /\ \A d \in 1..n :
              /\ wire[at[d]][2] = session.queue[m + d].keymap
              /\ session.queue[m + d].changed => QuietAfter(wire, at[d])
  BY DEF TypingConfs
<1>3. /\ Len(wire) \in Nat /\ Len(lines) \in Nat
      /\ DOMAIN wire = 1..Len(wire) /\ DOMAIN lines = 1..Len(lines)
      /\ DOMAIN wire' = 1..(Len(wire) + Len(lines))
      /\ \A j \in 1..Len(wire) : wire'[j] = wire[j]
      /\ \A j \in 1..(Len(wire) + Len(lines)) :
           j \in 1..Len(wire) \/ (j - Len(wire) \in 1..Len(lines) /\ wire'[j] = lines[j - Len(wire)])
  BY <1>1, Joined
<1>4. Shaped(session) /\ Len(replies) \in Nat /\ Len(replies) <= Len(session.queue)
  BY DEF TypingTyped, TypingConfs
<1>5. Len(session.queue) \in Nat /\ DOMAIN session.queue = 1..Len(session.queue)
      /\ DOMAIN replies = 1..Len(replies)
  BY <1>4, QueueIs DEF TypingTyped
<1>6. ASSUME NEW d \in 1..n
      PROVE  /\ wire'[at[d]][2] = session.queue[m + d].keymap
             /\ session.queue[m + d].changed => QuietAfter(wire', at[d])
  <2>1. at[d] \in 1..Len(wire)
    BY <1>3 DEF ConfsAt
  <2>2. m + d \in DOMAIN session.queue
    BY <1>4, <1>5
  <2>3. ASSUME session.queue[m + d].changed PROVE QuietAfter(wire', at[d])
    <3>1. NoDowns(lines)
      BY <2>2, <2>3 DEF NoFlags
    <3>2. QuietAfter(wire, at[d])
      BY <1>2, <2>3
    <3> QED  BY <1>3, <3>1, <3>2 DEF QuietAfter, NoDowns
  <2> QED  BY <1>2, <1>3, <2>1, <2>3
<1>7. ASSUME NEW i \in DOMAIN replies, session.queue[i].changed
      PROVE  NoDowns(wire')
  <2>1. i \in DOMAIN session.queue
    BY <1>4, <1>5
  <2>2. NoDowns(lines) /\ NoDowns(wire)
    BY <1>7, <2>1 DEF NoFlags, TypingConfs
  <2> QED  BY <1>1, <2>2, NoneJoined
<1>8. Chain(session)
  BY DEF TypingConfs
<1> QED  BY <1>1, <1>2, <1>4, <1>6, <1>7, <1>8 DEF TypingConfs, Steady

(* The lines before a key, seen in the whole run. *)
LEMMA BeforeKey ==
    ASSUME NEW pre \in Seq(Strokes), NEW post \in Seq(Strokes), NEW key \in KeyNames,
           NEW lines, lines = (pre \o <<Down(key)>>) \o post, NEW x
    PROVE  /\ lines \in Seq(Strokes) /\ End(pre) \in Nat \ {0} /\ End(pre) <= End(lines)
           /\ Lifts(pre, x, End(pre)) => Lifts(lines, x, End(pre))
           /\ Lowers(pre, x, End(pre)) => Lowers(lines, x, End(pre))
           /\ Unnamed(pre, x, End(pre)) => Unnamed(lines, x, End(pre))
<1> DEFINE k == <<Down(key)>>
           a == pre \o k
           p == End(pre)
<1>1. k \in Seq(Strokes) /\ Len(k) = 1
  <2>1. k \in Seq(Strokes)
    BY OneActs
  <2>2. Len(k) = 1
    OBVIOUS
  <2> QED  BY <2>1, <2>2
<1> HIDE DEF k
<1>2. a \in Seq(Strokes) /\ Len(a) = Len(pre) + 1 /\ Len(pre) \in Nat
  <2>1. a \in Seq(Strokes) /\ Len(a) = Len(pre) + Len(k) /\ Len(pre) \in Nat
    BY <1>1, Joined
  <2> QED  BY <1>1, <2>1
<1>3. p \in Nat \ {0} /\ p <= End(pre) /\ p <= End(a) /\ p \in Nat
  BY <1>2 DEF End
<1> HIDE DEF p
<1>4. /\ Lifts(pre, x, p) => Lifts(a, x, p)
      /\ Lowers(pre, x, p) => Lowers(a, x, p)
      /\ Unnamed(pre, x, p) => Unnamed(a, x, p)
  BY <1>1, <1>3, BeforeSeam
<1> HIDE DEF a
<1>5. /\ Lifts(a, x, p) => Lifts(a \o post, x, p)
      /\ Lowers(a, x, p) => Lowers(a \o post, x, p)
      /\ Unnamed(a, x, p) => Unnamed(a \o post, x, p)
  BY <1>2, <1>3, BeforeSeam
<1>6. a \o post \in Seq(Strokes) /\ Len(a \o post) = Len(a) + Len(post) /\ Len(post) \in Nat
  BY <1>2, Joined
<1>7. lines = a \o post
  BY DEF a, k
<1>8. End(pre) <= End(lines)
  BY <1>2, <1>6, <1>7 DEF End
<1> QED  BY <1>3, <1>4, <1>5, <1>6, <1>7, <1>8 DEF p

(* A run that types one key has it in one place. *)
LEMMA KeyIsAt ==
    ASSUME NEW pre \in Seq(Strokes), NEW post \in Seq(Strokes),
           NEW key \in KeyNames \ ModifierKeys,
           NoKeys(pre), NoKeys(post), NEW lines, lines = (pre \o <<Down(key)>>) \o post
    PROVE  KeysAt(lines) = {End(pre)}
<1> DEFINE k == <<Down(key)>>
           a == pre \o k
<1>1. k \in Seq(Strokes)
  BY OneActs
<1>2. KeysAt(k) = {1}
  BY DEF KeysAt, IsKeyDown, Down
<1>3. KeysAt(pre) = {} /\ KeysAt(post) = {}
  BY DEF KeysAt, NoKeys
<1> HIDE DEF k
<1>4. a \in Seq(Strokes)
  BY <1>1, Joined
<1>5. KeysAt(a) = {Len(pre) + 1}
  <2>1. KeysAt(a) = KeysAt(pre) \cup {Len(pre) + i : i \in KeysAt(k)}
    BY <1>1, PlacesJoined
  <2> QED  BY <1>2, <1>3, <2>1
<1> HIDE DEF a
<1>6. KeysAt(a \o post) = KeysAt(a) \cup {Len(a) + i : i \in KeysAt(post)}
  BY <1>4, PlacesJoined
<1>7. {Len(a) + i : i \in KeysAt(post)} = {}
  BY <1>3
<1> QED  BY <1>5, <1>6, <1>7 DEF a, k, End

(* With no flag in the queue no refusal matters. *)
LEMMA NoRefusal ==
    ASSUME TypingTyped, TypingConfs, linked, NoFlags
    PROVE  ~Refusal
<1>1. Shaped(session) /\ Chain(session) /\ Len(replies) <= Len(session.queue)
  BY DEF TypingTyped, TypingConfs
<1>2. DOMAIN session.queue = 1..Len(session.queue) /\ DOMAIN replies = 1..Len(replies)
      /\ Len(session.queue) \in Nat /\ Len(replies) \in Nat
  BY <1>1, QueueIs DEF TypingTyped
<1>3. ASSUME NEW i \in DOMAIN replies PROVE session.queue[i].keymap = session.acked
  <2>1. i \in DOMAIN session.queue
    BY <1>1, <1>2
  <2> QED  BY <1>1, <2>1, Unchanged DEF NoFlags
<1> QED  BY <1>3 DEF Refusal

(* A key typed through an open gate goes down under what it was drawn with. *)
LEMMA StrokesTyped ==
    ASSUME TypingTyped, TypingUps, TypingLocks, TypingMeant, TypingConfs, linked, Steady, NoFlags,
           ledger.pending = NoPending, NEW set \in SUBSET ModifierKeys, NEW lines,
           Types(ledger, lines, set), wire' = wire \o lines,
           NEW meaning, meaning = [modifiers |-> set, sure |-> ~withheld],
           meant' = Append(meant, meaning)
    PROVE  TypingMeant'
<1>1. PICK pre \in Seq(Strokes), post \in Seq(Strokes), key \in KeyNames \ ModifierKeys :
        \E down, up :
          /\ lines = (pre \o <<Down(key)>>) \o post
          /\ NoKeys(pre) /\ NoKeys(post)
          /\ Acts(pre, down, up)
          /\ set = down \cup (Locked(ledger) \ up)
  BY DEF Types
<1>2. PICK down, up :
          /\ lines = (pre \o <<Down(key)>>) \o post
          /\ NoKeys(pre) /\ NoKeys(post)
          /\ Acts(pre, down, up)
          /\ set = down \cup (Locked(ledger) \ up)
  BY <1>1
<1>3. /\ lines \in Seq(Strokes) /\ End(pre) \in Nat \ {0} /\ End(pre) <= End(lines)
  BY <1>2, BeforeKey
<1>4. KeysAt(lines) = {End(pre)}
  BY <1>2, KeyIsAt
<1>5. /\ lines \in Seq(Commands) /\ wire \in Seq(Commands) /\ Len(wire) \in Nat
  BY <1>3, StrokesAre
<1> DEFINE p == Len(wire) + End(pre)
           hand == held \ blind
           m == Len(meant)
<1>6. KeysAt(wire') = KeysAt(wire) \cup {p}
  <2>1. KeysAt(wire \o lines) = KeysAt(wire) \cup {Len(wire) + i : i \in KeysAt(lines)}
    BY <1>5, PlacesJoined
  <2> QED  BY <1>4, <2>1
<1>7. p \in Nat /\ m \in Nat /\ KeysAt(wire) \in SUBSET Nat
      /\ \A i \in KeysAt(wire) : i < p /\ i \in Nat /\ i <= End(wire)
  <2>1. KeysAt(wire) \subseteq 1..Len(wire)
    BY <1>5 DEF KeysAt
  <2>2. m \in Nat
    BY DEF TypingTyped
  <2> QED  BY <1>3, <1>5, <2>1, <2>2 DEF End
<1>8. PICK at \in [1..m -> KeysAt(wire)] :
        /\ Enumerates(at, m, KeysAt(wire))
        /\ \A n \in 1..m : at[n] > blindLines =>
             Drawn(wire, hand, held, blindLines, KeymapIsKnown, meant[n], at[n])
  BY DEF TypingMeant
<1> DEFINE on == [i \in 1..(m + 1) |-> IF i <= m THEN at[i] ELSE p]
<1>9. Drawn(wire', hand, held, blindLines, KeymapIsKnown, meaning, p)
  <2>1. ASSUME NEW x
        PROVE  /\ Lifts(pre, x, End(pre)) => Lifts(lines, x, End(pre))
               /\ Lowers(pre, x, End(pre)) => Lowers(lines, x, End(pre))
               /\ Unnamed(pre, x, End(pre)) => Unnamed(lines, x, End(pre))
    BY <1>2, BeforeKey
  <2>2. meaning.modifiers = set /\ (meaning.sure <=> ~withheld)
    OBVIOUS
  <2>3. HeldBy(ledger) = Locked(ledger) /\ ledger.pending.restore = {}
    BY NoPendingIs DEF HeldBy, Chord
  <2>4. Locked(ledger) \subseteq {"shift"} /\ ModifierKeys \subseteq KeyNames
    BY LedgerIs DEF TypingTyped, KeyNames
  <2> DEFINE q == End(pre)
  <2>5. q \in Nat \ {0} /\ q <= End(lines) /\ p = Len(wire) + q
    BY <1>3
  <2>6. ASSUME NEW x \in ModifierKeys \ set PROVE Free(wire', hand, blindLines, x, p)
    <3>1. x \notin down /\ (x \in up \/ x \notin Locked(ledger))
      BY <1>2, <2>6
    <3> HIDE DEF p, q, hand
    <3>2. CASE x \in up
      <4>1. Lifts(lines, x, q)
        BY <1>2, <2>1, <3>2 DEF Acts, q
      <4> QED  BY <1>5, <2>5, <4>1, FreeBehind
    <3>3. CASE x \notin up
      <4>1. Unnamed(lines, x, q)
        BY <1>2, <2>1, <3>1, <3>3 DEF Acts, q
      <4>2. Free(wire, hand, blindLines, x, End(wire))
        BY <2>3, <2>4, <3>1, <3>3 DEF TypingUps, hand
      <4> QED  BY <1>5, <2>5, <4>1, <4>2, FreeBehind
    <3> QED  BY <3>2, <3>3
  <2>7. ASSUME KeymapIsKnown, ~withheld, NEW x \in set PROVE Sure(wire', held, x, p)
    <3> HIDE DEF p, q, hand
    <3>1. CASE x \in down
      <4>1. Lowers(lines, x, q)
        BY <1>2, <2>1, <3>1 DEF Acts, q
      <4> QED  BY <1>5, <2>5, <4>1, FreeBehind
    <3>2. CASE x \notin down
      <4>1. x \in Locked(ledger) /\ x \notin up
        BY <1>2, <3>2
      <4>2. Unnamed(lines, x, q)
        BY <1>2, <2>1, <3>2, <4>1 DEF Acts, q
      <4>3. x = "shift" /\ "shift" \in Locked(ledger) \ ledger.pending.restore
        BY <2>3, <2>4, <4>1
      <4>4. Sure(wire, held, x, End(wire))
        BY <2>7, <4>3, NoRefusal DEF TypingLocks
      <4> QED  BY <1>5, <2>5, <4>2, <4>4, FreeBehind
    <3> QED  BY <3>1, <3>2
  <2> QED  BY <2>2, <2>6, <2>7 DEF Drawn
<1> HIDE DEF p, hand
<1>20. on = [i \in 1..(m + 1) |-> IF i <= m THEN at[i] ELSE p]
  OBVIOUS
<1> HIDE DEF on, m
<1>21. \A q \in KeysAt(wire) : q < p
  BY <1>7
<1>10. Enumerates(on, m + 1, KeysAt(wire'))
  <2> DEFINE P == KeysAt(wire)
  <2>1. P \in SUBSET Nat /\ Enumerates(at, m, P) /\ \A q \in P : q < p
    BY <1>7, <1>8, <1>21
  <2> HIDE DEF P
  <2>2. Enumerates(on, m + 1, P \cup {p})
    BY <1>7, <1>20, <2>1, OneMore
  <2> QED  BY <1>6, <2>2 DEF P
<1>11. meant' = Append(meant, meaning) /\ Len(meant') = m + 1
       /\ meant'[m + 1] = meaning /\ \A n \in 1..m : meant'[n] = meant[n]
  <2>1. meant \in Seq(Meanings) /\ meaning \in Meanings /\ m = Len(meant)
    BY DEF TypingTyped, Meanings, m
  <2>2. \A e : e = meaning => Append(meant, e)[m + 1] = e /\ Len(Append(meant, e)) = m + 1
                   /\ \A n \in 1..m : Append(meant, e)[n] = meant[n]
    BY <2>1
  <2> QED  BY <2>2
<1>12. ASSUME NEW n \in 1..(m + 1), on[n] > blindLines
       PROVE  Drawn(wire', hand, held, blindLines, KeymapIsKnown, meant'[n], on[n])
  <2>1. CASE n = m + 1
    <3>1. on[n] = p
      BY <1>7, <1>20, <2>1
    <3> QED  BY <1>9, <1>11, <2>1, <3>1
  <2>2. CASE n # m + 1
    <3>1. n \in 1..m /\ on[n] = at[n] /\ at[n] \in KeysAt(wire)
      BY <1>7, <1>8, <1>20, <2>2
    <3>2. at[n] \in Nat /\ at[n] <= End(wire)
      BY <1>7, <3>1
    <3>3. Drawn(wire, hand, held, blindLines, KeymapIsKnown, meant[n], at[n])
      BY <1>8, <1>12, <3>1
    <3>4. Drawn(wire \o lines, hand, held, blindLines, KeymapIsKnown, meant[n], at[n])
      BY <1>5, <3>2, <3>3, DrawnStays
    <3> QED  BY <1>11, <3>1, <3>4
  <2> QED  BY <2>1, <2>2
<1>13. on \in [1..(m + 1) -> KeysAt(wire')]
  BY <1>10 DEF Enumerates
<1> QED  BY <1>8, <1>10, <1>11, <1>12, <1>13 DEF TypingMeant, Steady, KeymapIsKnown, hand, m

-----------------------------------------------------------------------------
(* A step of the panel that writes strokes keeps the invariant. *)
LEMMA NothingJoined ==
    ASSUME NEW S, NEW w \in Seq(S)
    PROVE  w \o <<>> = w
  BY ConcatEmptySeq

(* An event of the reducer, its lines written. *)
LEMMA WrittenStep ==
    ASSUME TypingInv, Steady, UNCHANGED <<sends, stamps, inputReady>>,
           pointer' \in BOOLEAN, withheld' \in BOOLEAN, withheld => withheld',
           NEW lines, NEW f, Regular(ledger'), Covers(ledger, ledger', lines, f), Write(lines),
           f \/ withheld', ~pointer' => ledger'.pending = NoPending,
           linked /\ session.ackedGen = 0 => NoDowns(lines) /\ ledger'.pending = NoPending,
           NoDowns(lines) \/ NoFlags,
           \/ NoKeys(lines) /\ meant' = meant
           \/ /\ linked /\ NoFlags /\ ledger.pending = NoPending
              /\ \E set \in SUBSET ModifierKeys :
                    /\ Types(ledger, lines, set)
                    /\ meant' = Append(meant, [modifiers |-> set, sure |-> ~withheld])
    PROVE  TypingInv'
<1> USE DEF TypingInv
<1>1. lines \in Seq(Strokes)
  BY DEF Covers
<1>2. wire' \in Seq(Commands)
  <2>1. wire \in Seq(Commands) /\ wire \o lines \in Seq(Commands)
    BY <1>1, StrokesAre
  <2> QED  BY <2>1 DEF Write
<1>3. meant' \in Seq(Meanings)
  <2>1. meant \in Seq(Meanings)
    BY DEF TypingTyped
  <2>2. CASE meant' = meant
    BY <2>1, <2>2
  <2>3. CASE meant' # meant
    <3>1. PICK set \in SUBSET ModifierKeys :
             meant' = Append(meant, [modifiers |-> set, sure |-> ~withheld])
      BY <2>3
    <3> DEFINE e == [modifiers |-> set, sure |-> ~withheld]
    <3>2. e \in Meanings
      BY DEF Meanings
    <3>3. meant' = Append(meant, e)
      BY <3>1
    <3> HIDE DEF e
    <3> QED  BY <2>1, <3>2, <3>3
  <2> QED  BY <2>2, <2>3
<1>4. TypingTyped'
  BY <1>2, <1>3 DEF TypingTyped, Steady
<1>5. ~linked => wire' = wire /\ meant' = meant
  BY DEF Write
<1>6. linked /\ session.ackedGen = 0 => NoDowns(wire')
  <2>1. SUFFICES ASSUME linked, session.ackedGen = 0 PROVE NoDowns(wire')
    OBVIOUS
  <2>2. wire \in Seq(Commands) /\ lines \in Seq(Commands) /\ wire' = wire \o lines
    BY <1>1, <2>1, StrokesAre DEF Write
  <2>3. NoDowns(wire) /\ NoDowns(lines)
    BY <2>1 DEF TypingGate
  <2> QED  BY <2>2, <2>3, NoneJoined
<1>7. TypingGate'
  BY <1>5, <1>6 DEF TypingGate, Steady
<1>8. TypingGens'
  BY DEF TypingGens, Steady, Configured
<1>9. CASE ~linked
  <2>1. ~linked'
    BY <1>9 DEF Steady
  <2>2. TypingConfs' /\ TypingUps' /\ TypingLocks' /\ TypingMeant'
    BY <2>1 DEF TypingConfs, TypingUps, TypingLocks, TypingMeant
  <2> QED  BY <1>4, <1>7, <1>8, <2>2
<1>10. CASE linked
  <2>1. wire' = wire \o lines
    BY <1>10 DEF Write
  <2>2. TypingConfs'
    BY <1>1, <1>10, <2>1, StrokesConfs
  <2>3. TypingUps'
    BY <1>10, <2>1, StrokesUps
  <2>4. TypingLocks'
    BY <1>10, <2>1, StrokesLocks
  <2>5. TypingMeant'
    <3>1. CASE NoKeys(lines) /\ meant' = meant
      BY <1>1, <1>10, <2>1, <3>1, StrokesKept
    <3>2. CASE ~(NoKeys(lines) /\ meant' = meant)
      <4>1. PICK set \in SUBSET ModifierKeys :
                    /\ Types(ledger, lines, set)
                    /\ meant' = Append(meant, [modifiers |-> set, sure |-> ~withheld])
        BY <3>2
      <4> DEFINE e == [modifiers |-> set, sure |-> ~withheld]
      <4>2. meant' = Append(meant, e)
        BY <4>1
      <4>3. e = [modifiers |-> set, sure |-> ~withheld]
        OBVIOUS
      <4> HIDE DEF e
      <4>4. NoFlags /\ ledger.pending = NoPending
        BY <3>2
      <4> QED  BY <1>10, <2>1, <4>1, <4>2, <4>3, <4>4, StrokesTyped
    <3> QED  BY <3>1, <3>2
  <2> QED  BY <1>4, <1>7, <1>8, <2>2, <2>3, <2>4, <2>5
<1> QED  BY <1>9, <1>10

(* The gate is open: the link is up, something was acknowledged, and no drain is ahead. *)
LEMMA GateOpen ==
    ASSUME TypingInv
    PROVE  /\ inputReady => linked /\ NoFlags /\ session.ackedGen # 0
           /\ ~pointer => ledger.pending = NoPending
           /\ Regular(ledger) /\ sends \in Nat /\ pointer \in BOOLEAN /\ withheld \in BOOLEAN
           /\ linked /\ session.ackedGen = 0 => ledger.pending = NoPending
           /\ hasDrainAhead(session) <=> ~NoFlags
<1>1. Shaped(session)
  BY DEF TypingInv, TypingTyped
<1> QED  BY <1>1, QueueIs DEF TypingInv, TypingTyped, TypingGate, NoFlags, hasDrainAhead

(* PressCap keeps the invariant. *)
LEMMA PressCapStep ==
    ASSUME TypingInv, NEW cap \in Caps, PressCap(cap)
    PROVE  TypingInv'
<1> DEFINE out == press(ledger, cap, sends)
<1>1. /\ Regular(out.state) /\ Covers(ledger, out.state, out.lines, TRUE)
      /\ Types(ledger, out.lines, MeantIn(ledger, cap))
  BY GateOpen, PressIs DEF PressCap
<1>2. ledger' = out.state /\ Write(out.lines)
  BY DEF PressCap, Applied
<1>3. /\ Steady /\ UNCHANGED <<sends, stamps, inputReady>> /\ pointer' = TRUE
      /\ withheld' = withheld
  BY DEF PressCap, NoReply, Outside, helper, Steady
<1>4. MeantIn(ledger, cap) \in SUBSET ModifierKeys /\ Meant(cap) = MeantIn(ledger, cap)
  BY DEF MeantIn, Meant, ModifierKeys, Modifiers, KeyOf, ShiftMeant, ShiftMeantIn, isActive, ActiveIn
<1>5. meant' = Append(meant, [modifiers |-> MeantIn(ledger, cap), sure |-> ~withheld])
  BY <1>4 DEF PressCap, Means
<1>6. inputReady /\ ledger.pending = NoPending
  BY GateOpen DEF PressCap
<1> HIDE DEF out
<1> DEFINE lines == out.lines
           set == MeantIn(ledger, cap)
<1>7. Covers(ledger, ledger', lines, TRUE) /\ Write(lines) /\ Types(ledger, lines, set)
      /\ Regular(ledger') /\ set \in SUBSET ModifierKeys
      /\ meant' = Append(meant, [modifiers |-> set, sure |-> ~withheld])
  BY <1>1, <1>2, <1>4, <1>5
<1> HIDE DEF lines, set
<1> QED  BY <1>3, <1>6, <1>7, GateOpen, WrittenStep

(* ReleaseCap: what it withholds it records. *)
LEMMA ReleaseCapStep ==
    ASSUME TypingInv, ReleaseCap
    PROVE  TypingInv'
<1> DEFINE out == release(ledger, Restores)
           f == Restores \/ ledger.pending.restore = {}
           lines == out.lines
<1>1. Restores \in BOOLEAN /\ (Restores <=> NoFlags)
  BY GateOpen DEF Restores
<1>2. /\ Regular(out.state) /\ out.state.pending = NoPending
      /\ Covers(ledger, out.state, out.lines, FALSE)
      /\ Restores \/ ledger.pending.restore = {} => Covers(ledger, out.state, out.lines, TRUE)
      /\ NoKeys(out.lines) /\ (~Restores => NoDowns(out.lines))
      /\ ledger.pending = NoPending => NoDowns(out.lines)
  BY <1>1, GateOpen, ReleaseIs
<1>3. ledger' = out.state /\ Write(out.lines)
  BY DEF ReleaseCap, Applied
<1>4. /\ Steady /\ UNCHANGED <<sends, stamps, inputReady>> /\ pointer' = FALSE
      /\ withheld' = (withheld \/ (ledger.pending.restore # {} /\ ~Restores))
      /\ meant' = meant
  BY DEF ReleaseCap, NoReply, helper, Steady
<1> HIDE DEF out
<1>5. f \in BOOLEAN /\ Covers(ledger, ledger', lines, f)
  <2>1. CASE f
    BY <1>2, <1>3, <2>1
  <2>2. CASE ~f
    BY <1>2, <1>3, <2>2
  <2> QED  BY <2>1, <2>2
<1>6. (f \/ withheld') /\ withheld' \in BOOLEAN /\ (withheld => withheld')
  BY <1>1, <1>4, GateOpen
<1>7. /\ Regular(ledger') /\ ledger'.pending = NoPending /\ Write(lines) /\ NoKeys(lines)
      /\ NoDowns(lines) \/ NoFlags
      /\ linked /\ session.ackedGen = 0 => NoDowns(lines)
  BY <1>1, <1>2, <1>3, GateOpen
<1> HIDE DEF lines, f
<1> QED  BY <1>4, <1>5, <1>6, <1>7, WrittenStep

(* A step that writes no key's line, with nothing else about it but the gate. *)
LEMMA PlainStep ==
    ASSUME TypingInv, NoReply, Outside, meant' = meant, pointer' \in BOOLEAN,
           NEW lines, Regular(ledger'), Covers(ledger, ledger', lines, TRUE), Write(lines),
           NoKeys(lines), ~pointer' => ledger'.pending = NoPending,
           ledger.pending = NoPending => ledger'.pending = NoPending,
           NoDowns(lines) \/ inputReady
    PROVE  TypingInv'
<1>1. Steady /\ UNCHANGED <<sends, stamps, inputReady>> /\ withheld' = withheld
  BY DEF NoReply, Outside, helper, Steady
<1>2. NoDowns(lines) \/ (NoFlags /\ session.ackedGen # 0)
  BY GateOpen
<1> QED  BY <1>1, <1>2, GateOpen, WrittenStep

(* Nothing written at all. *)
LEMMA SilentStep ==
    ASSUME TypingInv, NoReply, Outside, meant' = meant, wire' = wire, pointer' = pointer,
           Regular(ledger'), HeldBy(ledger') = HeldBy(ledger), Locked(ledger') = Locked(ledger),
           ledger'.pending = ledger.pending
    PROVE  TypingInv'
<1>1. Covers(ledger, ledger', <<>>, TRUE)
  BY GateOpen, UntouchedCovers
<1>2. Write(<<>>)
  <2>1. wire \in Seq(Commands)
    BY DEF TypingInv, TypingTyped
  <2>2. wire \o <<>> = wire
    BY <2>1, NothingJoined
  <2> QED  BY <2>2 DEF Write
<1>3. NoKeys(<<>>) /\ NoDowns(<<>>)
  BY DEF NoKeys, NoDowns
<1> QED  BY <1>1, <1>2, <1>3, GateOpen, PlainStep

(* ClickModifier, through the gate or lost at it. *)
LEMMA ClickModifierStep ==
    ASSUME TypingInv, NEW m \in Clicked, ClickModifier(m)
    PROVE  TypingInv'
<1>1. NoReply /\ Outside /\ meant' = meant /\ pointer' = pointer /\ ~pointer
  BY DEF ClickModifier
<1>2. ledger.pending = NoPending
  BY <1>1, GateOpen
<1>3. CASE inputReady
  <2> DEFINE out == click(ledger, m)
             lines == out.lines
  <2>1. m \in Clickable
    BY TypingAssumption
  <2>2. /\ Regular(out.state) /\ out.state.pending = NoPending
        /\ Covers(ledger, out.state, out.lines, TRUE) /\ NoKeys(out.lines)
    BY <1>2, <2>1, GateOpen, ClickIs
  <2>3. ledger' = out.state /\ Write(out.lines)
    BY <1>3 DEF ClickModifier, Applied
  <2> HIDE DEF out
  <2>4. /\ Regular(ledger') /\ ledger'.pending = NoPending
        /\ Covers(ledger, ledger', lines, TRUE) /\ NoKeys(lines) /\ Write(lines)
    BY <2>2, <2>3
  <2> HIDE DEF lines
  <2> QED  BY <1>1, <1>3, <2>4, GateOpen, PlainStep
<1>4. CASE ~inputReady
  <2>1. ledger' = ledger /\ Write(<<>>)
    BY <1>4 DEF ClickModifier, Applied
  <2>2. wire' = wire
    <3>1. wire \in Seq(Commands)
      BY DEF TypingInv, TypingTyped
    <3>2. wire \o <<>> = wire
      BY <3>1, NothingJoined
    <3> QED  BY <2>1, <3>2 DEF Write
  <2> QED  BY <1>1, <2>1, <2>2, GateOpen, SilentStep
<1> QED  BY <1>3, <1>4

(* DoubleClickShift: the click, then the double click. *)
LEMMA DoubleClickShiftStep ==
    ASSUME TypingInv, DoubleClickShift
    PROVE  TypingInv'
<1>1. NoReply /\ Outside /\ meant' = meant /\ pointer' = pointer /\ ~pointer /\ inputReady
  BY DEF DoubleClickShift
<1>2. ledger.pending = NoPending
  BY <1>1, GateOpen
<1> DEFINE second == click(ledger, "shift")
           double == doubleClick(second.state, "shift")
           lines == second.lines \o double.lines
<1>3. "shift" \in Clickable
  BY DEF Clickable, Modifiers
<1>4. /\ Regular(second.state) /\ second.state.pending = NoPending
      /\ Covers(ledger, second.state, second.lines, TRUE) /\ NoKeys(second.lines)
  BY <1>2, <1>3, GateOpen, ClickIs
<1>5. ledger' = double.state /\ Write(lines)
  BY DEF DoubleClickShift, Applied
<1> HIDE DEF second
<1>6. /\ Regular(double.state) /\ double.state.pending = NoPending
      /\ Covers(second.state, double.state, double.lines, TRUE) /\ NoKeys(double.lines)
  BY <1>4, DoubleClickIs
<1> HIDE DEF double
<1>7. Covers(ledger, double.state, lines, TRUE)
  BY <1>4, <1>6, CoversInTurn
<1>8. NoKeys(lines)
  <2>1. second.lines \in Seq(Strokes) /\ double.lines \in Seq(Strokes)
    BY <1>4, <1>6 DEF Covers
  <2> QED  BY <1>4, <1>6, <2>1, NoneJoined
<1>9. Regular(ledger') /\ ledger'.pending = NoPending /\ Covers(ledger, ledger', lines, TRUE)
  BY <1>5, <1>6, <1>7
<1> HIDE DEF lines
<1> QED  BY <1>1, <1>5, <1>8, <1>9, GateOpen, PlainStep

(* ClickCaps moves no key. *)
LEMMA ClickCapsStep ==
    ASSUME TypingInv, ClickCaps
    PROVE  TypingInv'
<1>1. /\ NoReply /\ Outside /\ meant' = meant /\ pointer' = pointer /\ wire' = wire
      /\ ledger' = capsClick(ledger)
  BY DEF ClickCaps
<1>2. /\ Regular(ledger') /\ ledger'.pending = ledger.pending
      /\ HeldBy(ledger') = HeldBy(ledger) /\ Locked(ledger') = Locked(ledger)
  BY <1>1, GateOpen, CapsClickIs
<1> QED  BY <1>1, <1>2, SilentStep

(* SearchKey spends latches, which are not down. *)
LEMMA SearchKeyStep ==
    ASSUME TypingInv, SearchKey
    PROVE  TypingInv'
<1>1. /\ NoReply /\ Outside /\ meant' = meant /\ pointer' = pointer /\ wire' = wire
      /\ ledger' = spendLatches(ledger)
  BY DEF SearchKey, searchChar
<1>2. /\ Regular(ledger') /\ ledger'.pending = ledger.pending
      /\ HeldBy(ledger') = HeldBy(ledger) /\ Locked(ledger') = Locked(ledger)
  BY <1>1, GateOpen, SpentLatches
<1> QED  BY <1>1, <1>2, SilentStep

(* ReleaseModifiers lifts everything. *)
LEMMA ReleaseModifiersStep ==
    ASSUME TypingInv, ReleaseModifiers
    PROVE  TypingInv'
<1> DEFINE out == releaseAll(ledger)
           lines == out.lines
<1>1. /\ Regular(out.state) /\ out.state.pending = NoPending
      /\ Covers(ledger, out.state, out.lines, TRUE)
      /\ NoKeys(out.lines) /\ NoDowns(out.lines)
  BY GateOpen, ReleaseAllIs
<1>2. ledger' = out.state /\ Write(out.lines)
  BY DEF ReleaseModifiers, Applied
<1>3. NoReply /\ Outside /\ meant' = meant /\ pointer' = FALSE
  BY DEF ReleaseModifiers
<1> HIDE DEF out
<1>4. /\ Regular(ledger') /\ ledger'.pending = NoPending
      /\ Covers(ledger, ledger', lines, TRUE) /\ NoKeys(lines) /\ NoDowns(lines) /\ Write(lines)
  BY <1>1, <1>2
<1> HIDE DEF lines
<1> QED  BY <1>3, <1>4, PlainStep

(* PasteNow types its key under the modifiers asked for, and no other. *)
LEMMA PasteNowStep ==
    ASSUME TypingInv, NEW ctrl \in BOOLEAN, NEW shift \in BOOLEAN, PasteNow(ctrl, shift)
    PROVE  TypingInv'
<1> DEFINE out == paste(ledger, ctrl, shift, "PASTE")
           set == (IF ctrl THEN {"ctrl"} ELSE {}) \cup (IF shift THEN {"shift"} ELSE {})
           lines == out.lines
<1>1. inputReady /\ ledger.pending = NoPending
  BY DEF PasteNow
<1>2. /\ Regular(out.state) /\ out.state.pending = NoPending
      /\ Covers(ledger, out.state, out.lines, TRUE)
      /\ Types(ledger, out.lines, set)
  BY <1>1, GateOpen, PasteIs
<1>3. ledger' = out.state /\ Write(out.lines)
  BY DEF PasteNow, Applied
<1>4. /\ Steady /\ UNCHANGED <<sends, stamps, inputReady>> /\ pointer' = pointer
      /\ withheld' = withheld
  BY DEF PasteNow, NoReply, Outside, helper, Steady
<1>5. meant' = Append(meant, [modifiers |-> set, sure |-> ~withheld])
  BY DEF PasteNow, Means
<1>6. set \in SUBSET ModifierKeys
  BY DEF ModifierKeys, Modifiers
<1> HIDE DEF out
<1>7. /\ Regular(ledger') /\ ledger'.pending = NoPending
      /\ Covers(ledger, ledger', lines, TRUE) /\ Write(lines) /\ Types(ledger, lines, set)
  BY <1>2, <1>3
<1> HIDE DEF lines, set
<1> QED  BY <1>1, <1>4, <1>5, <1>6, <1>7, GateOpen, WrittenStep

-----------------------------------------------------------------------------
(* A new connection, with nothing on its way. *)
LEMMA NothingYet ==
    ASSUME session.queue = <<>>, session.acked = NoKeymap, session.ackedGen = 0, Shaped(session),
           wire = <<>>, replies = <<>>, meant = <<>>, held = {}, blindLines = 0,
           installedGen \in Nat \ {0}, Regular(ledger), Locked(ledger) = {}, HeldBy(ledger) = {}
    PROVE  TypingGens /\ TypingConfs /\ TypingUps /\ TypingLocks /\ TypingMeant
<1>1. Chain(session)
  BY DEF Chain
<1>2. KeysAt(wire) = {} /\ ConfsAt(wire) = {} /\ End(wire) = 1
  BY DEF KeysAt, ConfsAt, End
<1>3. <<>> \in [1..0 -> {}] /\ Enumerates(<<>>, 0, {})
  BY DEF Enumerates
<1>4. TypingGens
  BY DEF TypingGens, Configured
<1>5. TypingConfs
  <2>1. Len(session.queue) - Len(replies) = 0 /\ Len(replies) <= Len(session.queue)
    OBVIOUS
  <2>2. \A d \in 1..0 : FALSE
    OBVIOUS
  <2> QED  BY <1>1, <1>2, <1>3, <2>1, <2>2 DEF TypingConfs
<1>6. TypingUps
  BY DEF TypingUps, Free
<1>7. TypingLocks
  BY DEF TypingLocks
<1>8. TypingMeant
  <2>1. Len(meant) = 0
    OBVIOUS
  <2>2. \A d \in 1..0 : FALSE
    OBVIOUS
  <2> QED  BY <1>2, <1>3, <2>1, <2>2 DEF TypingMeant
<1> QED  BY <1>4, <1>5, <1>6, <1>7, <1>8

(* The ledger of a new panel holds nothing. *)
LEMMA InitialLedger ==
    /\ Regular(initialState) /\ Locked(initialState) = {} /\ HeldBy(initialState) = {}
    /\ initialState.pending = NoPending
<1>1. initialState \in Ledgers
  BY NoPendingIs DEF initialState, Ledgers, Values, NoClick
<1>2. Locked(initialState) = {} /\ initialState.pending = NoPending
  BY DEF initialState, Locked, InState
<1>3. initialState.mods["level5"] = "idle"
  BY DEF initialState, Modifiers
<1>4. Regular(initialState)
  BY <1>1, <1>2, <1>3, NoPendingIs DEF Regular
<1>5. HeldBy(initialState) = {}
  BY <1>2 DEF HeldBy, Chord
<1> QED  BY <1>2, <1>4, <1>5

(* The invariant holds at first. *)
LEMMA TypingInitInv ==
    ASSUME TypingInit
    PROVE  TypingInv
<1>1. /\ Shaped(session) /\ session.queue = <<>> /\ session.acked = NoKeymap
      /\ session.ackedGen = 0
  BY FreshSession DEF TypingInit
<1>2. /\ Regular(ledger) /\ Locked(ledger) = {} /\ HeldBy(ledger) = {}
      /\ ledger.pending = NoPending
  BY InitialLedger DEF TypingInit
<1>3. TypingTyped
  <2>1. Len(stamps) = Len(session.queue) /\ stamps \in Seq(Nat) /\ wire \in Seq(Commands)
        /\ replies \in Seq(HelperWords) /\ meant \in Seq(Meanings)
    BY <1>1 DEF TypingInit
  <2>2. installedGen \in Nat \ {0} /\ installedMap = NoKeymap /\ held = {} /\ blindLines = 0
        /\ sends = 0 /\ inputReady = FALSE /\ pointer = FALSE /\ linked = TRUE /\ withheld = FALSE
    BY DEF TypingInit
  <2>3. session.acked \in Keymaps \cup {NoKeymap} /\ session.ackedGen \in Nat
        /\ (session.ackedGen = 0 <=> session.acked = NoKeymap)
    BY <1>1
  <2>4. /\ sends \in Nat /\ inputReady \in BOOLEAN /\ pointer \in BOOLEAN
        /\ linked \in BOOLEAN /\ withheld \in BOOLEAN /\ held \subseteq KeyNames
        /\ installedGen \in Nat \ {0} /\ installedMap \in Keymaps \cup {NoKeymap}
        /\ blindLines \in Nat
    BY <2>2
  <2> QED  BY <1>1, <1>2, <2>1, <2>3, <2>4 DEF TypingTyped
<1>4. TypingGate
  BY <1>1, <1>2 DEF TypingInit, TypingGate, NoDowns
<1>5. TypingGens /\ TypingConfs /\ TypingUps /\ TypingLocks /\ TypingMeant
  BY <1>1, <1>2, NothingYet DEF TypingInit
<1> QED  BY <1>3, <1>4, <1>5 DEF TypingInv

(* Reconnect: a ledger anew, over a device that holds nothing. *)
LEMMA ReconnectStep ==
    ASSUME TypingInv, Reconnect
    PROVE  TypingInv'
<1>1. /\ Shaped(session') /\ session'.queue = <<>> /\ session'.acked = NoKeymap
      /\ session'.ackedGen = 0
  BY FreshSession DEF Reconnect
<1>2. /\ Regular(ledger') /\ Locked(ledger') = {} /\ HeldBy(ledger') = {}
      /\ ledger'.pending = NoPending
  <2> DEFINE out == releaseAll(ledger)
  <2>1. /\ Regular(out.state) /\ Locked(out.state) = {} /\ HeldBy(out.state) = {}
        /\ out.state.pending = NoPending
    BY GateOpen, ReleaseAllIs
  <2>2. ledger' = out.state
    BY DEF Reconnect, LedgerAnew
  <2> HIDE DEF out
  <2> QED  BY <2>1, <2>2
<1>3. /\ ~linked /\ linked' = TRUE /\ sends' = 0 /\ stamps' = <<>> /\ withheld' = FALSE
      /\ inputReady' = inputReady /\ pointer' = pointer /\ wire' = wire /\ replies' = replies
      /\ held' = held /\ installedGen' = installedGen /\ installedMap' = installedMap
      /\ meant' = meant /\ blindLines' = blindLines
  BY DEF Reconnect, helper
<1>4. /\ ~inputReady /\ held = {} /\ wire = <<>> /\ replies = <<>> /\ meant = <<>>
  BY <1>3, GateOpen DEF TypingInv, TypingGate
<1>5. TypingTyped'
  <2>1. TypingTyped /\ Len(stamps') = 0 /\ Len(session'.queue) = 0
    BY <1>1, <1>3 DEF TypingInv
  <2>2. stamps' \in Seq(Nat) /\ sends' \in Nat /\ linked' \in BOOLEAN /\ withheld' \in BOOLEAN
    <3>1. stamps' \in Seq(Nat)
      BY <1>3
    <3>2. sends' \in Nat /\ linked' \in BOOLEAN /\ withheld' \in BOOLEAN
      BY <1>3
    <3> QED  BY <3>1, <3>2
  <2>3. session'.acked \in Keymaps \cup {NoKeymap} /\ session'.ackedGen \in Nat
        /\ (session'.ackedGen = 0 <=> session'.acked = NoKeymap)
    BY <1>1
  <2>4. /\ inputReady' \in BOOLEAN /\ pointer' \in BOOLEAN /\ wire' \in Seq(Commands)
        /\ replies' \in Seq(HelperWords) /\ meant' \in Seq(Meanings) /\ held' \subseteq KeyNames
        /\ installedGen' \in Nat \ {0} /\ installedMap' \in Keymaps \cup {NoKeymap}
        /\ blindLines' \in Nat
    BY <1>3, <2>1 DEF TypingTyped
  <2> QED  BY <1>1, <1>2, <2>1, <2>2, <2>3, <2>4 DEF TypingTyped
<1>6. TypingGate'
  BY <1>1, <1>2, <1>3, <1>4 DEF TypingGate, NoDowns
<1>7. TypingGens' /\ TypingConfs' /\ TypingUps' /\ TypingLocks' /\ TypingMeant'
  <2>1. Chain(session')
    BY <1>1 DEF Chain
  <2>2. KeysAt(wire') = {} /\ ConfsAt(wire') = {} /\ End(wire') = 1
    BY <1>3, <1>4 DEF KeysAt, ConfsAt, End
  <2>3. <<>> \in [1..0 -> {}] /\ Enumerates(<<>>, 0, {}) /\ \A d \in 1..0 : FALSE
    BY DEF Enumerates
  <2>4. TypingGens'
    BY <1>1, <1>3, <1>4 DEF TypingGens, Configured, TypingInv, TypingTyped
  <2>5. Len(session'.queue) - Len(replies') = 0 /\ Len(replies') <= Len(session'.queue)
        /\ Len(meant') = 0
    BY <1>1, <1>3, <1>4
  <2>6. TypingConfs'
    BY <1>3, <1>4, <2>1, <2>2, <2>3, <2>5 DEF TypingConfs
  <2>7. TypingUps'
    BY <1>3, <1>4 DEF TypingUps, Free
  <2>8. TypingLocks'
    BY <1>2 DEF TypingLocks
  <2>9. TypingMeant'
    BY <2>2, <2>3, <2>5 DEF TypingMeant
  <2> QED  BY <2>4, <2>6, <2>7, <2>8, <2>9
<1> QED  BY <1>5, <1>6, <1>7 DEF TypingInv

(* Drop leaves nothing the invariant speaks of. *)
LEMMA DropStep ==
    ASSUME TypingInv, NEW restarts \in BOOLEAN, Drop(restarts)
    PROVE  TypingInv'
<1>1. /\ linked' = FALSE /\ held' = {} /\ wire' = <<>> /\ replies' = <<>> /\ meant' = <<>>
      /\ blindLines' = 0 /\ inputReady' = FALSE /\ session' = connectionDown(session)
      /\ UNCHANGED <<sends, stamps, ledger, pointer, withheld>>
      /\ installedGen' \in {1, installedGen} /\ installedMap' \in {NoKeymap, installedMap}
  BY DEF Drop
<1>2. Shaped(session) /\ session'.queue = session.queue /\ session'.acked = session.acked
      /\ session'.ackedGen = session.ackedGen /\ Shaped(session')
  BY <1>1, FactsAre DEF TypingInv, TypingTyped
<1>3. TypingTyped'
  <2>1. <<>> \in Seq(Commands) /\ <<>> \in Seq(HelperWords) /\ <<>> \in Seq(Meanings)
    OBVIOUS
  <2>2. TypingTyped
    BY DEF TypingInv
  <2>3. /\ Len(stamps') = Len(session'.queue) /\ session'.acked \in Keymaps \cup {NoKeymap}
        /\ session'.ackedGen \in Nat /\ (session'.ackedGen = 0 <=> session'.acked = NoKeymap)
    BY <1>1, <1>2, <2>2 DEF TypingTyped
  <2>4. /\ stamps' \in Seq(Nat) /\ sends' \in Nat /\ pointer' \in BOOLEAN
        /\ withheld' \in BOOLEAN /\ Regular(ledger')
        /\ installedGen' \in Nat \ {0} /\ installedMap' \in Keymaps \cup {NoKeymap}
    BY <1>1, <2>2 DEF TypingTyped
  <2>5. /\ inputReady' \in BOOLEAN /\ linked' \in BOOLEAN /\ held' \subseteq KeyNames
        /\ blindLines' \in Nat
    BY <1>1
  <2> QED  BY <1>1, <1>2, <2>1, <2>3, <2>4, <2>5 DEF TypingTyped
<1>4. TypingGate'
  BY <1>1 DEF TypingInv, TypingGate
<1>5. TypingGens' /\ TypingConfs' /\ TypingUps' /\ TypingLocks' /\ TypingMeant'
  BY <1>1 DEF TypingGens, TypingConfs, TypingUps, TypingLocks, TypingMeant
<1> QED  BY <1>3, <1>4, <1>5 DEF TypingInv

(* A step that leaves the queue, the replies and the wire leaves the configures. *)
LEMMA ConfsStay ==
    ASSUME TypingConfs, linked' = linked, wire' = wire, replies' = replies,
           session'.queue = session.queue, Chain(session')
    PROVE  TypingConfs'
<1> SUFFICES ASSUME linked PROVE TypingConfs'
  BY DEF TypingConfs
<1> DEFINE n == Len(session.queue) - Len(replies)
<1>1. PICK at \in [1..n -> ConfsAt(wire)] :
         /\ Enumerates(at, n, ConfsAt(wire))
         /\ \A d \in 1..n :
              /\ wire[at[d]][2] = session.queue[Len(replies) + d].keymap
              /\ session.queue[Len(replies) + d].changed => QuietAfter(wire, at[d])
  BY DEF TypingConfs
<1>2. /\ Len(replies) <= Len(session.queue)
      /\ \A i \in DOMAIN replies : session.queue[i].changed => NoDowns(wire)
  BY DEF TypingConfs
<1> QED  BY <1>1, <1>2 DEF TypingConfs

(* HearCaps opens the gate only where no drain is ahead. *)
LEMMA HearCapsStep ==
    ASSUME TypingInv, HearCaps
    PROVE  TypingInv'
<1>1. /\ linked /\ session.ackedGen > 0
      /\ session' = capsFacts(session, session.ackedGen, 0, session.acked)
      /\ inputReady' = (inputReady \/ typingReady(session'))
      /\ UNCHANGED <<sends, stamps, ledger, pointer, wire, replies, meant, linked, held,
                     installedGen, installedMap, blind, blindLines, withheld>>
  BY DEF HearCaps, Outside, helper
<1>2. Shaped(session) /\ session'.queue = session.queue /\ session'.acked = session.acked
      /\ session'.ackedGen = session.ackedGen /\ Shaped(session')
  BY <1>1, FactsAre DEF TypingInv, TypingTyped
<1>3. TypingTyped'
  <2>1. inputReady' \in BOOLEAN
    BY <1>1 DEF typingReady
  <2>2. TypingTyped
    BY DEF TypingInv
  <2>3. /\ Len(stamps') = Len(session'.queue) /\ session'.acked \in Keymaps \cup {NoKeymap}
        /\ session'.ackedGen \in Nat /\ (session'.ackedGen = 0 <=> session'.acked = NoKeymap)
    BY <1>1, <1>2, <2>2 DEF TypingTyped
  <2>4. /\ stamps' \in Seq(Nat) /\ sends' \in Nat /\ pointer' \in BOOLEAN
        /\ linked' \in BOOLEAN /\ withheld' \in BOOLEAN /\ Regular(ledger')
        /\ wire' \in Seq(Commands) /\ replies' \in Seq(HelperWords) /\ meant' \in Seq(Meanings)
        /\ held' \subseteq KeyNames /\ installedGen' \in Nat \ {0}
        /\ installedMap' \in Keymaps \cup {NoKeymap} /\ blindLines' \in Nat
    BY <1>1, <2>2 DEF TypingTyped
  <2> QED  BY <1>2, <2>1, <2>3, <2>4 DEF TypingTyped
<1>4. typingReady(session') => \A i \in DOMAIN session.queue : ~session.queue[i].changed
  BY <1>2 DEF typingReady, hasDrainAhead
<1>5. TypingGate'
  <2>1. session.ackedGen # 0
    BY <1>1 DEF TypingInv, TypingTyped
  <2> QED  BY <1>1, <1>2, <1>4, <2>1 DEF TypingInv, TypingGate
<1>6. TypingGens'
  BY <1>1, <1>2 DEF TypingInv, TypingGens, Configured
<1>7. Chain(session') <=> Chain(session)
  BY <1>2 DEF Chain, MapAt
<1>8. TypingConfs'
  <2>1. linked' = linked /\ wire' = wire /\ replies' = replies /\ linked /\ TypingConfs
    BY <1>1 DEF TypingInv
  <2>2. session'.queue = session.queue /\ Chain(session')
    BY <1>2, <1>7, <2>1 DEF TypingConfs
  <2> QED  BY ONLY <2>1, <2>2, ConfsStay
<1>9. TypingUps'
  BY <1>1 DEF TypingInv, TypingUps
<1>10. (KeymapIsKnown' <=> KeymapIsKnown) /\ (Refusal' <=> Refusal)
  BY <1>1, <1>2 DEF KeymapIsKnown, Refusal
<1>11. TypingLocks'
  BY <1>1, <1>10 DEF TypingInv, TypingLocks
<1>12. TypingMeant'
  <2>1. KeymapIsKnown' = KeymapIsKnown
    BY <1>10 DEF KeymapIsKnown
  <2> QED  BY <1>1, <2>1 DEF TypingInv, TypingMeant
<1> QED  BY <1>3, <1>5, <1>6, <1>8, <1>9, <1>11, <1>12 DEF TypingInv

(* KeymapMoves: the keymap is no longer known, and what drained is up. *)
LEMMA KeymapMovesStep ==
    ASSUME TypingInv, NEW drained \in BOOLEAN, KeymapMoves(drained)
    PROVE  TypingInv'
<1>1. /\ installedMap' = NoKeymap
      /\ UNCHANGED <<session, sends, stamps, inputReady, ledger, pointer, linked, wire, replies,
                     meant, blindLines, withheld>>
      /\ \/ installedGen' = installedGen + 1 /\ held' = {}
         \/ installedGen' = installedGen /\ held' = held /\ blind' = blind
  BY DEF KeymapMoves, panel
<1>2. TypingTyped'
  BY <1>1 DEF TypingInv, TypingTyped
<1>3. TypingGate'
  BY <1>1 DEF TypingInv, TypingGate
<1>4. TypingGens'
  <2> SUFFICES ASSUME linked' PROVE TypingGens'
    BY DEF TypingGens
  <2>1. installedGen \in Nat /\ installedGen' \in Nat /\ installedGen' >= installedGen
        /\ session.ackedGen \in Nat
    BY <1>1 DEF TypingInv, TypingTyped
  <2>2. linked /\ (held \subseteq blind => held' \subseteq blind')
    BY <1>1
  <2> QED  BY <1>1, <2>1, <2>2 DEF TypingInv, TypingGens, Configured
<1>5. TypingConfs'
  <2>1. session' = session /\ wire' = wire /\ replies' = replies /\ linked' = linked
    BY <1>1
  <2>2. CASE linked
    <3>1. TypingConfs /\ Chain(session')
      BY <2>1, <2>2 DEF TypingInv, TypingConfs, Chain, MapAt
    <3>2. session'.queue = session.queue
      BY <2>1
    <3> QED  BY ONLY <2>1, <3>1, <3>2, ConfsStay
  <2>3. CASE ~linked
    BY <2>1, <2>3 DEF TypingConfs
  <2> QED  BY <2>2, <2>3
<1>6. ~KeymapIsKnown' \/ ~linked'
  BY <1>1 DEF TypingInv, TypingTyped, KeymapIsKnown
<1>7. held' \ blind' \subseteq held \ blind
  BY <1>1
<1>8. \A x, p : Free(wire, held \ blind, blindLines, x, p)
                  => Free(wire, held' \ blind', blindLines, x, p)
  BY <1>7 DEF Free
<1>9. TypingUps'
  BY <1>1, <1>8 DEF TypingInv, TypingUps
<1>10. TypingLocks'
  BY <1>6 DEF TypingLocks
<1>11. TypingMeant'
  <2> SUFFICES ASSUME linked' PROVE TypingMeant'
    BY DEF TypingMeant
  <2>1. \A meaning, p : Drawn(wire, held \ blind, held, blindLines, KeymapIsKnown, meaning, p)
                  => Drawn(wire, held' \ blind', held', blindLines, KeymapIsKnown', meaning, p)
    BY <1>6, <1>8 DEF Drawn
  <2> QED  BY <1>1, <2>1 DEF TypingInv, TypingMeant
<1> QED  BY <1>2, <1>3, <1>4, <1>5, <1>9, <1>10, <1>11 DEF TypingInv

(* A configure is a line that names no key. *)
LEMMA ConfigureLine ==
    ASSUME NEW k \in Keymaps, NEW lines, lines = <<<<"configure", k>>>>
    PROVE  /\ lines \in Seq(Commands) /\ Len(lines) = 1 /\ DOMAIN lines = {1}
           /\ lines[1] = <<"configure", k>> /\ lines[1][1] = "configure" /\ lines[1][2] = k
           /\ NoDowns(lines) /\ KeysAt(lines) = {} /\ ConfsAt(lines) = {1}
           /\ \A x : Unnamed(lines, x, End(lines))
<1> DEFINE c == <<"configure", k>>
<1>1. c \in Commands /\ c[1] = "configure" /\ c[2] = k
  BY DEF Commands
<1>2. \A x : c # Up(x) /\ c # Down(x)
  BY DEF Up, Down
<1>3. lines = <<c>>
  OBVIOUS
<1> HIDE DEF c
<1>4. lines \in Seq(Commands) /\ Len(lines) = 1 /\ DOMAIN lines = {1} /\ lines[1] = c
  BY <1>1, <1>3
<1>5. NoDowns(lines) /\ KeysAt(lines) = {} /\ ConfsAt(lines) = {1}
  BY <1>1, <1>4 DEF NoDowns, KeysAt, ConfsAt, IsKeyDown
<1>6. \A x : Unnamed(lines, x, End(lines))
  BY <1>2, <1>4 DEF Unnamed
<1>7. c = <<"configure", k>>
  BY DEF c
<1> QED  BY <1>1, <1>4, <1>5, <1>6, <1>7

(* The configure sent is the last of the line and of the queue. *)
LEMMA SentConfs ==
    ASSUME TypingTyped, TypingConfs, linked, NEW k \in Keymaps,
           session' = configureSent(session, k, 0), linked' = linked, replies' = replies,
           NEW lines, lines = <<<<"configure", k>>>>, wire' = wire \o lines
    PROVE  TypingConfs'
<1> DEFINE m == Len(replies)
           n == Len(session.queue) - m
           p == Len(wire) + 1
<1>1. Shaped(session) /\ Chain(session) /\ m <= Len(session.queue)
  BY DEF TypingTyped, TypingConfs
<1>2. /\ Chain(session') /\ Len(session'.queue) = Len(session.queue) + 1
      /\ \A i \in 1..Len(session.queue) : session'.queue[i] = session.queue[i]
      /\ session'.queue[Len(session.queue) + 1].keymap = k
  BY <1>1, SentChain
<1>3. Len(session.queue) \in Nat /\ m \in Nat /\ DOMAIN replies = 1..m /\ Len(wire) \in Nat
      /\ wire \in Seq(Commands) /\ DOMAIN wire = 1..Len(wire)
  BY <1>1, QueueIs DEF TypingTyped
<1>4. /\ lines \in Seq(Commands) /\ Len(lines) = 1
      /\ lines[1][1] = "configure" /\ lines[1][2] = k /\ NoDowns(lines) /\ ConfsAt(lines) = {1}
  BY ConfigureLine
<1>5. /\ DOMAIN wire' = 1..p /\ wire'[p] = lines[1]
      /\ \A j \in 1..Len(wire) : wire'[j] = wire[j]
  <2>1. /\ DOMAIN (wire \o lines) = 1..(Len(wire) + Len(lines))
        /\ \A i \in 1..Len(wire) : (wire \o lines)[i] = wire[i]
        /\ \A i \in 1..Len(lines) : (wire \o lines)[Len(wire) + i] = lines[i]
    BY <1>3, <1>4, Joined
  <2> QED  BY <1>3, <1>4, <2>1
<1>6. PICK at \in [1..n -> ConfsAt(wire)] :
         /\ Enumerates(at, n, ConfsAt(wire))
         /\ \A d \in 1..n :
              /\ wire[at[d]][2] = session.queue[m + d].keymap
              /\ session.queue[m + d].changed => QuietAfter(wire, at[d])
  BY DEF TypingConfs
<1> DEFINE on == [i \in 1..(n + 1) |-> IF i <= n THEN at[i] ELSE p]
<1>7. n \in Nat /\ ConfsAt(wire) \in SUBSET Nat /\ \A q \in ConfsAt(wire) : q < p
  BY <1>1, <1>3, PlacesAre DEF ConfsAt
<1>8. Enumerates(on, n + 1, ConfsAt(wire) \cup {p})
  <2>1. p \in Nat /\ on = [i \in 1..(n + 1) |-> IF i <= n THEN at[i] ELSE p]
    BY <1>3
  <2> HIDE DEF n, p, on
  <2> QED  BY ONLY <1>6, <1>7, <2>1, OneMore
<1>9. ConfsAt(wire') = ConfsAt(wire) \cup {p}
  BY <1>3, <1>4, <1>5 DEF ConfsAt
<1>10. Len(session'.queue) - Len(replies') = n + 1
  BY <1>1, <1>2, <1>3
<1>11. ASSUME NEW d \in 1..(n + 1)
       PROVE  /\ wire'[on[d]][2] = session'.queue[m + d].keymap
              /\ session'.queue[m + d].changed => QuietAfter(wire', on[d])
  <2>1. CASE d <= n
    <3>1. d \in 1..n /\ on[d] = at[d] /\ at[d] \in ConfsAt(wire) /\ at[d] \in 1..Len(wire)
      <4>1. n \in Nat /\ at \in [1..n -> ConfsAt(wire)]
        BY <1>6, <1>7
      <4>2. on = [i \in 1..(n + 1) |-> IF i <= n THEN at[i] ELSE p]
        OBVIOUS
      <4>3. ConfsAt(wire) \subseteq 1..Len(wire)
        BY <1>3 DEF ConfsAt
      <4> HIDE DEF n, p, on
      <4> QED  BY <2>1, <4>1, <4>2, <4>3
    <3>2. m + d \in 1..Len(session.queue)
      BY <1>1, <1>3, <3>1
    <3>3. wire'[on[d]] = wire[at[d]] /\ session'.queue[m + d] = session.queue[m + d]
      BY <1>2, <1>5, <3>1, <3>2
    <3>4. QuietAfter(wire, at[d]) => QuietAfter(wire', at[d])
      BY <1>3, <1>4, <1>5 DEF QuietAfter
    <3> QED  BY <1>6, <3>1, <3>3, <3>4
  <2>2. CASE d = n + 1
    <3>1. on[d] = p /\ m + d = Len(session.queue) + 1
      BY <1>3, <1>7, <2>2
    <3>2. QuietAfter(wire', p)
      BY <1>3, <1>5 DEF QuietAfter
    <3>3. wire'[p][2] = k
      BY ONLY <1>4, <1>5
    <3>4. session'.queue[m + d].keymap = k
      BY ONLY <1>2, <3>1
    <3> HIDE DEF n, p, on, m
    <3> QED  BY ONLY <3>1, <3>2, <3>3, <3>4
  <2>3. n \in Nat /\ d \in 1..(n + 1)
    BY <1>7
  <2>4. d <= n \/ d = n + 1
    <3> HIDE DEF n
    <3> QED  BY ONLY <2>3
  <2> QED  BY ONLY <2>1, <2>2, <2>4
<1>12. \A i \in DOMAIN replies' : session'.queue[i].changed => NoDowns(wire')
  <2> SUFFICES ASSUME NEW i \in DOMAIN replies, session'.queue[i].changed PROVE NoDowns(wire')
    OBVIOUS
  <2>1. session.queue[i].changed
    BY <1>1, <1>2, <1>3, SMTT(20)
  <2>2. NoDowns(wire)
    BY <2>1 DEF TypingConfs
  <2> QED  BY <1>3, <1>4, <2>2, NoneJoined
<1>13. on \in [1..(n + 1) -> ConfsAt(wire')] /\ Enumerates(on, n + 1, ConfsAt(wire'))
  BY <1>8, <1>9 DEF Enumerates
<1>14. Len(replies') <= Len(session'.queue) /\ Len(replies') = m
  BY <1>1, <1>2, <1>3
<1>15. \E f \in [1..(n + 1) -> ConfsAt(wire')] :
          /\ Enumerates(f, n + 1, ConfsAt(wire'))
          /\ \A d \in 1..(n + 1) :
               /\ wire'[f[d]][2] = session'.queue[m + d].keymap
               /\ session'.queue[m + d].changed => QuietAfter(wire', f[d])
  <2> HIDE DEF on, n, m, p
  <2> QED  BY <1>11, <1>13
<1>16. \E f \in [1..(Len(session'.queue) - Len(replies')) -> ConfsAt(wire')] :
          /\ Enumerates(f, Len(session'.queue) - Len(replies'), ConfsAt(wire'))
          /\ \A d \in 1..(Len(session'.queue) - Len(replies')) :
               /\ wire'[f[d]][2] = session'.queue[Len(replies') + d].keymap
               /\ session'.queue[Len(replies') + d].changed => QuietAfter(wire', f[d])
  <2> HIDE DEF on, n, m, p
  <2> QED  BY ONLY <1>10, <1>14, <1>15
<1> HIDE DEF on, n, m, p
<1> QED  BY ONLY <1>2, <1>12, <1>14, <1>16 DEF TypingConfs

(* SendConfigure shuts the gate if it drains. *)
LEMMA SendConfigureStep ==
    ASSUME TypingInv, NEW k \in Keymaps, SendConfigure(k)
    PROVE  TypingInv'
<1> USE DEF TypingInv
<1> DEFINE lines == <<<<"configure", k>>>>
<1>1. /\ linked /\ inputReady' = (inputReady /\ k = installed(session))
      /\ session' = configureSent(session, k, 0)
      /\ sends' = sends + 1 /\ stamps' = Append(stamps, sends + 1)
      /\ wire' = wire \o lines
      /\ UNCHANGED <<ledger, pointer, replies, meant, linked, held, installedGen, installedMap,
                     blind, blindLines, withheld>>
  BY DEF SendConfigure, Write, Outside, helper
<1>2. Shaped(session) /\ Chain(session)
  BY <1>1 DEF TypingTyped, TypingConfs
<1>3. /\ Shaped(session') /\ session'.acked = session.acked /\ session'.ackedGen = session.ackedGen
  BY <1>1, <1>2, SentIs
<1>4. /\ Len(session'.queue) = Len(session.queue) + 1
      /\ \A i \in 1..Len(session.queue) : session'.queue[i] = session.queue[i]
      /\ session'.queue[Len(session.queue) + 1].changed <=> k # installed(session)
  BY <1>1, <1>2, SentChain, SMTT(20)
<1>5. /\ lines \in Seq(Commands) /\ NoDowns(lines) /\ KeysAt(lines) = {}
      /\ \A x : Unnamed(lines, x, End(lines))
  BY ConfigureLine
<1>6. wire \in Seq(Commands) /\ wire' \in Seq(Commands)
  <2>1. wire \in Seq(Commands)
    BY DEF TypingTyped
  <2> QED  BY <1>1, <1>5, <2>1, Joined
<1>7. /\ Len(session.queue) \in Nat /\ DOMAIN session.queue = 1..Len(session.queue)
      /\ DOMAIN session'.queue = 1..Len(session'.queue)
      /\ \A i \in DOMAIN replies : i \in 1..Len(session.queue)
  <2>1. replies \in Seq(HelperWords) /\ Len(replies) <= Len(session.queue)
    BY <1>1 DEF TypingTyped, TypingConfs
  <2> QED  BY <1>2, <1>3, <2>1, QueueIs
<1>8. TypingConfs'
  <2>1. lines = <<<<"configure", k>>>>
    OBVIOUS
  <2> HIDE DEF lines
  <2> QED  BY <1>1, <2>1, SentConfs
<1> HIDE DEF lines
<1>9. TypingTyped'
  <2>1. stamps \in Seq(Nat) /\ sends \in Nat /\ Len(stamps) = Len(session.queue)
    BY DEF TypingTyped
  <2>2. stamps' \in Seq(Nat) /\ sends' \in Nat /\ Len(stamps') = Len(session'.queue)
    BY <1>1, <1>4, <2>1
  <2>3. inputReady' \in BOOLEAN
    BY <1>1
  <2>4. /\ pointer' \in BOOLEAN /\ linked' \in BOOLEAN /\ withheld' \in BOOLEAN /\ Regular(ledger')
        /\ replies' \in Seq(HelperWords) /\ meant' \in Seq(Meanings)
        /\ held' \subseteq KeyNames /\ installedGen' \in Nat \ {0}
        /\ installedMap' \in Keymaps \cup {NoKeymap} /\ blindLines' \in Nat
    BY <1>1 DEF TypingTyped
  <2>5. /\ session'.acked \in Keymaps \cup {NoKeymap}
        /\ session'.ackedGen \in Nat /\ (session'.ackedGen = 0 <=> session'.acked = NoKeymap)
    BY <1>3 DEF TypingTyped
  <2> QED  BY <1>3, <1>6, <2>2, <2>3, <2>4, <2>5 DEF TypingTyped
<1>10. TypingGate'
  <2>1. inputReady' => /\ linked' /\ session'.ackedGen # 0
                       /\ \A i \in DOMAIN session'.queue : ~session'.queue[i].changed
    <3> SUFFICES ASSUME inputReady', NEW i \in DOMAIN session'.queue
                 PROVE  linked' /\ session'.ackedGen # 0 /\ ~session'.queue[i].changed
      BY <1>1, <1>3 DEF TypingGate
    <3>1. inputReady /\ k = installed(session)
      BY <1>1
    <3>2. i \in 1..Len(session.queue) \/ i = Len(session.queue) + 1
      BY <1>4, <1>7
    <3> QED  BY <1>1, <1>3, <1>4, <1>7, <3>1, <3>2 DEF TypingGate
  <2>2. NoDowns(wire) => NoDowns(wire')
    BY <1>1, <1>5, <1>6, NoneJoined
  <2> QED  BY <1>1, <1>3, <2>1, <2>2 DEF TypingGate
<1>11. \A i \in DOMAIN replies : session'.queue[i] = session.queue[i]
  BY <1>4, <1>7
<1>12. TypingGens'
  BY <1>1, <1>3, <1>11, SMTT(20) DEF TypingGens, Configured
<1>13. KeymapIsKnown' <=> KeymapIsKnown
  BY <1>1, <1>3 DEF KeymapIsKnown
<1>14. TypingUps'
  BY <1>1, <1>5, <1>6, FreeAtEnd DEF TypingUps
<1>15. Refusal => Refusal'
  BY <1>1, <1>3, <1>11 DEF Refusal
<1>16. TypingLocks'
  BY <1>1, <1>5, <1>6, <1>13, <1>15, FreeAtEnd DEF TypingLocks
<1>17. TypingMeant'
  BY <1>1, <1>5, <1>13, MeantKept DEF SameHands
<1> QED  BY <1>8, <1>9, <1>10, <1>12, <1>14, <1>16, <1>17

(* A reply read takes its configure off the queue. *)
LEMMA ConfsPopped ==
    ASSUME TypingTyped, TypingConfs, linked, linked' = linked,
           replies # <<>>, replies' = Tail(replies), Chain(session'),
           Len(session'.queue) = Len(session.queue) - 1,
           \A i \in 1..(Len(session.queue) - 1) :
             /\ session'.queue[i].keymap = session.queue[i + 1].keymap
             /\ session'.queue[i].changed
                  => session.queue[i + 1].changed \/ (i = 1 /\ session.queue[1].changed),
           NEW lines \in Seq(Strokes), NoDowns(lines), wire' = wire \o lines
    PROVE  TypingConfs'
<1> DEFINE m == Len(replies)
           z == Len(session.queue)
           n == z - m
<1>1. m \in Nat \ {0} /\ z \in Nat /\ m <= z /\ DOMAIN replies = 1..m
      /\ Len(replies') = m - 1 /\ DOMAIN replies' = 1..(m - 1) /\ n \in Nat
  <2>1. replies \in Seq(HelperWords) /\ Shaped(session) /\ Len(replies) <= Len(session.queue)
    BY DEF TypingTyped, TypingConfs
  <2>2. z \in Nat
    BY <2>1, QueueIs
  <2>3. m \in Nat \ {0} /\ DOMAIN replies = 1..m /\ Len(replies') = m - 1
        /\ DOMAIN replies' = 1..(m - 1)
    BY <2>1, TailIs
  <2> QED  BY <2>1, <2>2, <2>3
<1>2. /\ wire \in Seq(Commands) /\ lines \in Seq(Commands) /\ Len(wire) \in Nat
      /\ ConfsAt(wire') = ConfsAt(wire)
  BY StrokesAre
<1>3. /\ DOMAIN wire = 1..Len(wire) /\ DOMAIN lines = 1..Len(lines)
      /\ DOMAIN wire' = 1..(Len(wire) + Len(lines)) /\ Len(lines) \in Nat
      /\ \A j \in 1..Len(wire) : wire'[j] = wire[j]
      /\ \A j \in 1..(Len(wire) + Len(lines)) :
           j \in 1..Len(wire) \/ (j - Len(wire) \in 1..Len(lines) /\ wire'[j] = lines[j - Len(wire)])
  BY <1>2, Joined
<1>4. NoDowns(wire) => NoDowns(wire')
  BY <1>2, NoneJoined
<1>5. \A p : NoDowns(wire') => QuietAfter(wire', p)
  BY DEF NoDowns, QuietAfter
<1>6. \A p : QuietAfter(wire, p) => QuietAfter(wire', p)
  BY <1>3 DEF QuietAfter, NoDowns
<1>7. \A i \in 1..m : session.queue[i].changed => NoDowns(wire)
  BY <1>1 DEF TypingConfs
<1>8. \E at \in [1..n -> ConfsAt(wire)] :
         /\ Enumerates(at, n, ConfsAt(wire))
         /\ \A d \in 1..n :
              /\ wire[at[d]][2] = session.queue[m + d].keymap
              /\ session.queue[m + d].changed => QuietAfter(wire, at[d])
  BY DEF TypingConfs
<1>9. \A i \in 1..(z - 1) :
             /\ session'.queue[i].keymap = session.queue[i + 1].keymap
             /\ session'.queue[i].changed
                  => session.queue[i + 1].changed \/ (i = 1 /\ session.queue[1].changed)
  OBVIOUS
<1>10. Len(session'.queue) = z - 1 /\ ConfsAt(wire) \subseteq 1..Len(wire) /\ z = n + m
  BY <1>1, <1>3 DEF ConfsAt
<1> HIDE DEF m, z, n
<1>11. PICK at \in [1..n -> ConfsAt(wire)] :
         /\ Enumerates(at, n, ConfsAt(wire))
         /\ \A d \in 1..n :
              /\ wire[at[d]][2] = session.queue[m + d].keymap
              /\ session.queue[m + d].changed => QuietAfter(wire, at[d])
  BY <1>8
<1>12. ASSUME NEW d \in 1..n
       PROVE  /\ wire'[at[d]][2] = session'.queue[m - 1 + d].keymap
              /\ session'.queue[m - 1 + d].changed => QuietAfter(wire', at[d])
  <2>1. m - 1 + d \in 1..(z - 1) /\ (m - 1 + d) + 1 = m + d /\ 1 \in 1..m
    BY <1>1, <1>10
  <2>2. /\ session'.queue[m - 1 + d].keymap = session.queue[m + d].keymap
        /\ session'.queue[m - 1 + d].changed
             => session.queue[m + d].changed \/ session.queue[1].changed
    BY <1>9, <2>1
  <2>3. at[d] \in 1..Len(wire)
    BY <1>10
  <2>4. wire'[at[d]] = wire[at[d]]
    BY <1>3, <2>3
  <2>5. session'.queue[m - 1 + d].changed => QuietAfter(wire', at[d])
    BY <1>4, <1>5, <1>6, <1>7, <1>11, <2>1, <2>2
  <2> QED  BY <1>11, <2>2, <2>4, <2>5
<1>13. ASSUME NEW i \in 1..(m - 1), session'.queue[i].changed PROVE NoDowns(wire')
  <2>1. i \in 1..(z - 1) /\ i + 1 \in 1..m /\ 1 \in 1..m
    BY <1>1, <1>10
  <2>2. session.queue[i + 1].changed \/ session.queue[1].changed
    BY <1>9, <1>13, <2>1
  <2> QED  BY <1>4, <1>7, <2>1, <2>2
<1>14. Len(session'.queue) - Len(replies') = n /\ Len(replies') <= Len(session'.queue)
  BY ONLY <1>1, <1>10
<1>15. /\ \E f \in [1..n -> ConfsAt(wire')] :
            /\ Enumerates(f, n, ConfsAt(wire'))
            /\ \A d \in 1..n :
                 /\ wire'[f[d]][2] = session'.queue[m - 1 + d].keymap
                 /\ session'.queue[m - 1 + d].changed => QuietAfter(wire', f[d])
  BY <1>2, <1>11, <1>12
<1>16. \E f \in [1..(Len(session'.queue) - Len(replies')) -> ConfsAt(wire')] :
          /\ Enumerates(f, Len(session'.queue) - Len(replies'), ConfsAt(wire'))
          /\ \A d \in 1..(Len(session'.queue) - Len(replies')) :
               /\ wire'[f[d]][2] = session'.queue[Len(replies') + d].keymap
               /\ session'.queue[Len(replies') + d].changed => QuietAfter(wire', f[d])
  BY ONLY <1>1, <1>14, <1>15
<1>17. \A i \in DOMAIN replies' : session'.queue[i].changed => NoDowns(wire')
  BY ONLY <1>1, <1>13
<1>18. Chain(session')
  OBVIOUS
<1> QED  BY ONLY <1>14, <1>16, <1>17, <1>18 DEF TypingConfs

(* A reply to read is for the configure at the head of the queue. *)
LEMMA ReplyIs ==
    ASSUME TypingInv, replies # <<>>
    PROVE  /\ linked /\ session.queue # <<>> /\ Shaped(session) /\ Chain(session)
           /\ Len(replies) \in Nat \ {0} /\ Len(replies) <= Len(session.queue)
           /\ Len(session.queue) \in Nat
           /\ Tail(stamps) \in Seq(Nat) /\ Len(Tail(stamps)) = Len(session.queue) - 1
           /\ Head(stamps) \in Nat
           /\ Tail(replies) \in Seq(HelperWords) /\ Len(Tail(replies)) = Len(replies) - 1
           /\ DOMAIN replies = 1..Len(replies) /\ DOMAIN Tail(replies) = 1..(Len(replies) - 1)
           /\ \A i \in 1..(Len(replies) - 1) : Tail(replies)[i] = replies[i + 1]
           /\ Head(replies) = replies[1] /\ replies[1] \in HelperWords
           /\ Head(session.queue) = session.queue[1]
           /\ session.queue[1].keymap \in Keymaps /\ session.queue[1].changed \in BOOLEAN
           /\ session.queue[1].changed => NoDowns(wire)
<1>1. linked
  BY DEF TypingInv, TypingGate
<1>2. /\ Shaped(session) /\ Chain(session) /\ Len(replies) <= Len(session.queue)
      /\ \A i \in DOMAIN replies : session.queue[i].changed => NoDowns(wire)
  BY <1>1 DEF TypingInv, TypingTyped, TypingConfs
<1>3. replies \in Seq(HelperWords) /\ stamps \in Seq(Nat) /\ Len(stamps) = Len(session.queue)
  BY DEF TypingInv, TypingTyped
<1>4. /\ Tail(replies) \in Seq(HelperWords) /\ Len(replies) \in Nat \ {0}
      /\ Len(Tail(replies)) = Len(replies) - 1
      /\ DOMAIN replies = 1..Len(replies) /\ DOMAIN Tail(replies) = 1..(Len(replies) - 1)
      /\ \A i \in 1..(Len(replies) - 1) : Tail(replies)[i] = replies[i + 1]
      /\ Head(replies) = replies[1] /\ replies[1] \in HelperWords
  BY <1>3, TailIs
<1>5. /\ Len(session.queue) \in Nat /\ DOMAIN session.queue = 1..Len(session.queue)
      /\ session.queue = <<>> <=> Len(session.queue) = 0
      /\ \A i \in DOMAIN session.queue :
           session.queue[i].keymap \in Keymaps /\ session.queue[i].changed \in BOOLEAN
  BY <1>2, QueueIs
<1>6. session.queue # <<>> /\ Len(session.queue) \in Nat \ {0}
  BY <1>2, <1>4, <1>5
<1>7. stamps # <<>>
  BY <1>3, <1>6
<1>8. Tail(stamps) \in Seq(Nat) /\ Len(Tail(stamps)) = Len(stamps) - 1 /\ Head(stamps) \in Nat
  BY <1>3, <1>7, TailIs
<1>9. Head(session.queue) = session.queue[1]
  BY <1>2, <1>6, ShapedIs, TailIs
<1> QED  BY <1>1, <1>2, <1>3, <1>4, <1>5, <1>6, <1>8, <1>9

(* A reply that acknowledges nothing is read: the generations on their way stay in order. *)
LEMMA RefusedGens ==
    ASSUME TypingInv, replies # <<>>, ~Configured(1), replies' = Tail(replies),
           session'.acked = session.acked, session'.ackedGen = session.ackedGen,
           UNCHANGED <<linked, held, blind, installedGen, installedMap>>,
           \A i \in 1..(Len(session.queue) - 1) :
             session'.queue[i].keymap = session.queue[i + 1].keymap
    PROVE  TypingGens'
<1>1. linked /\ TypingGens
  BY ReplyIs DEF TypingInv
<1>2. \A i \in DOMAIN replies' :
        /\ i + 1 \in DOMAIN replies /\ replies'[i] = replies[i + 1]
        /\ session'.queue[i].keymap = session.queue[i + 1].keymap
  <2> DEFINE m == Len(replies)
             z == Len(session.queue)
  <2>1. /\ m \in Nat \ {0} /\ m <= z /\ z \in Nat /\ DOMAIN replies = 1..m
        /\ DOMAIN replies' = 1..(m - 1) /\ \A i \in 1..(m - 1) : replies'[i] = replies[i + 1]
    BY ReplyIs
  <2>2. \A i \in 1..(z - 1) : session'.queue[i].keymap = session.queue[i + 1].keymap
    OBVIOUS
  <2> HIDE DEF m, z
  <2>3. \A i \in DOMAIN replies' : i \in 1..(z - 1) /\ i + 1 \in 1..m
    BY ONLY <2>1
  <2> QED  BY ONLY <2>1, <2>2, <2>3
<1>3. \A i \in DOMAIN replies : Configured(i) =>
        /\ i - 1 \in DOMAIN replies' /\ (i - 1) + 1 = i /\ replies'[i - 1] = replies[i]
  BY ReplyIs, SMTT(20) DEF Configured
<1>4. \A i \in DOMAIN replies' : Configured(i)' <=> Configured(i + 1)
  BY <1>2 DEF Configured
<1>5. \A i \in DOMAIN replies' : i \in Int
  BY ReplyIs
<1>6. /\ session'.ackedGen <= installedGen'
      /\ session'.ackedGen = installedGen' /\ installedMap' # NoKeymap
           => session'.acked = installedMap'
  BY <1>1 DEF TypingGens
<1>7. installedMap' # NoKeymap =>
         \/ session'.ackedGen = installedGen'
         \/ session'.ackedGen = 0 /\ \A i \in DOMAIN replies' : ~Configured(i)'
         \/ \E i \in DOMAIN replies' : Configured(i)' /\ replies'[i].gen = installedGen'
  <2> SUFFICES ASSUME installedMap' # NoKeymap, session.ackedGen # installedGen
               PROVE  \/ session'.ackedGen = 0 /\ \A i \in DOMAIN replies' : ~Configured(i)'
                      \/ \E i \in DOMAIN replies' : Configured(i)' /\ replies'[i].gen = installedGen'
    OBVIOUS
  <2>1. CASE session.ackedGen = 0 /\ \A i \in DOMAIN replies : ~Configured(i)
    BY <1>2, <1>4, <2>1
  <2>2. CASE \E i \in DOMAIN replies : Configured(i) /\ replies[i].gen = installedGen
    <3>1. PICK i \in DOMAIN replies : Configured(i) /\ replies[i].gen = installedGen
      BY <2>2
    <3> QED  BY <1>3, <1>4, <3>1
  <2> QED  BY <1>1, <2>1, <2>2 DEF TypingGens
<1>8. \A i \in DOMAIN replies' : Configured(i)' =>
         /\ replies'[i].gen \in 1..installedGen' /\ session'.ackedGen <= replies'[i].gen
         /\ replies'[i].gen = session'.ackedGen => session'.queue[i].keymap = session'.acked
         /\ replies'[i].gen = installedGen' /\ installedMap' # NoKeymap
              => session'.queue[i].keymap = installedMap'
         /\ replies'[i].gen # session'.ackedGen => held' \subseteq blind'
  BY <1>1, <1>2, <1>4 DEF TypingGens
<1>9. ASSUME NEW i \in DOMAIN replies', NEW j \in DOMAIN replies', i < j,
             Configured(i)', Configured(j)'
      PROVE  /\ replies'[i].gen <= replies'[j].gen
             /\ replies'[i].gen = replies'[j].gen
                  => session'.queue[i].keymap = session'.queue[j].keymap
  <2>1. i + 1 < j + 1
    BY <1>5, <1>9
  <2> QED  BY <1>1, <1>2, <1>4, <1>9, <2>1, SMTT(20) DEF TypingGens
<1> QED  BY <1>6, <1>7, <1>8, <1>9 DEF TypingGens

(* What a refusal leaves of the session, and what the variables range over then. *)
LEMMA RefusedTyped ==
    ASSUME TypingInv, replies # <<>>, ReadReply, session' = configureFailed(session),
           Regular(ledger'), wire' \in Seq(Commands),
           inputReady' \in BOOLEAN, withheld' \in BOOLEAN,
           UNCHANGED <<sends, pointer, meant, linked, held, installedGen, installedMap,
                       blind, blindLines>>
    PROVE  /\ TypingTyped' /\ linked /\ Chain(session') /\ replies' = Tail(replies)
           /\ session'.acked = session.acked /\ session'.ackedGen = session.ackedGen
           /\ Shaped(session') /\ Len(session'.queue) = Len(session.queue) - 1
           /\ \A i \in 1..(Len(session.queue) - 1) :
                /\ session'.queue[i].keymap = session.queue[i + 1].keymap
                /\ session'.queue[i].changed
                     => session.queue[i + 1].changed \/ (i = 1 /\ session.queue[1].changed)
           /\ KeymapIsKnown' <=> KeymapIsKnown
<1>1. /\ Shaped(session) /\ Chain(session) /\ session.queue # <<>>
      /\ linked
  BY ReplyIs
<1>2. /\ Shaped(session') /\ session'.acked = session.acked /\ session'.ackedGen = session.ackedGen
  BY <1>1, FailedIs
<1>3. /\ Chain(session') /\ Len(session'.queue) = Len(session.queue) - 1
      /\ \A i \in 1..(Len(session.queue) - 1) :
           /\ session'.queue[i].keymap = session.queue[i + 1].keymap
           /\ session'.queue[i].changed
                => session.queue[i + 1].changed \/ (i = 1 /\ session.queue[1].changed)
  BY <1>1, FailedChain
<1>4. stamps' \in Seq(Nat) /\ replies' \in Seq(HelperWords) /\ Len(stamps') = Len(session'.queue)
  BY <1>3, ReplyIs DEF ReadReply
<1>5. /\ pointer' \in BOOLEAN /\ linked' \in BOOLEAN /\ sends' \in Nat
      /\ meant' \in Seq(Meanings) /\ held' \subseteq KeyNames /\ installedGen' \in Nat \ {0}
      /\ installedMap' \in Keymaps \cup {NoKeymap} /\ blindLines' \in Nat
  BY DEF TypingInv, TypingTyped
<1>6. /\ session'.acked \in Keymaps \cup {NoKeymap}
      /\ session'.ackedGen \in Nat /\ (session'.ackedGen = 0 <=> session'.acked = NoKeymap)
  BY <1>2 DEF TypingInv, TypingTyped
<1>7. TypingTyped'
  BY <1>2, <1>4, <1>5, <1>6 DEF TypingTyped
<1>8. KeymapIsKnown' <=> KeymapIsKnown
  BY <1>2 DEF KeymapIsKnown
<1> QED  BY <1>1, <1>2, <1>3, <1>7, <1>8 DEF ReadReply

(* No line at all. *)
LEMMA NothingLines ==
    /\ <<>> \in Seq(Strokes) /\ NoDowns(<<>>) /\ NoKeys(<<>>)
  BY DEF NoDowns, NoKeys

(* HearBadGroup: the device kept what it held. *)
LEMMA HearBadGroupStep ==
    ASSUME TypingInv, HearBadGroup
    PROVE  TypingInv'
<1>1. /\ replies # <<>> /\ Head(replies).word = "bad group" /\ ReadReply
      /\ session' = configureFailed(session)
      /\ UNCHANGED <<sends, inputReady, ledger, pointer, wire, meant, linked, held, installedGen,
                     installedMap, blind, blindLines, withheld>>
  BY DEF HearBadGroup, HearsReply, Outside, helper
<1>2. /\ Regular(ledger') /\ wire' \in Seq(Commands) /\ wire \in Seq(Commands)
      /\ inputReady' \in BOOLEAN /\ withheld' \in BOOLEAN
  BY <1>1 DEF TypingInv, TypingTyped
<1>3. /\ TypingTyped' /\ linked /\ Chain(session') /\ replies' = Tail(replies)
      /\ session'.acked = session.acked /\ session'.ackedGen = session.ackedGen
      /\ Shaped(session') /\ Len(session'.queue) = Len(session.queue) - 1
      /\ \A i \in 1..(Len(session.queue) - 1) :
           /\ session'.queue[i].keymap = session.queue[i + 1].keymap
           /\ session'.queue[i].changed
                => session.queue[i + 1].changed \/ (i = 1 /\ session.queue[1].changed)
      /\ KeymapIsKnown' <=> KeymapIsKnown
  BY <1>1, <1>2, RefusedTyped
<1>4. ~Configured(1) /\ replies[1].word = "bad group"
  BY <1>1, ReplyIs DEF Configured
<1>5. TypingGens'
  BY <1>1, <1>3, <1>4, RefusedGens
<1>6. TypingConfs'
  <2>1. wire' = wire \o <<>>
    BY <1>1, <1>2, NothingJoined
  <2>2. TypingTyped /\ TypingConfs /\ linked' = linked
    BY <1>1 DEF TypingInv
  <2> QED  BY <1>1, <1>3, <2>1, <2>2, NothingLines, ConfsPopped
<1>7. TypingGate'
  <2>1. /\ Len(session.queue) \in Nat \ {0} /\ DOMAIN session.queue = 1..Len(session.queue)
        /\ DOMAIN session'.queue = 1..Len(session'.queue)
    BY <1>1, <1>3, ReplyIs, QueueIs
  <2>2. ASSUME inputReady, NEW i \in DOMAIN session'.queue PROVE ~session'.queue[i].changed
    <3>1. i \in 1..(Len(session.queue) - 1) /\ i + 1 \in DOMAIN session.queue
          /\ 1 \in DOMAIN session.queue
      BY <1>3, <2>1
    <3>2. NoFlags
      BY <2>2, GateOpen
    <3> QED  BY <1>3, <3>1, <3>2 DEF NoFlags
  <2> QED  BY <1>1, <1>3, <2>2 DEF TypingInv, TypingGate
<1>8. TypingUps'
  BY <1>1 DEF TypingInv, TypingUps
<1>9. Refusal => Refusal'
  <2> SUFFICES ASSUME NEW i \in DOMAIN replies, replies[i].word = "cannot",
                      session.queue[i].keymap # session.acked
               PROVE  Refusal'
    BY DEF Refusal
  <2>1. i - 1 \in DOMAIN replies' /\ replies'[i - 1] = replies[i]
        /\ i - 1 \in 1..(Len(session.queue) - 1) /\ (i - 1) + 1 = i
    <3> DEFINE m == Len(replies)
               z == Len(session.queue)
    <3>1. /\ m \in Nat \ {0} /\ m <= z /\ z \in Nat /\ DOMAIN replies = 1..m
          /\ DOMAIN replies' = 1..(m - 1) /\ \A j \in 1..(m - 1) : replies'[j] = replies[j + 1]
      BY <1>1, <1>3, ReplyIs
    <3>2. i # 1 /\ i \in DOMAIN replies
      BY <1>4
    <3> HIDE DEF m, z
    <3>3. i - 1 \in 1..(m - 1) /\ (i - 1) + 1 = i /\ i - 1 \in 1..(z - 1)
      BY ONLY <3>1, <3>2
    <3> QED  BY ONLY <3>1, <3>3 DEF z
  <2>2. session'.queue[i - 1].keymap = session.queue[i].keymap
    BY <1>3, <2>1
  <2> QED  BY <1>3, <2>1, <2>2 DEF Refusal
<1>10. TypingLocks'
  BY <1>1, <1>3, <1>9 DEF TypingInv, TypingLocks
<1>11. TypingMeant'
  <2>1. KeymapIsKnown' = KeymapIsKnown
    BY <1>3 DEF KeymapIsKnown
  <2> QED  BY <1>1, <2>1 DEF TypingInv, TypingMeant
<1> QED  BY <1>3, <1>5, <1>6, <1>7, <1>8, <1>10, <1>11 DEF TypingInv

(* HearCannotConfigure lifts the locks the ledger forgets. *)
LEMMA HearCannotConfigureStep ==
    ASSUME TypingInv, HearCannotConfigure
    PROVE  TypingInv'
<1> DEFINE lines == Lines("up", LocksToLift, FALSE)
<1>1. /\ replies # <<>> /\ Head(replies).word = "cannot" /\ ReadReply
      /\ session' = configureFailed(session) /\ ledger' = configureDrain(ledger, -1)
      /\ inputReady' = FALSE /\ withheld' = FALSE /\ Write(lines)
      /\ UNCHANGED <<sends, pointer, meant, linked, held, installedGen, installedMap,
                     blind, blindLines>>
  BY DEF HearCannotConfigure, HearsReply, helper
<1>2. /\ Regular(ledger) /\ Regular(ledger') /\ Locked(ledger') = {}
      /\ ledger.pending = NoPending => ledger'.pending = NoPending
      /\ HeldBy(ledger') = Chord(ledger.pending)
  <2>1. Regular(ledger)
    BY GateOpen
  <2> QED  BY <1>1, <2>1, DrainIs
<1>3. /\ lines \in Seq(Strokes) /\ Acts(lines, {}, Locked(ledger))
      /\ NoKeys(lines) /\ NoDowns(lines)
  <2>1. Locked(ledger) \subseteq {"shift"} /\ Locked(ledger) \in SUBSET Modifiers
    BY <1>2 DEF Regular, Modifiers
  <2>2. KeysOf(Locked(ledger), FALSE) = Locked(ledger)
    BY <2>1, LockKeys
  <2>3. /\ lines \in Seq(Strokes) /\ Acts(lines, {}, KeysOf(Locked(ledger), FALSE))
        /\ NoKeys(lines) /\ NoDowns(lines)
    BY <2>1, LinesAct DEF LocksToLift, Locked
  <2> QED  BY <2>2, <2>3
<1> HIDE DEF lines
<1>4. linked /\ linked' /\ wire' = wire \o lines
  BY <1>1, ReplyIs DEF Write
<1>5. /\ wire \in Seq(Commands) /\ lines \in Seq(Commands) /\ wire' \in Seq(Commands)
      /\ End(lines) \in Nat \ {0}
  <2>1. TypingTyped
    BY DEF TypingInv
  <2> QED  BY <1>3, <1>4, <2>1, StrokesAre
<1>6. /\ TypingTyped' /\ linked /\ Chain(session') /\ replies' = Tail(replies)
      /\ session'.acked = session.acked /\ session'.ackedGen = session.ackedGen
      /\ Shaped(session') /\ Len(session'.queue) = Len(session.queue) - 1
      /\ \A i \in 1..(Len(session.queue) - 1) :
           /\ session'.queue[i].keymap = session.queue[i + 1].keymap
           /\ session'.queue[i].changed
                => session.queue[i + 1].changed \/ (i = 1 /\ session.queue[1].changed)
      /\ KeymapIsKnown' <=> KeymapIsKnown
  BY <1>1, <1>2, <1>5, RefusedTyped
<1>7. TypingGens'
  <2>1. ~Configured(1)
    BY <1>1, ReplyIs DEF Configured
  <2> QED  BY <1>1, <1>6, <2>1, RefusedGens
<1>8. TypingConfs'
  <2>1. TypingTyped /\ TypingConfs /\ linked' = linked
    BY <1>1 DEF TypingInv
  <2> QED  BY <1>1, <1>3, <1>4, <1>6, <2>1, ConfsPopped
<1>9. TypingGate'
  <2>1. NoDowns(wire) => NoDowns(wire')
    BY <1>3, <1>4, <1>5, NoneJoined
  <2> QED  BY <1>1, <1>2, <1>4, <1>6, <2>1 DEF TypingInv, TypingGate
<1>10. TypingUps'
  <2> SUFFICES ASSUME NEW x \in KeyNames \ HeldBy(ledger')
               PROVE  Free(wire', held \ blind, blindLines, x, End(wire'))
    BY <1>1 DEF TypingUps
  <2>1. CASE x \in Locked(ledger)
    <3>1. Lifts(lines, x, End(lines))
      BY <1>3, <2>1 DEF Acts
    <3> QED  BY <1>4, <1>5, <3>1, FreeAtEnd
  <2>2. CASE x \notin Locked(ledger)
    <3>1. Unnamed(lines, x, End(lines))
      BY <1>3, <2>2 DEF Acts
    <3>2. x \in KeyNames \ HeldBy(ledger)
      BY <1>2, <2>2 DEF HeldBy
    <3>3. Free(wire, held \ blind, blindLines, x, End(wire))
      BY <1>4, <3>2 DEF TypingInv, TypingUps
    <3> QED  BY <1>4, <1>5, <3>1, <3>3, FreeAtEnd
  <2> QED  BY <2>1, <2>2
<1>11. TypingLocks'
  BY <1>2 DEF TypingLocks
<1>12. TypingMeant'
  <2>1. KeysAt(lines) = {}
    BY <1>3 DEF KeysAt, NoKeys
  <2>2. TypingTyped /\ TypingMeant
    BY DEF TypingInv
  <2> QED  BY <1>1, <1>4, <1>5, <1>6, <2>1, <2>2, MeantKept DEF SameHands
<1> QED  BY <1>6, <1>7, <1>8, <1>9, <1>10, <1>11, <1>12 DEF TypingInv

(* An acknowledgement: its generation becomes the known one. *)
LEMMA AckedGens ==
    ASSUME TypingInv, replies # <<>>, Configured(1), replies' = Tail(replies),
           session'.acked = session.queue[1].keymap, session'.ackedGen = replies[1].gen,
           UNCHANGED <<linked, held, blind, installedGen, installedMap>>,
           \A i \in 1..(Len(session.queue) - 1) : session'.queue[i] = session.queue[i + 1]
    PROVE  TypingGens'
<1> DEFINE g == replies[1].gen
           m == Len(replies)
           z == Len(session.queue)
<1>1. linked /\ TypingGens /\ session.ackedGen \in Nat /\ installedGen \in Nat
  BY ReplyIs DEF TypingInv, TypingTyped
<1>2. /\ m \in Nat \ {0} /\ m <= z /\ z \in Nat /\ DOMAIN replies = 1..m
      /\ DOMAIN replies' = 1..(m - 1) /\ \A i \in 1..(m - 1) : replies'[i] = replies[i + 1]
  BY ReplyIs
<1>3. \A i \in 1..(z - 1) : session'.queue[i] = session.queue[i + 1]
  OBVIOUS
<1>4. 1 \in DOMAIN replies
  BY <1>2
<1>5. /\ g \in 1..installedGen /\ session.ackedGen <= g
      /\ g = session.ackedGen => session.queue[1].keymap = session.acked
      /\ g = installedGen /\ installedMap # NoKeymap => session.queue[1].keymap = installedMap
      /\ g # session.ackedGen => held \subseteq blind
  BY <1>1, <1>4 DEF TypingGens
<1>6. \A i \in DOMAIN replies' :
        /\ i \in 1..(z - 1) /\ i + 1 \in DOMAIN replies /\ 1 < i + 1 /\ i \in Int
        /\ replies'[i] = replies[i + 1] /\ session'.queue[i] = session.queue[i + 1]
  <2> HIDE DEF m, z
  <2>1. \A i \in 1..(m - 1) : i \in 1..(z - 1) /\ i + 1 \in 1..m /\ 1 < i + 1 /\ i \in Int
    BY ONLY <1>2
  <2> QED  BY ONLY <1>2, <1>3, <2>1
<1>7. \A i \in DOMAIN replies' : Configured(i)' <=> Configured(i + 1)
  BY <1>6 DEF Configured
<1>8. \A i \in DOMAIN replies : i # 1 =>
        /\ i - 1 \in DOMAIN replies' /\ (i - 1) + 1 = i /\ replies'[i - 1] = replies[i]
  <2> HIDE DEF m, z
  <2>1. \A i \in 1..m : i # 1 => i - 1 \in 1..(m - 1) /\ (i - 1) + 1 = i
    BY ONLY <1>2
  <2> QED  BY ONLY <1>2, <2>1
<1>9. \A i \in DOMAIN replies' : Configured(i)' =>
        /\ replies[i + 1].gen \in 1..installedGen /\ session.ackedGen <= replies[i + 1].gen
        /\ replies[i + 1].gen = installedGen /\ installedMap # NoKeymap
             => session.queue[i + 1].keymap = installedMap
        /\ replies[i + 1].gen # session.ackedGen => held \subseteq blind
        /\ g <= replies[i + 1].gen
        /\ g = replies[i + 1].gen => session.queue[1].keymap = session.queue[i + 1].keymap
  BY <1>1, <1>4, <1>6, <1>7 DEF TypingGens
<1>10. /\ session'.ackedGen <= installedGen'
       /\ session'.ackedGen = installedGen' /\ installedMap' # NoKeymap
             => session'.acked = installedMap'
  BY <1>5
<1>11. installedMap' # NoKeymap =>
         \/ session'.ackedGen = installedGen'
         \/ session'.ackedGen = 0 /\ \A i \in DOMAIN replies' : ~Configured(i)'
         \/ \E i \in DOMAIN replies' : Configured(i)' /\ replies'[i].gen = installedGen'
  <2> SUFFICES ASSUME installedMap # NoKeymap, g # installedGen
               PROVE  \E i \in DOMAIN replies' : Configured(i)' /\ replies'[i].gen = installedGen
    OBVIOUS
  <2>1. session.ackedGen # installedGen
    BY <1>1, <1>5
  <2>2. PICK i \in DOMAIN replies : Configured(i) /\ replies[i].gen = installedGen
    BY <1>1, <1>4, <2>1 DEF TypingGens
  <2>3. i # 1
    BY <2>2
  <2> QED  BY <1>7, <1>8, <2>2, <2>3
<1>12. \A i \in DOMAIN replies' : Configured(i)' =>
         /\ replies'[i].gen \in 1..installedGen' /\ session'.ackedGen <= replies'[i].gen
         /\ replies'[i].gen = session'.ackedGen => session'.queue[i].keymap = session'.acked
         /\ replies'[i].gen = installedGen' /\ installedMap' # NoKeymap
              => session'.queue[i].keymap = installedMap'
         /\ replies'[i].gen # session'.ackedGen => held' \subseteq blind'
  <2> SUFFICES ASSUME NEW i \in DOMAIN replies', Configured(i)'
               PROVE  /\ replies[i + 1].gen \in 1..installedGen /\ g <= replies[i + 1].gen
                      /\ replies[i + 1].gen = g
                           => session.queue[i + 1].keymap = session.queue[1].keymap
                      /\ replies[i + 1].gen = installedGen /\ installedMap # NoKeymap
                           => session.queue[i + 1].keymap = installedMap
                      /\ replies[i + 1].gen # g => held \subseteq blind
    BY <1>6
  <2>1. replies[i + 1].gen # g => replies[i + 1].gen # session.ackedGen
    BY <1>1, <1>5, <1>9
  <2> QED  BY <1>9, <2>1
<1>13. ASSUME NEW i \in DOMAIN replies', NEW j \in DOMAIN replies', i < j,
             Configured(i)', Configured(j)'
      PROVE  /\ replies'[i].gen <= replies'[j].gen
             /\ replies'[i].gen = replies'[j].gen
                  => session'.queue[i].keymap = session'.queue[j].keymap
  <2>1. i + 1 < j + 1
    BY <1>6, <1>13
  <2> QED  BY <1>1, <1>6, <1>7, <1>13, <2>1, SMTT(20) DEF TypingGens
<1> HIDE DEF m, z, g
<1> QED  BY <1>10, <1>11, <1>12, <1>13 DEF TypingGens

(* HearConfigured: a drain that was foreseen has nothing down behind it, and behind one that
   was not every key in hand, or on the wire, is one pressed blind. *)
LEMMA HearConfiguredStep ==
    ASSUME TypingInv, HearConfigured
    PROVE  TypingInv'
<1> DEFINE g == replies[1].gen
           first == session.queue[1]
           drains == first.changed \/ (session.ackedGen # 0 /\ g # session.ackedGen)
<1>1. /\ replies # <<>> /\ Head(replies).word = "configured" /\ ReadReply
      /\ UNCHANGED <<sends, pointer, wire, meant, linked, held, installedGen, installedMap, blind>>
  BY DEF HearConfigured, HearsReply, helper
<1>2. /\ linked /\ session.queue # <<>> /\ Shaped(session) /\ Chain(session)
      /\ replies[1] = Head(replies) /\ replies[1] \in HelperWords
      /\ Head(session.queue) = session.queue[1] /\ Configured(1)
      /\ first.keymap \in Keymaps /\ first.changed \in BOOLEAN
      /\ first.changed => NoDowns(wire)
      /\ 1 \in DOMAIN replies
  BY <1>1, ReplyIs DEF Configured
<1>3. drains \in BOOLEAN /\ (Drains(Head(replies)) <=> drains)
  BY <1>2 DEF Drains
<1>4. /\ session' = configureAck(session, g) /\ inputReady' = typingReady(session')
      /\ ledger' = IF drains THEN configureDrain(ledger, Head(stamps)) ELSE ledger
      /\ withheld' = (withheld /\ ~drains)
      /\ blindLines' = IF drains /\ ~first.changed THEN Len(wire) ELSE blindLines
  BY <1>2, <1>3 DEF HearConfigured, SettledBy
<1>5. /\ Shaped(session') /\ session'.acked = first.keymap /\ session'.ackedGen = g
  BY <1>2, <1>4, AckIs
<1>6. /\ Chain(session') /\ Len(session'.queue) = Len(session.queue) - 1
      /\ \A i \in 1..(Len(session.queue) - 1) : session'.queue[i] = session.queue[i + 1]
  BY <1>2, <1>4, AckChain
<1>7. g \in Nat /\ 1 <= g /\ session.ackedGen <= g /\ session.ackedGen \in Nat
      /\ (g = session.ackedGen => first.keymap = session.acked)
      /\ (g # session.ackedGen => held \subseteq blind)
      /\ installedGen \in Nat
  <2>1. session.ackedGen \in Nat /\ installedGen \in Nat
    BY DEF TypingInv, TypingTyped
  <2>2. TypingGens
    BY DEF TypingInv
  <2>3. g \in 1..installedGen
    BY <1>2, <2>2 DEF TypingGens
  <2> QED  BY <1>2, <2>1, <2>2, <2>3 DEF TypingGens
<1>8. first.changed <=> first.keymap # session.acked
  <2>1. Len(session.queue) \in Nat /\ DOMAIN session.queue = 1..Len(session.queue)
        /\ Len(session.queue) # 0
    BY <1>2, QueueIs
  <2>2. 1 \in DOMAIN session.queue
    BY <2>1
  <2>3. first.changed <=> MapAt(session, 1) # MapAt(session, 1 - 1)
    BY <1>2, <2>2 DEF Chain
  <2> QED  BY <2>3 DEF MapAt
<1>9. ~drains => first.keymap = session.acked /\ g = session.ackedGen
  <2> SUFFICES ASSUME ~drains PROVE g = session.ackedGen
    BY <1>8
  <2>1. first.keymap = session.acked
    BY <1>8
  <2>2. session.ackedGen # 0
    BY <1>2, <2>1, NoKeymapAssumption DEF TypingInv, TypingTyped
  <2> QED  BY <2>2
<1>10. drains => held \subseteq blind
  BY <1>7, <1>8
<1> HIDE DEF g, first, drains
<1>11. Regular(ledger) /\ Regular(ledger') /\ (drains => Locked(ledger') = {})
       /\ (ledger.pending = NoPending => ledger'.pending = NoPending)
       /\ (~drains => ledger' = ledger)
  <2>1. Regular(ledger)
    BY GateOpen
  <2>2. CASE drains
    <3>1. ledger' = configureDrain(ledger, Head(stamps))
      BY <1>4, <2>2
    <3> QED  BY <2>1, <2>2, <3>1, DrainIs
  <2>3. CASE ~drains
    BY <1>4, <2>1, <2>3
  <2> QED  BY <2>2, <2>3
<1>12. inputReady' \in BOOLEAN
       /\ (inputReady' => \A i \in DOMAIN session'.queue : ~session'.queue[i].changed)
  BY <1>4 DEF typingReady, hasDrainAhead
<1>13. wire \in Seq(Commands) /\ Len(wire) \in Nat /\ DOMAIN wire = 1..Len(wire)
       /\ blindLines \in Nat /\ meant \in Seq(Meanings)
  BY DEF TypingInv, TypingTyped
<1>14. TypingTyped'
  <2>1. /\ session'.acked \in Keymaps \cup {NoKeymap} /\ session'.ackedGen \in Nat
        /\ (session'.ackedGen = 0 <=> session'.acked = NoKeymap)
    BY <1>2, <1>5, <1>7, NoKeymapAssumption
  <2>2. stamps' \in Seq(Nat) /\ Len(stamps') = Len(session'.queue) /\ replies' \in Seq(HelperWords)
    BY <1>1, <1>6, ReplyIs DEF ReadReply
  <2>3. withheld' \in BOOLEAN
    BY <1>3, <1>4 DEF TypingInv, TypingTyped
  <2>4. blindLines' \in Nat
    BY <1>4, <1>13
  <2>5. /\ sends' \in Nat /\ pointer' \in BOOLEAN /\ linked' \in BOOLEAN
        /\ wire' \in Seq(Commands) /\ held' \subseteq KeyNames /\ installedGen' \in Nat \ {0}
        /\ installedMap' \in Keymaps \cup {NoKeymap} /\ meant' \in Seq(Meanings)
    BY <1>1 DEF TypingInv, TypingTyped
  <2> QED  BY <1>5, <1>11, <1>12, <2>1, <2>2, <2>3, <2>4, <2>5 DEF TypingTyped
<1>15. TypingGate'
  <2>1. session'.ackedGen # 0
    BY <1>5, <1>7
  <2> QED  BY <1>1, <1>2, <1>11, <1>12, <2>1 DEF TypingInv, TypingGate
<1>16. TypingGens'
  <2>1. session'.acked = session.queue[1].keymap /\ session'.ackedGen = replies[1].gen
    BY <1>5 DEF first, g
  <2> QED  BY <1>1, <1>2, <1>6, <2>1, AckedGens DEF ReadReply
<1>17. TypingConfs'
  <2>1. wire' = wire \o <<>>
    BY <1>1, <1>13, NothingJoined
  <2>2. TypingTyped /\ TypingConfs /\ linked' = linked /\ replies' = Tail(replies)
    BY <1>1 DEF TypingInv, ReadReply
  <2>3. \A i \in 1..(Len(session.queue) - 1) :
           /\ session'.queue[i].keymap = session.queue[i + 1].keymap
           /\ session'.queue[i].changed
                => session.queue[i + 1].changed \/ (i = 1 /\ session.queue[1].changed)
    BY <1>6
  <2> QED  BY <1>1, <1>2, <1>6, <2>1, <2>2, <2>3, NothingLines, ConfsPopped
<1>18. CASE drains
  <2>1. \A i \in DOMAIN wire : wire[i][1] = "down" => i <= blindLines'
    BY <1>2, <1>4, <1>13, <1>18 DEF NoDowns
  <2>2. \A i \in DOMAIN wire : \A x : wire[i] = Down(x) => wire[i][1] = "down"
    BY DEF Down
  <2>3. held' \ blind' = {}
    BY <1>1, <1>10, <1>18
  <2>4. TypingUps'
    BY <1>1, <2>1, <2>2, <2>3 DEF TypingUps, Free
  <2>5. TypingLocks'
    BY <1>11, <1>18 DEF TypingLocks
  <2>6. TypingMeant'
    <3>1. PICK at \in [1..Len(meant) -> KeysAt(wire)] : Enumerates(at, Len(meant), KeysAt(wire))
      BY <1>2 DEF TypingInv, TypingMeant
    <3>2. \A n \in 1..Len(meant) : ~(at[n] > blindLines')
      <4> SUFFICES ASSUME NEW n \in 1..Len(meant) PROVE ~(at[n] > blindLines')
        OBVIOUS
      <4>1. at[n] \in DOMAIN wire /\ wire[at[n]][1] = "down"
        BY <3>1 DEF KeysAt, IsKeyDown
      <4>2. at[n] <= blindLines' /\ at[n] \in Nat
        BY <1>13, <2>1, <4>1
      <4>3. blindLines' \in Nat
        BY <1>14 DEF TypingTyped
      <4> QED  BY <4>2, <4>3
    <3> QED  BY <1>1, <3>1, <3>2 DEF TypingMeant
  <2> QED  BY <1>14, <1>15, <1>16, <1>17, <2>4, <2>5, <2>6 DEF TypingInv
<1>19. CASE ~drains
  <2>1. /\ ledger' = ledger /\ blindLines' = blindLines /\ withheld' = withheld
        /\ session'.acked = session.acked /\ session'.ackedGen = session.ackedGen
    <3>1. withheld \in BOOLEAN
      BY GateOpen
    <3> QED  BY <1>4, <1>5, <1>9, <1>19, <3>1
  <2>2. KeymapIsKnown' = KeymapIsKnown
    BY <1>1, <2>1 DEF KeymapIsKnown
  <2>3. TypingUps'
    BY <1>1, <2>1 DEF TypingInv, TypingUps
  <2>4. Refusal => Refusal'
    <3> SUFFICES ASSUME NEW i \in DOMAIN replies, replies[i].word = "cannot",
                        session.queue[i].keymap # session.acked
                 PROVE  Refusal'
      BY DEF Refusal
    <3>1. i - 1 \in DOMAIN replies' /\ replies'[i - 1] = replies[i]
          /\ i - 1 \in 1..(Len(session.queue) - 1) /\ (i - 1) + 1 = i
      <4> DEFINE m == Len(replies)
                 z == Len(session.queue)
      <4>1. /\ m \in Nat \ {0} /\ m <= z /\ z \in Nat /\ DOMAIN replies = 1..m
            /\ DOMAIN replies' = 1..(m - 1) /\ \A j \in 1..(m - 1) : replies'[j] = replies[j + 1]
        BY <1>1, ReplyIs DEF ReadReply
      <4>2. i # 1 /\ i \in DOMAIN replies
        BY <1>2 DEF Configured
      <4> HIDE DEF m, z
      <4>3. i - 1 \in 1..(m - 1) /\ (i - 1) + 1 = i /\ i - 1 \in 1..(z - 1)
        BY ONLY <4>1, <4>2
      <4> QED  BY ONLY <4>1, <4>3 DEF z
    <3>2. session'.queue[i - 1].keymap = session.queue[i].keymap
      BY <1>6, <3>1
    <3> QED  BY <2>1, <3>1, <3>2 DEF Refusal
  <2>5. TypingLocks'
    BY <1>1, <2>1, <2>2, <2>4 DEF TypingInv, TypingLocks
  <2>6. TypingMeant'
    BY <1>1, <2>1, <2>2 DEF TypingInv, TypingMeant
  <2> QED  BY <1>14, <1>15, <1>16, <1>17, <2>3, <2>5, <2>6 DEF TypingInv
<1> QED  BY <1>3, <1>18, <1>19

(* A line runs. *)
LEMMA RunIs ==
    ASSUME TypingInv, wire # <<>>, Ran
    PROVE  /\ linked /\ wire \in Seq(Commands) /\ wire' = Tail(wire) /\ wire' \in Seq(Commands)
           /\ Len(wire) \in Nat \ {0} /\ Len(wire') = Len(wire) - 1
           /\ DOMAIN wire = 1..Len(wire) /\ DOMAIN wire' = 1..(Len(wire) - 1)
           /\ \A i \in 1..(Len(wire) - 1) : wire'[i] = wire[i + 1]
           /\ Head(wire) = wire[1] /\ wire[1] \in Commands
           /\ blindLines \in Nat /\ blindLines' \in Nat
           /\ blindLines' = IF blindLines > 0 THEN blindLines - 1 ELSE 0
<1>1. linked
  BY DEF TypingInv, TypingGate
<1>2. wire \in Seq(Commands) /\ blindLines \in Nat
  BY DEF TypingInv, TypingTyped
<1>3. blindLines' \in Nat /\ wire' = Tail(wire)
      /\ blindLines' = IF blindLines > 0 THEN blindLines - 1 ELSE 0
  BY <1>2 DEF Ran
<1> QED  BY <1>1, <1>2, <1>3, TailIs

(* What the first line leaves of the keys that are up, and of those that are down. *)
LEMMA RanFree ==
    ASSUME TypingInv, wire # <<>>, Ran, NEW x, NEW p \in Nat \ {0},
           x \in held' \ blind' => \/ x \in held \ blind /\ wire[1] # Up(x)
                                   \/ wire[1] = Down(x) /\ blindLines = 0,
           Free(wire, held \ blind, blindLines, x, p + 1)
    PROVE  Free(wire', held' \ blind', blindLines', x, p)
<1> DEFINE hand == held \ blind
           after == held' \ blind'
           w == wire
           lines == blindLines
<1>1. /\ w \in Seq(Commands) /\ w # <<>> /\ lines \in Nat
      /\ wire' = Tail(w) /\ blindLines' = IF lines > 0 THEN lines - 1 ELSE 0
  BY RunIs
<1>2. /\ x \in after => \/ x \in hand /\ w[1] # Up(x)
                        \/ w[1] = Down(x) /\ lines = 0
      /\ Free(w, hand, lines, x, p + 1)
  OBVIOUS
<1> HIDE DEF hand, after, w, lines
<1>3. Free(Tail(w), after, IF lines > 0 THEN lines - 1 ELSE 0, x, p)
  BY ONLY p \in Nat \ {0}, <1>1, <1>2, FreeBehindFirst
<1> QED  BY ONLY <1>1, <1>3 DEF after

(* SureBehindFirst, of the variables. *)
LEMMA RanSure ==
    ASSUME TypingInv, wire # <<>>, Ran, NEW x, NEW p \in Nat \ {0},
           wire[1] = Down(x) => x \in held', x \in held /\ wire[1] # Up(x) => x \in held',
           Sure(wire, held, x, p + 1)
    PROVE  Sure(wire', held', x, p)
<1> DEFINE after == held'
<1>1. wire \in Seq(Commands) /\ wire' = Tail(wire)
  BY RunIs
<1>2. (wire[1] = Down(x) => x \in after) /\ (x \in held /\ wire[1] # Up(x) => x \in after)
  OBVIOUS
<1> HIDE DEF after
<1>3. Sure(Tail(wire), after, x, p)
  BY <1>1, <1>2, SureBehindFirst
<1> QED  BY ONLY <1>1, <1>3 DEF after

(* A line run keeps what is up up and what is down down, if the device does as it says. *)
LEMMA RanKept ==
    ASSUME TypingInv, wire # <<>>, Ran, UNCHANGED <<session, ledger, withheld, linked>>,
           \A x : x \in held' \ blind' => \/ x \in held \ blind /\ wire[1] # Up(x)
                                          \/ wire[1] = Down(x) /\ blindLines = 0,
           KeymapIsKnown' => /\ KeymapIsKnown
                             /\ \/ Refusal' /\ NoDowns(wire')
                                \/ \A x : /\ wire[1] = Down(x) => x \in held'
                                          /\ x \in held /\ wire[1] # Up(x) => x \in held',
           Refusal => Refusal',
           meant' = IF IsKeyDown(wire[1]) THEN Tail(meant) ELSE meant
    PROVE  TypingUps' /\ TypingLocks' /\ TypingMeant' /\ meant' \in Seq(Meanings)
<1>1. /\ linked /\ linked' /\ End(wire') \in Nat \ {0} /\ End(wire') + 1 = End(wire)
      /\ wire \in Seq(Commands) /\ wire' = Tail(wire) /\ wire' \in Seq(Commands)
      /\ DOMAIN wire' = 1..(Len(wire) - 1) /\ Len(wire) \in Nat \ {0}
      /\ blindLines \in Nat /\ blindLines' = IF blindLines > 0 THEN blindLines - 1 ELSE 0
      /\ wire[1] \in Commands
  <2>1. linked' = linked
    OBVIOUS
  <2>2. Len(wire) \in Nat \ {0} /\ Len(wire') = Len(wire) - 1
    BY RunIs
  <2>3. End(wire') \in Nat \ {0} /\ End(wire') + 1 = End(wire)
    BY ONLY <2>2 DEF End
  <2> QED  BY <2>1, <2>3, RunIs
<1>2. TypingUps'
  BY <1>1, RanFree DEF TypingInv, TypingUps
<1>3. TypingLocks'
  <2> SUFFICES ASSUME KeymapIsKnown', ~withheld,
                      "shift" \in Locked(ledger) \ ledger.pending.restore, ~Refusal'
               PROVE  Sure(wire', held', "shift", End(wire'))
    BY DEF TypingLocks
  <2>1. Sure(wire, held, "shift", End(wire))
    BY <1>1 DEF TypingInv, TypingLocks
  <2>2. /\ wire[1] = Down("shift") => "shift" \in held'
        /\ "shift" \in held /\ wire[1] # Up("shift") => "shift" \in held'
    OBVIOUS
  <2> QED  BY <1>1, <2>1, <2>2, RanSure
<1>4. ASSUME NEW mg, NEW p \in Nat \ {0}, ~NoDowns(wire'),
             Drawn(wire, held \ blind, held, blindLines, KeymapIsKnown, mg, p + 1)
      PROVE  Drawn(wire', held' \ blind', held', blindLines', KeymapIsKnown', mg, p)
  <2>1. \A x \in ModifierKeys \ mg.modifiers :
           Free(wire', held' \ blind', blindLines', x, p)
    BY <1>4, RanFree DEF Drawn
  <2>2. ASSUME KeymapIsKnown', mg.sure, NEW x \in mg.modifiers PROVE Sure(wire', held', x, p)
    <3>1. Sure(wire, held, x, p + 1)
      BY <1>4, <2>2 DEF Drawn
    <3>2. /\ wire[1] = Down(x) => x \in held'
          /\ x \in held /\ wire[1] # Up(x) => x \in held'
      BY <1>4, <2>2
    <3> QED  BY <3>1, <3>2, RanSure
  <2> QED  BY <2>1, <2>2 DEF Drawn
<1> DEFINE m == Len(meant)
<1>5. meant \in Seq(Meanings) /\ m \in Nat
  BY DEF TypingInv, TypingTyped
<1>6. \E at \in [1..m -> KeysAt(wire)] :
         /\ Enumerates(at, m, KeysAt(wire))
         /\ \A n \in 1..m : at[n] > blindLines =>
              Drawn(wire, held \ blind, held, blindLines, KeymapIsKnown, meant[n], at[n])
  BY <1>1 DEF TypingInv, TypingMeant
<1>7. /\ KeysAt(wire) \in SUBSET (Nat \ {0}) /\ KeysAt(wire') \in SUBSET (Nat \ {0})
  BY <1>1, PlacesAre
<1>8. /\ KeysAt(wire') = {i - 1 : i \in KeysAt(wire) \ {1}}
      /\ 1 \in KeysAt(wire) <=> IsKeyDown(wire[1])
  BY <1>1, PlacesBehindFirst
<1>9. \A i : i \in KeysAt(wire') => ~NoDowns(wire')
  BY DEF KeysAt, NoDowns, IsKeyDown
<1> HIDE DEF m
<1>10. PICK at \in [1..m -> KeysAt(wire)] :
         /\ Enumerates(at, m, KeysAt(wire))
         /\ \A n \in 1..m : at[n] > blindLines =>
              Drawn(wire, held \ blind, held, blindLines, KeymapIsKnown, meant[n], at[n])
  BY <1>6
<1>11. CASE ~IsKeyDown(wire[1])
  <2> DEFINE on == [i \in 1..m |-> at[i] - 1]
  <2>1. meant' = meant /\ Len(meant') = m
    BY <1>11 DEF m
  <2>2. KeysAt(wire) \ {1} = KeysAt(wire)
    BY <1>8, <1>11
  <2>3. Enumerates(on, m, KeysAt(wire'))
    <3>1. KeysAt(wire') = {i - 1 : i \in KeysAt(wire)}
      BY <1>8, <2>2
    <3>2. on = [i \in 1..m |-> at[i] - 1] /\ KeysAt(wire) \in SUBSET Nat
      BY <1>7
    <3> HIDE DEF on
    <3> QED  BY ONLY <1>5, <1>10, <3>1, <3>2, AllLess
  <2>4. ASSUME NEW n \in 1..m, on[n] > blindLines'
        PROVE  Drawn(wire', held' \ blind', held', blindLines', KeymapIsKnown', meant'[n], on[n])
    <3>1. on[n] = at[n] - 1 /\ at[n] \in Nat /\ on[n] \in KeysAt(wire')
      BY <1>7, <2>3 DEF Enumerates
    <3> HIDE DEF on
    <3>2. on[n] \in Nat \ {0} /\ on[n] + 1 = at[n] /\ at[n] > blindLines
      BY <1>1, <1>7, <2>4, <3>1, SMTT(20)
    <3>3. Drawn(wire, held \ blind, held, blindLines, KeymapIsKnown, meant[n], on[n] + 1)
      BY <1>10, <3>2
    <3> QED  BY <1>4, <1>9, <2>1, <3>1, <3>2, <3>3
  <2>5. on \in [1..m -> KeysAt(wire')]
    BY <2>3 DEF Enumerates
  <2> HIDE DEF on
  <2>6. TypingMeant'
    BY <2>1, <2>3, <2>4, <2>5 DEF TypingMeant
  <2> QED  BY <1>2, <1>3, <1>5, <2>1, <2>6
<1>12. CASE IsKeyDown(wire[1])
  <2> DEFINE on == [i \in 1..(m - 1) |-> at[i + 1] - 1]
  <2>1. 1 \in KeysAt(wire)
    BY <1>8, <1>12
  <2>2. m \in Nat \ {0} /\ at[1] = 1 /\ Enumerates(on, m - 1, KeysAt(wire'))
    <3>1. on = [i \in 1..(m - 1) |-> at[i + 1] - 1]
      OBVIOUS
    <3> HIDE DEF on
    <3> QED  BY ONLY <1>5, <1>7, <1>8, <1>10, <2>1, <3>1, OneTaken
  <2>3. /\ meant' = Tail(meant) /\ meant # <<>> /\ meant' \in Seq(Meanings) /\ Len(meant') = m - 1
        /\ \A n \in 1..(m - 1) : meant'[n] = meant[n + 1]
    <3>1. meant' = Tail(meant)
      BY <1>12
    <3>2. meant # <<>>
      BY <2>2 DEF m
    <3> QED  BY <1>5, <3>1, <3>2, TailIs DEF m
  <2>4. ASSUME NEW n \in 1..(m - 1), on[n] > blindLines'
        PROVE  Drawn(wire', held' \ blind', held', blindLines', KeymapIsKnown', meant'[n], on[n])
    <3>1. n + 1 \in 1..m
      BY <2>2
    <3>2. on[n] = at[n + 1] - 1 /\ at[n + 1] \in Nat /\ on[n] \in KeysAt(wire')
      BY <1>7, <2>2, <3>1 DEF Enumerates
    <3> HIDE DEF on
    <3>3. on[n] \in Nat \ {0} /\ on[n] + 1 = at[n + 1] /\ at[n + 1] > blindLines
      BY <1>1, <1>7, <2>4, <3>2, SMTT(20)
    <3>4. Drawn(wire, held \ blind, held, blindLines, KeymapIsKnown, meant[n + 1], on[n] + 1)
      BY <1>10, <3>1, <3>3
    <3>5. meant'[n] = meant[n + 1]
      BY <2>3
    <3> QED  BY <1>4, <1>9, <3>2, <3>3, <3>4, <3>5
  <2>5. on \in [1..(m - 1) -> KeysAt(wire')]
    BY <2>2 DEF Enumerates
  <2> HIDE DEF on
  <2>6. TypingMeant'
    BY <2>2, <2>3, <2>4, <2>5 DEF TypingMeant
  <2> QED  BY <1>2, <1>3, <2>3, <2>6
<1> QED  BY <1>11, <1>12

(* A line of the wire is a stroke or a configure. *)
LEMMA CommandIs ==
    ASSUME NEW command \in Commands
    PROVE  /\ command[1] = "down" => command = Down(command[2]) /\ command[2] \in KeyNames
           /\ command[1] = "up" => command = Up(command[2]) /\ command[2] \in KeyNames
           /\ command[1] = "configure" => command[2] \in Keymaps
           /\ command[1] = "configure" => \A x : command # Up(x) /\ command # Down(x)
  BY DEF Commands, Strokes, Down, Up

(* What is quiet stays quiet as the line shortens. *)
LEMMA QuietBehindFirst ==
    ASSUME TypingInv, wire # <<>>, Ran
    PROVE  /\ NoDowns(wire) => NoDowns(wire')
           /\ \A p \in Nat : QuietAfter(wire, p + 1) => QuietAfter(wire', p)
           /\ QuietAfter(wire, 1) => NoDowns(wire')
<1>1. /\ Len(wire) \in Nat \ {0}
      /\ DOMAIN wire = 1..Len(wire) /\ DOMAIN wire' = 1..(Len(wire) - 1)
      /\ \A i \in 1..(Len(wire) - 1) : wire'[i] = wire[i + 1]
  BY RunIs
<1>2. \A i \in DOMAIN wire' : /\ i + 1 \in DOMAIN wire /\ wire'[i] = wire[i + 1] /\ i + 1 > 1
                              /\ i \in Nat /\ \A p \in Nat : i > p => i + 1 > p + 1
  BY ONLY <1>1
<1> QED  BY ONLY <1>2 DEF NoDowns, QuietAfter

(* A stroke run shifts the configures behind it. *)
LEMMA StrokeConfs ==
    ASSUME TypingInv, wire # <<>>, Ran, wire[1][1] # "configure",
           UNCHANGED <<session, replies, linked>>
    PROVE  TypingConfs'
<1> DEFINE m == Len(replies)
           n == Len(session.queue) - m
<1>1. /\ linked /\ wire \in Seq(Commands) /\ wire' = Tail(wire) /\ wire' \in Seq(Commands)
      /\ Len(wire) \in Nat \ {0} /\ DOMAIN wire' = 1..(Len(wire) - 1)
      /\ \A i \in 1..(Len(wire) - 1) : wire'[i] = wire[i + 1]
  BY RunIs
<1>2. Chain(session) /\ m <= Len(session.queue)
      /\ \A i \in DOMAIN replies : session.queue[i].changed => NoDowns(wire)
  BY <1>1 DEF TypingInv, TypingConfs
<1>3. m \in Nat /\ Len(session.queue) \in Nat
  BY QueueIs DEF TypingInv, TypingTyped
<1>4. n \in Nat
  BY <1>2, <1>3
<1>5. \E at \in [1..n -> ConfsAt(wire)] :
         /\ Enumerates(at, n, ConfsAt(wire))
         /\ \A d \in 1..n :
              /\ wire[at[d]][2] = session.queue[m + d].keymap
              /\ session.queue[m + d].changed => QuietAfter(wire, at[d])
  BY <1>1 DEF TypingInv, TypingConfs
<1>6. /\ ConfsAt(wire) \in SUBSET (Nat \ {0}) /\ ConfsAt(wire') \in SUBSET (Nat \ {0})
      /\ ConfsAt(wire') = {i - 1 : i \in ConfsAt(wire)}
  <2>1. 1 \notin ConfsAt(wire) /\ ConfsAt(wire') = {i - 1 : i \in ConfsAt(wire) \ {1}}
    BY <1>1, PlacesBehindFirst
  <2>2. ConfsAt(wire) \ {1} = ConfsAt(wire)
    BY <2>1
  <2> QED  BY <1>1, <2>1, <2>2, PlacesAre
<1> HIDE DEF n, m
<1>7. PICK at \in [1..n -> ConfsAt(wire)] :
         /\ Enumerates(at, n, ConfsAt(wire))
         /\ \A d \in 1..n :
              /\ wire[at[d]][2] = session.queue[m + d].keymap
              /\ session.queue[m + d].changed => QuietAfter(wire, at[d])
  BY <1>5
<1> DEFINE on == [i \in 1..n |-> at[i] - 1]
<1>8. Enumerates(on, n, ConfsAt(wire'))
  <2>1. on = [i \in 1..n |-> at[i] - 1] /\ ConfsAt(wire) \in SUBSET Nat
    BY <1>6
  <2> HIDE DEF on
  <2> QED  BY ONLY <1>4, <1>6, <1>7, <2>1, AllLess
<1>9. on \in [1..n -> ConfsAt(wire')]
  BY <1>8 DEF Enumerates
<1>10. ASSUME NEW d \in 1..n
       PROVE  /\ wire'[on[d]][2] = session.queue[m + d].keymap
              /\ session.queue[m + d].changed => QuietAfter(wire', on[d])
  <2>1. on[d] \in ConfsAt(wire') /\ on[d] = at[d] - 1 /\ at[d] \in Nat
    BY <1>6, <1>9
  <2> HIDE DEF on
  <2>2. on[d] \in Nat /\ on[d] + 1 = at[d] /\ on[d] \in DOMAIN wire'
    BY <1>6, <2>1 DEF ConfsAt
  <2>3. wire'[on[d]] = wire[at[d]]
    BY <1>1, <2>2
  <2> QED  BY <1>7, <2>2, <2>3, QuietBehindFirst
<1>11. \A i \in DOMAIN replies' : session'.queue[i].changed => NoDowns(wire')
  BY <1>2, QuietBehindFirst
<1>12. /\ Chain(session') /\ Len(replies') <= Len(session'.queue) /\ Len(replies') = m
       /\ Len(session'.queue) - Len(replies') = n /\ session' = session
  <2>1. session' = session /\ replies' = replies
    OBVIOUS
  <2>2. Chain(session')
    BY <1>2, <2>1 DEF Chain, MapAt
  <2> QED  BY <1>2, <2>1, <2>2 DEF m, n
<1> HIDE DEF on
<1>13. \E f \in [1..(Len(session'.queue) - Len(replies')) -> ConfsAt(wire')] :
          /\ Enumerates(f, Len(session'.queue) - Len(replies'), ConfsAt(wire'))
          /\ \A d \in 1..(Len(session'.queue) - Len(replies')) :
               /\ wire'[f[d]][2] = session'.queue[Len(replies') + d].keymap
               /\ session'.queue[Len(replies') + d].changed => QuietAfter(wire', f[d])
  BY ONLY <1>8, <1>9, <1>10, <1>12
<1> QED  BY ONLY <1>11, <1>12, <1>13 DEF TypingConfs

(* What the variables range over after a line has run. *)
LEMMA RunTyped ==
    ASSUME TypingInv, wire # <<>>, Ran, UNCHANGED <<panel, linked, withheld>>,
           replies' \in Seq(HelperWords), meant' \in Seq(Meanings), held' \subseteq KeyNames,
           installedGen' \in Nat \ {0}, installedMap' \in Keymaps \cup {NoKeymap}
    PROVE  TypingTyped'
<1>1. wire' \in Seq(Commands) /\ blindLines' \in Nat
  BY RunIs
<1>2. TypingTyped
  BY DEF TypingInv
<1>3. /\ session' = session /\ stamps' = stamps /\ sends' = sends /\ inputReady' = inputReady
      /\ pointer' = pointer /\ linked' = linked /\ withheld' = withheld /\ ledger' = ledger
  BY DEF panel
<1>4. /\ session'.acked \in Keymaps \cup {NoKeymap} /\ session'.ackedGen \in Nat
      /\ (session'.ackedGen = 0 <=> session'.acked = NoKeymap)
      /\ Shaped(session') /\ Len(stamps') = Len(session'.queue)
  BY <1>2, <1>3 DEF TypingTyped
<1>5. /\ stamps' \in Seq(Nat) /\ sends' \in Nat /\ inputReady' \in BOOLEAN
      /\ pointer' \in BOOLEAN /\ linked' \in BOOLEAN /\ withheld' \in BOOLEAN /\ Regular(ledger')
  BY <1>2, <1>3 DEF TypingTyped
<1> QED  BY <1>1, <1>4, <1>5 DEF TypingTyped

(* RunDown: the key is blind exactly if a drain is behind it that nobody foresaw. *)
LEMMA RunDownStep ==
    ASSUME TypingInv, RunDown
    PROVE  TypingInv'
<1> DEFINE key == wire[1][2]
<1>1. wire # <<>> /\ Ran /\ Head(wire)[1] = "down"
  BY DEF RunDown, HelperRuns
<1>2. /\ linked /\ Head(wire) = wire[1] /\ wire[1] \in Commands /\ DOMAIN wire = 1..Len(wire)
      /\ Len(wire) \in Nat \ {0} /\ blindLines \in Nat
  BY <1>1, RunIs
<1>3. wire[1] = Down(key) /\ key \in KeyNames /\ wire[1][1] = "down" /\ ~NoDowns(wire)
  <2>1. wire[1][1] = "down" /\ 1 \in DOMAIN wire
    BY <1>1, <1>2
  <2> QED  BY <1>2, <2>1, CommandIs DEF NoDowns
<1>4. /\ held' = held \cup {key}
      /\ meant' = IF IsKeyDown(wire[1]) THEN Tail(meant) ELSE meant
      /\ blind' = IF DrainUnheard \/ blindLines > 0 THEN blind \cup {key} ELSE blind \ {key}
      /\ UNCHANGED <<panel, linked, replies, installedGen, installedMap, withheld>>
  BY <1>2, <1>3 DEF RunDown, IsKeyDown
<1> HIDE DEF key
<1>5. UNCHANGED <<session, ledger, withheld, linked, inputReady, pointer>>
  BY <1>4 DEF panel
<1>6. /\ \A x, y : Up(x) # Down(y) /\ (Down(x) = Down(y) <=> x = y)
  BY UpIsNotDown
<1>7. KeymapIsKnown' => KeymapIsKnown
  BY <1>4, <1>5 DEF KeymapIsKnown
<1>8. Refusal => Refusal'
  BY <1>4, <1>5 DEF Refusal
<1>9. \A x : x \in held' \ blind' => \/ x \in held \ blind /\ wire[1] # Up(x)
                                     \/ wire[1] = Down(x) /\ blindLines = 0
  BY <1>2, <1>3, <1>4, <1>6
<1>10. \A x : /\ wire[1] = Down(x) => x \in held'
              /\ x \in held /\ wire[1] # Up(x) => x \in held'
  BY <1>3, <1>4, <1>6
<1>11. TypingUps' /\ TypingLocks' /\ TypingMeant' /\ meant' \in Seq(Meanings)
  BY <1>1, <1>4, <1>5, <1>7, <1>8, <1>9, <1>10, RanKept
<1>12. TypingConfs'
  BY <1>1, <1>3, <1>4, <1>5, StrokeConfs
<1>13. TypingTyped'
  <2>1. /\ replies' \in Seq(HelperWords) /\ held' \subseteq KeyNames
        /\ installedGen' \in Nat \ {0} /\ installedMap' \in Keymaps \cup {NoKeymap}
    BY <1>3, <1>4 DEF TypingInv, TypingTyped
  <2> QED  BY <1>1, <1>4, <1>11, <2>1, RunTyped
<1>14. TypingGate'
  BY <1>2, <1>3, <1>4, <1>5 DEF TypingInv, TypingGate
<1>15. \A i \in DOMAIN replies : Configured(i) /\ replies[i].gen # session.ackedGen
                                   => held' \subseteq blind'
  <2> SUFFICES ASSUME NEW i \in DOMAIN replies, Configured(i), replies[i].gen # session.ackedGen
               PROVE  held' \subseteq blind'
    OBVIOUS
  <2>1. held \subseteq blind
    BY <1>2 DEF TypingInv, TypingGens
  <2>2. ~session.queue[i].changed
    BY <1>2, <1>3 DEF TypingInv, TypingConfs
  <2>3. DrainUnheard
    BY <2>2 DEF DrainUnheard, Unforeseen, Configured
  <2> QED  BY <1>4, <2>1, <2>3
<1>16. TypingGens'
  BY <1>2, <1>4, <1>5, <1>15 DEF TypingInv, TypingGens, Configured
<1> QED  BY <1>11, <1>12, <1>13, <1>14, <1>16 DEF TypingInv

(* RunUp. *)
LEMMA RunUpStep ==
    ASSUME TypingInv, RunUp
    PROVE  TypingInv'
<1> DEFINE key == wire[1][2]
<1>1. wire # <<>> /\ Ran /\ Head(wire)[1] = "up"
  BY DEF RunUp, HelperRuns
<1>2. /\ linked /\ Head(wire) = wire[1] /\ wire[1] \in Commands
  BY <1>1, RunIs
<1>3. wire[1] = Up(key) /\ key \in KeyNames /\ wire[1][1] = "up" /\ ~IsKeyDown(wire[1])
  BY <1>1, <1>2, CommandIs DEF IsKeyDown
<1>4. /\ held' = held \ {key} /\ blind' = blind \ {key}
      /\ UNCHANGED <<panel, linked, replies, installedGen, installedMap, meant, withheld>>
  BY <1>2, <1>3 DEF RunUp
<1> HIDE DEF key
<1>5. UNCHANGED <<session, ledger, withheld, linked, inputReady, pointer>>
  BY <1>4 DEF panel
<1>6. /\ \A x, y : Up(x) # Down(y) /\ (Up(x) = Up(y) <=> x = y)
  BY UpIsNotDown
<1>7. KeymapIsKnown' => KeymapIsKnown
  BY <1>4, <1>5 DEF KeymapIsKnown
<1>8. Refusal => Refusal'
  BY <1>4, <1>5 DEF Refusal
<1>9. \A x : x \in held' \ blind' => x \in held \ blind /\ wire[1] # Up(x)
  BY <1>3, <1>4, <1>6
<1>10. \A x : /\ wire[1] = Down(x) => x \in held'
              /\ x \in held /\ wire[1] # Up(x) => x \in held'
  BY <1>3, <1>4, <1>6
<1>11. meant' = IF IsKeyDown(wire[1]) THEN Tail(meant) ELSE meant
  BY <1>3, <1>4
<1>12. TypingUps' /\ TypingLocks' /\ TypingMeant' /\ meant' \in Seq(Meanings)
  BY <1>1, <1>5, <1>7, <1>8, <1>9, <1>10, <1>11, RanKept
<1>13. TypingConfs'
  BY <1>1, <1>3, <1>4, <1>5, StrokeConfs
<1>14. TypingTyped'
  <2>1. /\ replies' \in Seq(HelperWords) /\ held' \subseteq KeyNames
        /\ installedGen' \in Nat \ {0} /\ installedMap' \in Keymaps \cup {NoKeymap}
    BY <1>4 DEF TypingInv, TypingTyped
  <2> QED  BY <1>1, <1>4, <1>12, <2>1, RunTyped
<1>15. TypingGate'
  <2>1. NoDowns(wire) => NoDowns(wire')
    BY <1>1, QuietBehindFirst
  <2> QED  BY <1>2, <1>4, <1>5, <2>1 DEF TypingInv, TypingGate
<1>16. held \subseteq blind => held' \subseteq blind'
  BY <1>4
<1>17. TypingGens'
  BY <1>2, <1>4, <1>5, <1>16 DEF TypingInv, TypingGens, Configured
<1> QED  BY <1>12, <1>13, <1>14, <1>15, <1>17 DEF TypingInv

(* A configure runs: its entry of the queue is replied to, and nothing is put down
   behind it if it changes the keymap. *)
LEMMA AnswerIs ==
    ASSUME TypingInv, wire # <<>>, Head(wire)[1] = "configure",
           NEW answer \in HelperWords, replies' = Append(replies, answer)
    PROVE  LET m == Len(replies) IN
           /\ m \in Nat /\ m + 1 <= Len(session.queue) /\ Len(session.queue) \in Nat
           /\ m + 1 \in DOMAIN session.queue /\ DOMAIN session.queue = 1..Len(session.queue)
           /\ replies' \in Seq(HelperWords) /\ Len(replies') = m + 1
           /\ DOMAIN replies = 1..m /\ DOMAIN replies' = 1..(m + 1)
           /\ replies'[m + 1] = answer /\ \A i \in 1..m : replies'[i] = replies[i]
           /\ wire[1][2] = session.queue[m + 1].keymap /\ wire[1][2] \in Keymaps
           /\ session.queue[m + 1].changed => QuietAfter(wire, 1)
<1> DEFINE m == Len(replies)
           n == Len(session.queue) - m
<1>1. /\ linked /\ wire \in Seq(Commands) /\ Head(wire) = wire[1] /\ wire[1] \in Commands
  <2>1. linked /\ wire \in Seq(Commands)
    BY DEF TypingInv, TypingGate, TypingTyped
  <2> QED  BY <2>1, TailIs
<1>2. wire[1][2] \in Keymaps
  BY <1>1, CommandIs
<1>3. m <= Len(session.queue)
  BY <1>1 DEF TypingInv, TypingConfs
<1>4. /\ m \in Nat /\ Len(session.queue) \in Nat /\ DOMAIN session.queue = 1..Len(session.queue)
      /\ replies \in Seq(HelperWords)
  BY QueueIs DEF TypingInv, TypingTyped
<1>5. /\ replies' \in Seq(HelperWords) /\ Len(replies') = m + 1
      /\ DOMAIN replies = 1..m /\ DOMAIN replies' = 1..(m + 1)
      /\ replies'[m + 1] = answer /\ \A i \in 1..m : replies'[i] = replies[i]
  BY <1>4
<1>6. n \in Nat
  BY <1>3, <1>4
<1>7. \E at \in [1..n -> ConfsAt(wire)] :
         /\ Enumerates(at, n, ConfsAt(wire))
         /\ \A d \in 1..n :
              /\ wire[at[d]][2] = session.queue[m + d].keymap
              /\ session.queue[m + d].changed => QuietAfter(wire, at[d])
  BY <1>1 DEF TypingInv, TypingConfs
<1>8. ConfsAt(wire) \in SUBSET (Nat \ {0}) /\ 1 \in ConfsAt(wire)
  BY <1>1, PlacesAre, PlacesBehindFirst
<1> HIDE DEF n, m
<1>9. PICK at \in [1..n -> ConfsAt(wire)] :
         /\ Enumerates(at, n, ConfsAt(wire))
         /\ \A d \in 1..n :
              /\ wire[at[d]][2] = session.queue[m + d].keymap
              /\ session.queue[m + d].changed => QuietAfter(wire, at[d])
  BY <1>7
<1>10. n \in Nat \ {0} /\ at[1] = 1
  <2> DEFINE on == [i \in 1..(n - 1) |-> at[i + 1] - 1]
             Q == {p - 1 : p \in ConfsAt(wire) \ {1}}
  <2>1. on = [i \in 1..(n - 1) |-> at[i + 1] - 1] /\ Q = {p - 1 : p \in ConfsAt(wire) \ {1}}
    OBVIOUS
  <2> HIDE DEF on, Q
  <2> QED  BY ONLY <1>6, <1>8, <1>9, <2>1, OneTaken
<1>11. 1 \in 1..n
  BY <1>10
<1>12. wire[1][2] = session.queue[m + 1].keymap
       /\ (session.queue[m + 1].changed => QuietAfter(wire, 1))
  BY <1>9, <1>10, <1>11
<1>13. m + 1 <= Len(session.queue) /\ m + 1 \in DOMAIN session.queue
  BY <1>3, <1>4, <1>10 DEF n
<1> QED  BY <1>2, <1>4, <1>5, <1>12, <1>13 DEF m

(* The configure that ran is replied to, and the others are one nearer. *)
LEMMA AnswerConfs ==
    ASSUME TypingInv, wire # <<>>, Ran, Head(wire)[1] = "configure",
           UNCHANGED <<session, linked>>,
           NEW answer \in HelperWords, replies' = Append(replies, answer)
    PROVE  TypingConfs'
<1> DEFINE m == Len(replies)
           z == Len(session.queue)
           n == z - m
<1>1. /\ linked /\ wire \in Seq(Commands) /\ wire' = Tail(wire) /\ wire' \in Seq(Commands)
      /\ Len(wire) \in Nat \ {0} /\ DOMAIN wire' = 1..(Len(wire) - 1)
      /\ \A i \in 1..(Len(wire) - 1) : wire'[i] = wire[i + 1]
      /\ Head(wire) = wire[1]
  BY RunIs
<1>2. /\ m \in Nat /\ m + 1 <= z /\ z \in Nat /\ Len(replies') = m + 1
      /\ DOMAIN replies = 1..m /\ DOMAIN replies' = 1..(m + 1)
      /\ session.queue[m + 1].changed => QuietAfter(wire, 1)
  BY AnswerIs
<1>3. Chain(session) /\ \A i \in 1..m : session.queue[i].changed => NoDowns(wire)
  BY <1>1, <1>2 DEF TypingInv, TypingConfs
<1>4. n \in Nat \ {0}
  BY <1>2
<1>5. \E at \in [1..n -> ConfsAt(wire)] :
         /\ Enumerates(at, n, ConfsAt(wire))
         /\ \A d \in 1..n :
              /\ wire[at[d]][2] = session.queue[m + d].keymap
              /\ session.queue[m + d].changed => QuietAfter(wire, at[d])
  BY <1>1 DEF TypingInv, TypingConfs
<1>6. /\ ConfsAt(wire) \in SUBSET (Nat \ {0}) /\ ConfsAt(wire') \in SUBSET (Nat \ {0})
      /\ ConfsAt(wire') = {i - 1 : i \in ConfsAt(wire) \ {1}} /\ 1 \in ConfsAt(wire)
  BY <1>1, PlacesAre, PlacesBehindFirst
<1>7. \A i \in DOMAIN replies' : session'.queue[i].changed => NoDowns(wire')
  <2> SUFFICES ASSUME NEW i \in 1..(m + 1), session.queue[i].changed PROVE NoDowns(wire')
    BY <1>2
  <2>1. i \in 1..m \/ i = m + 1
    BY <1>2
  <2> HIDE DEF m
  <2> QED  BY <1>2, <1>3, <2>1, QuietBehindFirst
<1>8. /\ Chain(session') /\ Len(replies') <= Len(session'.queue) /\ Len(replies') = m + 1
      /\ Len(session'.queue) - Len(replies') = n - 1 /\ session' = session
  <2>1. session' = session
    OBVIOUS
  <2>2. Chain(session')
    BY <1>3, <2>1 DEF Chain, MapAt
  <2>3. Len(session'.queue) = z
    BY <2>1
  <2>4. n = z - m
    OBVIOUS
  <2> HIDE DEF n, m, z
  <2>5. Len(replies') <= Len(session'.queue) /\ Len(session'.queue) - Len(replies') = n - 1
    BY ONLY <1>2, <2>3, <2>4
  <2> QED  BY <1>2, <2>1, <2>2, <2>5
<1> HIDE DEF n, m, z
<1>9. PICK at \in [1..n -> ConfsAt(wire)] :
         /\ Enumerates(at, n, ConfsAt(wire))
         /\ \A d \in 1..n :
              /\ wire[at[d]][2] = session.queue[m + d].keymap
              /\ session.queue[m + d].changed => QuietAfter(wire, at[d])
  BY <1>5
<1> DEFINE on == [i \in 1..(n - 1) |-> at[i + 1] - 1]
<1>10. Enumerates(on, n - 1, ConfsAt(wire'))
  <2>1. on = [i \in 1..(n - 1) |-> at[i + 1] - 1]
    OBVIOUS
  <2>2. n \in Nat
    BY <1>4
  <2>3. Enumerates(at, n, ConfsAt(wire))
    BY <1>9
  <2>4. ConfsAt(wire') = {p - 1 : p \in ConfsAt(wire) \ {1}}
    BY <1>6
  <2>5. ConfsAt(wire) \in SUBSET (Nat \ {0}) /\ 1 \in ConfsAt(wire)
    BY <1>6
  <2> HIDE DEF on
  <2> QED  BY ONLY <2>1, <2>2, <2>3, <2>4, <2>5, OneTaken
<1>11. on \in [1..(n - 1) -> ConfsAt(wire')]
  BY <1>10 DEF Enumerates
<1>12. ASSUME NEW d \in 1..(n - 1)
       PROVE  /\ wire'[on[d]][2] = session.queue[m + 1 + d].keymap
              /\ session.queue[m + 1 + d].changed => QuietAfter(wire', on[d])
  <2>1. d + 1 \in 1..n /\ m + (d + 1) = m + 1 + d
    BY <1>2, <1>4
  <2>2. on[d] \in ConfsAt(wire') /\ on[d] = at[d + 1] - 1 /\ at[d + 1] \in Nat
    BY <1>6, <1>11, <2>1
  <2> HIDE DEF on
  <2>3. on[d] \in Nat /\ on[d] + 1 = at[d + 1] /\ on[d] \in DOMAIN wire'
    BY <1>6, <2>2 DEF ConfsAt
  <2>4. wire'[on[d]] = wire[at[d + 1]]
    BY <1>1, <2>3
  <2>5. /\ wire[at[d + 1]][2] = session.queue[m + 1 + d].keymap
        /\ session.queue[m + 1 + d].changed => QuietAfter(wire, at[d + 1])
    BY <1>9, <2>1
  <2> QED  BY <2>3, <2>4, <2>5, QuietBehindFirst
<1> HIDE DEF on
<1>13. \E f \in [1..(Len(session'.queue) - Len(replies')) -> ConfsAt(wire')] :
          /\ Enumerates(f, Len(session'.queue) - Len(replies'), ConfsAt(wire'))
          /\ \A d \in 1..(Len(session'.queue) - Len(replies')) :
               /\ wire'[f[d]][2] = session'.queue[Len(replies') + d].keymap
               /\ session'.queue[Len(replies') + d].changed => QuietAfter(wire', f[d])
  BY ONLY <1>8, <1>10, <1>11, <1>12
<1> QED  BY ONLY <1>7, <1>8, <1>13 DEF TypingConfs

(* What does not configure acknowledges nothing. *)
LEMMA AnswerGens ==
    ASSUME TypingInv, wire # <<>>, Head(wire)[1] = "configure",
           UNCHANGED <<session, linked, installedGen, installedMap>>,
           held \subseteq blind => held' \subseteq blind',
           NEW answer \in HelperWords, answer.word # "configured", replies' = Append(replies, answer)
    PROVE  TypingGens'
<1>1. \A i \in DOMAIN replies' : Configured(i)' =>
        i \in DOMAIN replies /\ Configured(i) /\ replies'[i] = replies[i]
  <2> DEFINE m == Len(replies)
  <2>1. /\ m \in Nat /\ DOMAIN replies = 1..m /\ DOMAIN replies' = 1..(m + 1)
        /\ replies'[m + 1] = answer /\ \A i \in 1..m : replies'[i] = replies[i]
    BY AnswerIs
  <2> HIDE DEF m
  <2>2. \A i \in 1..(m + 1) : i # m + 1 => i \in 1..m
    BY ONLY <2>1
  <2> QED  BY <2>1, <2>2 DEF Configured
<1>2. \A i \in DOMAIN replies : i \in DOMAIN replies' /\ replies'[i] = replies[i]
  BY AnswerIs
<1>3. linked /\ TypingGens
  BY DEF TypingInv, TypingGate
<1>4. \A i \in DOMAIN replies : Configured(i) => i \in DOMAIN replies' /\ Configured(i)'
  BY <1>2 DEF Configured
<1>5. /\ session.ackedGen <= installedGen
      /\ session.ackedGen = installedGen /\ installedMap # NoKeymap => session.acked = installedMap
  BY <1>3 DEF TypingGens
<1>6. installedMap # NoKeymap =>
         \/ session.ackedGen = installedGen
         \/ session.ackedGen = 0 /\ \A i \in DOMAIN replies' : ~Configured(i)'
         \/ \E i \in DOMAIN replies' : Configured(i)' /\ replies'[i].gen = installedGen
  BY <1>1, <1>2, <1>3, <1>4 DEF TypingGens
<1>7. \A i \in DOMAIN replies' : Configured(i)' =>
         /\ replies'[i].gen \in 1..installedGen /\ session.ackedGen <= replies'[i].gen
         /\ replies'[i].gen = session.ackedGen => session.queue[i].keymap = session.acked
         /\ replies'[i].gen = installedGen /\ installedMap # NoKeymap
              => session.queue[i].keymap = installedMap
         /\ replies'[i].gen # session.ackedGen => held' \subseteq blind'
  BY <1>1, <1>3 DEF TypingGens
<1>8. \A i, j \in DOMAIN replies' : i < j /\ Configured(i)' /\ Configured(j)' =>
         /\ replies'[i].gen <= replies'[j].gen
         /\ replies'[i].gen = replies'[j].gen
              => session.queue[i].keymap = session.queue[j].keymap
  BY <1>1, <1>3 DEF TypingGens
<1> QED  BY <1>5, <1>6, <1>7, <1>8 DEF TypingGens

(* What a step that answers a configure leaves, whatever the answer. *)
LEMMA AnswerStep ==
    ASSUME TypingInv, wire # <<>>, Ran, Head(wire)[1] = "configure",
           UNCHANGED <<panel, linked, meant, withheld>>,
           NEW answer \in HelperWords, replies' = Append(replies, answer),
           held' \subseteq held, held' \ blind' \subseteq held \ blind,
           installedGen' \in Nat \ {0}, installedMap' \in Keymaps \cup {NoKeymap},
           KeymapIsKnown' => /\ KeymapIsKnown
                             /\ held' = held \/ (Refusal' /\ NoDowns(wire')),
           TypingGens'
    PROVE  TypingInv'
<1>1. UNCHANGED <<session, ledger, withheld, linked, inputReady, pointer>>
  BY DEF panel
<1>2. /\ linked /\ wire[1][1] = "configure" /\ wire[1] \in Commands
      /\ \A x : wire[1] # Up(x) /\ wire[1] # Down(x)
  <2>1. linked /\ wire[1][1] = "configure" /\ wire[1] \in Commands
    BY RunIs
  <2> QED  BY <2>1, CommandIs
<1>3. ~IsKeyDown(wire[1])
  BY <1>2 DEF IsKeyDown
<1>4. TypingConfs'
  BY <1>1, AnswerConfs
<1>5. Refusal => Refusal'
  <2>1. \A i \in DOMAIN replies : i \in DOMAIN replies' /\ replies'[i] = replies[i]
    BY AnswerIs
  <2> QED  BY <1>1, <2>1 DEF Refusal
<1>6. \A x : x \in held' \ blind' => x \in held \ blind /\ wire[1] # Up(x)
  BY <1>2
<1>7. KeymapIsKnown' => /\ KeymapIsKnown
                        /\ \/ Refusal' /\ NoDowns(wire')
                           \/ \A x : /\ wire[1] = Down(x) => x \in held'
                                     /\ x \in held /\ wire[1] # Up(x) => x \in held'
  BY <1>2
<1>8. meant' = IF IsKeyDown(wire[1]) THEN Tail(meant) ELSE meant
  BY <1>3
<1>9. TypingUps' /\ TypingLocks' /\ TypingMeant' /\ meant' \in Seq(Meanings)
  BY <1>1, <1>5, <1>6, <1>7, <1>8, RanKept
<1>10. TypingTyped'
  <2>1. replies' \in Seq(HelperWords) /\ held' \subseteq KeyNames
    BY AnswerIs DEF TypingInv, TypingTyped
  <2> QED  BY <1>9, <2>1, RunTyped
<1>11. TypingGate'
  <2>1. NoDowns(wire) => NoDowns(wire')
    BY QuietBehindFirst
  <2> QED  BY <1>1, <1>2, <2>1 DEF TypingInv, TypingGate
<1> QED  BY <1>4, <1>9, <1>10, <1>11 DEF TypingInv

(* RunConfigureRefused changes nothing at the device. *)
LEMMA RunConfigureRefusedStep ==
    ASSUME TypingInv, RunConfigureRefused
    PROVE  TypingInv'
<1>1. /\ wire # <<>> /\ Head(wire)[1] = "configure" /\ Ran
      /\ UNCHANGED <<panel, linked, held, installedGen, installedMap, meant, blind, withheld>>
  BY DEF RunConfigureRefused, HelperRuns, helper
<1>2. PICK word \in {"cannot", "bad group"} : Told(word, 0)
  BY DEF RunConfigureRefused
<1> DEFINE answer == [word |-> word, gen |-> 0]
<1>3. answer \in HelperWords /\ answer.word # "configured" /\ replies' = Append(replies, answer)
  BY <1>2 DEF HelperWords, Told
<1> HIDE DEF answer
<1>4. session' = session
  BY <1>1 DEF panel
<1>5. TypingGens'
  BY <1>1, <1>3, <1>4, AnswerGens
<1>6. KeymapIsKnown' => KeymapIsKnown
  BY <1>1, <1>4 DEF KeymapIsKnown
<1>7. installedGen' \in Nat \ {0} /\ installedMap' \in Keymaps \cup {NoKeymap}
  BY <1>1 DEF TypingInv, TypingTyped
<1>8. held' \subseteq held /\ held' \ blind' \subseteq held \ blind
  BY <1>1
<1> QED  BY <1>1, <1>3, <1>5, <1>6, <1>7, <1>8, AnswerStep

(* RunUploadFails: with the keymap known, some configure up to this one was flagged, so
   nothing is put down behind it, and the refusal is on its way. *)
LEMMA RunUploadFailsStep ==
    ASSUME TypingInv, RunUploadFails
    PROVE  TypingInv'
<1> DEFINE answer == [word |-> "cannot", gen |-> 0]
           m == Len(replies)
<1>1. /\ wire # <<>> /\ Head(wire)[1] = "configure" /\ Ran /\ Head(wire)[2] # installedMap
      /\ held' = {} /\ blind' = {}
      /\ UNCHANGED <<panel, linked, installedGen, installedMap, meant, withheld>>
  BY DEF RunUploadFails, HelperRuns
<1>2. answer \in HelperWords /\ answer.word # "configured" /\ replies' = Append(replies, answer)
      /\ answer.word = "cannot"
  BY DEF HelperWords, RunUploadFails, Told
<1> HIDE DEF answer
<1>3. session' = session
  BY <1>1 DEF panel
<1>4. TypingGens'
  BY <1>1, <1>2, <1>3, AnswerGens
<1>5. KeymapIsKnown' => KeymapIsKnown
  BY <1>1, <1>3 DEF KeymapIsKnown
<1>6. ASSUME KeymapIsKnown PROVE Refusal' /\ NoDowns(wire')
  <2>1. /\ m \in Nat /\ m + 1 \in DOMAIN session.queue
        /\ DOMAIN session.queue = 1..Len(session.queue)
        /\ DOMAIN replies = 1..m /\ DOMAIN replies' = 1..(m + 1)
        /\ replies'[m + 1] = answer /\ wire[1][2] = session.queue[m + 1].keymap
        /\ session.queue[m + 1].changed => QuietAfter(wire, 1)
    BY <1>1, <1>2, AnswerIs
  <2>2. linked /\ Head(wire) = wire[1]
    BY <1>1, RunIs
  <2>3. session.queue[m + 1].keymap # session.acked
    BY <1>1, <1>6, <2>1, <2>2 DEF KeymapIsKnown
  <2>4. Refusal'
    BY <1>2, <1>3, <2>1, <2>3 DEF Refusal
  <2>5. Shaped(session) /\ Chain(session)
    BY <2>2 DEF TypingInv, TypingTyped, TypingConfs
  <2> DEFINE j == m + 1
  <2>6. PICK k \in DOMAIN session.queue : k <= j /\ session.queue[k].changed
    <3>1. j \in DOMAIN session.queue /\ session.queue[j].keymap # session.acked
      BY <2>1, <2>3
    <3> HIDE DEF j
    <3>2. ~(\A k \in DOMAIN session.queue : k <= j => ~session.queue[k].changed)
      BY <2>5, <3>1, Unchanged
    <3> QED  BY <3>2
  <2>7. CASE k = m + 1
    BY <1>1, <2>1, <2>4, <2>6, <2>7, QuietBehindFirst
  <2>8. CASE k # m + 1
    <3>1. k \in DOMAIN replies
      <4>1. k \in 1..Len(session.queue) /\ k <= m + 1
        BY <2>1, <2>6
      <4>2. m \in Nat /\ DOMAIN replies = 1..m
        BY <2>1
      <4> HIDE DEF m
      <4> QED  BY ONLY <2>8, <4>1, <4>2
    <3>2. NoDowns(wire)
      BY <2>2, <2>6, <3>1 DEF TypingInv, TypingConfs
    <3> QED  BY <1>1, <2>4, <3>2, QuietBehindFirst
  <2> QED  BY <2>4, <2>7, <2>8
<1>7. installedGen' \in Nat \ {0} /\ installedMap' \in Keymaps \cup {NoKeymap}
  BY <1>1 DEF TypingInv, TypingTyped
<1> HIDE DEF m
<1> QED  BY <1>1, <1>2, <1>4, <1>5, <1>6, <1>7, AnswerStep

(* RunConfigure: another keymap is a generation of its own; the one it has, if the panel
   has not heard of it, is behind a reply that says so. *)
LEMMA RunConfigureStep ==
    ASSUME TypingInv, RunConfigure
    PROVE  TypingInv'
<1> DEFINE k == wire[1][2]
           gen == IF k = installedMap THEN installedGen ELSE installedGen + 1
           answer == [word |-> "configured", gen |-> gen]
           m == Len(replies)
<1>1. wire # <<>> /\ Head(wire)[1] = "configure" /\ Ran
  BY DEF RunConfigure, HelperRuns
<1>2. linked /\ Head(wire) = wire[1]
  BY <1>1, RunIs
<1>3. /\ held' = (IF k = installedMap THEN held ELSE {})
      /\ blind' = (IF k = installedMap THEN blind ELSE {})
      /\ installedMap' = k /\ installedGen' = gen
      /\ replies' = Append(replies, answer)
      /\ UNCHANGED <<panel, linked, meant, withheld>>
  BY <1>2 DEF RunConfigure, Told
<1>4. session' = session
  BY <1>3 DEF panel
<1>5. /\ installedGen \in Nat \ {0} /\ gen \in Nat \ {0} /\ installedGen <= gen
      /\ gen = installedGen <=> k = installedMap
      /\ session.ackedGen \in Nat /\ session.ackedGen <= installedGen
  <2>1. installedGen \in Nat \ {0} /\ session.ackedGen \in Nat /\ session.ackedGen <= installedGen
    BY <1>2 DEF TypingInv, TypingTyped, TypingGens
  <2> QED  BY <2>1
<1>6. answer \in HelperWords /\ answer.word = "configured" /\ answer.gen = gen
  BY <1>5 DEF HelperWords
<1> HIDE DEF answer, k, gen
<1>7. /\ m \in Nat /\ m + 1 \in DOMAIN session.queue
      /\ DOMAIN replies = 1..m /\ DOMAIN replies' = 1..(m + 1)
      /\ replies'[m + 1] = answer /\ \A i \in 1..m : replies'[i] = replies[i]
      /\ k = session.queue[m + 1].keymap /\ k \in Keymaps
  BY <1>1, <1>3, <1>6, AnswerIs DEF k
<1> HIDE DEF m
<1>8. k # NoKeymap
  BY <1>7, NoKeymapAssumption
<1>9. TypingGens
  BY DEF TypingInv
<1>10. KeymapIsKnown' => KeymapIsKnown /\ held' = held
  <2> SUFFICES ASSUME KeymapIsKnown' PROVE KeymapIsKnown /\ held' = held
    OBVIOUS
  <2>1. session.acked = k /\ session.ackedGen = gen
    BY <1>3, <1>4 DEF KeymapIsKnown
  <2>2. gen = installedGen /\ k = installedMap
    BY <1>5, <2>1
  <2> QED  BY <1>3, <2>1, <2>2 DEF KeymapIsKnown
<1>11. \A i \in DOMAIN replies' : i \in 1..m \/ i = m + 1
  BY ONLY <1>7
<1>12. \A i \in 1..m : i < m + 1 /\ i \in Int
  BY ONLY <1>7
<1>13. /\ \A i : i = m + 1 => Configured(i)'
       /\ \A i \in 1..m : Configured(i)' <=> Configured(i)
  BY <1>6, <1>7 DEF Configured
<1>14. \A i \in 1..m : Configured(i) =>
         /\ replies[i].gen \in 1..installedGen /\ session.ackedGen <= replies[i].gen
         /\ replies[i].gen = session.ackedGen => session.queue[i].keymap = session.acked
         /\ replies[i].gen = installedGen /\ installedMap # NoKeymap
              => session.queue[i].keymap = installedMap
         /\ replies[i].gen # session.ackedGen => held \subseteq blind
  BY <1>2, <1>7, <1>9 DEF TypingGens
<1>15. \A i, j \in 1..m : i < j /\ Configured(i) /\ Configured(j) =>
         /\ replies[i].gen <= replies[j].gen
         /\ replies[i].gen = replies[j].gen => session.queue[i].keymap = session.queue[j].keymap
  BY <1>2, <1>7, <1>9 DEF TypingGens
<1>16. gen = session.ackedGen => k = session.acked
  <2> SUFFICES ASSUME gen = session.ackedGen PROVE k = session.acked
    OBVIOUS
  <2>1. session.ackedGen = installedGen /\ k = installedMap
    BY <1>5
  <2> QED  BY <1>2, <1>8, <1>9, <2>1 DEF TypingGens
<1>17. gen # session.ackedGen => held' \subseteq blind'
  <2>1. CASE k # installedMap
    BY <1>3, <2>1
  <2>2. CASE k = installedMap
    <3> SUFFICES ASSUME installedGen # session.ackedGen PROVE held \subseteq blind
      BY <1>3, <1>5, <2>2
    <3>1. \/ session.ackedGen = 0
          \/ \E i \in DOMAIN replies : Configured(i) /\ replies[i].gen = installedGen
      BY <1>2, <1>8, <1>9, <2>2 DEF TypingGens
    <3>2. CASE session.ackedGen = 0
      BY <1>2, <3>2 DEF TypingInv, TypingGate
    <3>3. CASE \E i \in DOMAIN replies : Configured(i) /\ replies[i].gen = installedGen
      BY <1>7, <1>14, <3>3
    <3> QED  BY <3>1, <3>2, <3>3
  <2> QED  BY <2>1, <2>2
<1>18. held \subseteq blind => held' \subseteq blind'
  BY <1>3
<1>19. TypingGens'
  <2>1. session'.ackedGen <= installedGen' /\ (session'.ackedGen = installedGen'
            => session'.acked = installedMap')
    BY <1>3, <1>4, <1>5, <1>16
  <2>2. \E i \in DOMAIN replies' : Configured(i)' /\ replies'[i].gen = installedGen'
    <3>1. \E i \in DOMAIN replies' : i = m + 1
      BY <1>7
    <3> QED  BY <1>3, <1>6, <1>7, <1>13, <3>1
  <2>3. ASSUME NEW i \in DOMAIN replies', Configured(i)'
        PROVE  /\ replies'[i].gen \in 1..installedGen' /\ session'.ackedGen <= replies'[i].gen
               /\ replies'[i].gen = session'.ackedGen => session'.queue[i].keymap = session'.acked
               /\ replies'[i].gen = installedGen' => session'.queue[i].keymap = installedMap'
               /\ replies'[i].gen # session'.ackedGen => held' \subseteq blind'
    <3>1. CASE i = m + 1
      BY <1>3, <1>4, <1>5, <1>6, <1>7, <1>16, <1>17, <3>1
    <3>2. CASE i \in 1..m
      <4>1. Configured(i) /\ replies'[i] = replies[i]
        BY <1>7, <1>13, <2>3, <3>2
      <4>2. /\ replies[i].gen \in 1..installedGen /\ session.ackedGen <= replies[i].gen
            /\ replies[i].gen = session.ackedGen => session.queue[i].keymap = session.acked
            /\ replies[i].gen = installedGen /\ installedMap # NoKeymap
                  => session.queue[i].keymap = installedMap
            /\ replies[i].gen # session.ackedGen => held \subseteq blind
        BY <1>14, <3>2, <4>1
      <4>3. replies[i].gen = gen => gen = installedGen /\ k = installedMap
        BY <1>5, <4>2
      <4>4. replies[i].gen \in 1..gen
        BY <1>5, <4>2
      <4> QED  BY <1>3, <1>4, <1>8, <1>18, <4>1, <4>2, <4>3, <4>4
    <3> QED  BY <1>11, <3>1, <3>2
  <2>4. ASSUME NEW i \in DOMAIN replies', NEW j \in DOMAIN replies', i < j,
               Configured(i)', Configured(j)'
        PROVE  /\ replies'[i].gen <= replies'[j].gen
               /\ replies'[i].gen = replies'[j].gen
                    => session'.queue[i].keymap = session'.queue[j].keymap
    <3>1. i \in 1..m
      BY <1>7, <2>4
    <3>2. CASE j \in 1..m
      BY <1>4, <1>7, <1>13, <1>15, <2>4, <3>1, <3>2
    <3>3. CASE j = m + 1
      <4>1. replies'[j].gen = installedGen' /\ session'.queue[j].keymap = installedMap'
        BY <1>3, <1>4, <1>6, <1>7, <3>3
      <4>2. replies'[i].gen \in 1..installedGen'
            /\ (replies'[i].gen = installedGen' => session'.queue[i].keymap = installedMap')
        BY <2>3, <2>4
      <4>3. installedGen' \in Nat
        BY <1>3, <1>5
      <4> QED  BY <4>1, <4>2, <4>3
    <3> QED  BY <1>11, <3>2, <3>3
  <2> QED  BY <2>1, <2>2, <2>3, <2>4 DEF TypingGens
<1>20. installedGen' \in Nat \ {0} /\ installedMap' \in Keymaps \cup {NoKeymap}
  BY <1>3, <1>5, <1>7
<1>21. held' \subseteq held /\ held' \ blind' \subseteq held \ blind
  BY <1>3
<1> QED  BY <1>1, <1>3, <1>6, <1>10, <1>19, <1>20, <1>21, AnswerStep

-----------------------------------------------------------------------------
(* Every step keeps the invariant. *)
LEMMA TypingStep ==
    ASSUME TypingInv, [TypingNext]_typingVars
    PROVE  TypingInv'
<1>1. CASE UNCHANGED typingVars
  <2>1. /\ UNCHANGED <<session, sends, stamps, inputReady, ledger, pointer, linked, wire, replies>>
        /\ UNCHANGED <<held, installedGen, installedMap, meant, blind, blindLines, withheld>>
    BY <1>1 DEF typingVars, panel, helper
  <2>2. TypingTyped' /\ TypingGate'
    BY <2>1 DEF TypingInv, TypingTyped, TypingGate
  <2>3. TypingGens'
    BY <2>1 DEF TypingInv, TypingGens, Configured
  <2>4. TypingConfs'
    BY <2>1 DEF TypingInv, TypingConfs, Chain, MapAt
  <2>5. KeymapIsKnown' = KeymapIsKnown /\ Refusal' = Refusal
    BY <2>1 DEF KeymapIsKnown, Refusal
  <2>6. TypingUps' /\ TypingLocks' /\ TypingMeant'
    BY <2>1, <2>5 DEF TypingInv, TypingUps, TypingLocks, TypingMeant
  <2> QED  BY <2>2, <2>3, <2>4, <2>6 DEF TypingInv
<1>2. ASSUME NEW cap \in Caps, PressCap(cap) PROVE TypingInv'
  BY <1>2, PressCapStep
<1>3. ASSUME NEW m \in Clicked, ClickModifier(m) PROVE TypingInv'
  BY <1>3, ClickModifierStep
<1>4. ASSUME NEW ctrl \in BOOLEAN, NEW shift \in BOOLEAN, PasteNow(ctrl, shift) PROVE TypingInv'
  BY <1>4, PasteNowStep
<1>5. ASSUME ReleaseCap \/ DoubleClickShift \/ ClickCaps \/ SearchKey \/ ReleaseModifiers
      PROVE  TypingInv'
  BY <1>5, ReleaseCapStep, DoubleClickShiftStep, ClickCapsStep, SearchKeyStep, ReleaseModifiersStep
<1>6. ASSUME NEW k \in Keymaps, SendConfigure(k) PROVE TypingInv'
  BY <1>6, SendConfigureStep
<1>7. ASSUME HearConfigured \/ HearCannotConfigure \/ HearBadGroup \/ HearCaps PROVE TypingInv'
  BY <1>7, HearConfiguredStep, HearCannotConfigureStep, HearBadGroupStep, HearCapsStep
<1>8. ASSUME RunDown \/ RunUp \/ RunConfigure \/ RunConfigureRefused \/ RunUploadFails
      PROVE  TypingInv'
  BY <1>8, RunDownStep, RunUpStep, RunConfigureStep, RunConfigureRefusedStep, RunUploadFailsStep
<1>9. ASSUME NEW flag \in BOOLEAN, KeymapMoves(flag) \/ Drop(flag) PROVE TypingInv'
  BY <1>9, KeymapMovesStep, DropStep
<1>10. ASSUME Reconnect PROVE TypingInv'
  BY <1>10, ReconnectStep
<1>11. CASE TypingNext
  BY <1>2, <1>3, <1>4, <1>5, <1>6, <1>7, <1>8, <1>9, <1>10, <1>11 DEF TypingNext
<1> QED  BY <1>1, <1>11

(* TypingInv holds of every behaviour: the types, the gate, the order of generations, the
   configures' places, what is up, what is down and what each key is typed under. *)
THEOREM TypingInvariant == TypingSpec => []TypingInv
<1>1. TypingInit => TypingInv
  BY TypingInitInv
<1>2. TypingInv /\ [TypingNext]_typingVars => TypingInv'
  BY TypingStep
<1> QED  BY <1>1, <1>2, PTL DEF TypingSpec

(* With no line left, a key not called down is not in hand, and a lock drawn is. *)
LEMMA AtTheEnd ==
    ASSUME NEW hand, NEW lines, NEW x
    PROVE  /\ Free(<<>>, hand, lines, x, End(<<>>)) => x \notin hand
           /\ Sure(<<>>, hand, x, End(<<>>)) => x \in hand
  BY DEF Free, Sure, Lifts, Lowers

(* At rest no key is down that the ledger does not account for, whatever drained the helper
   and whenever the panel heard, but for one pressed behind a drain it could not foresee. *)
THEOREM TypingNothingIsStuck == TypingSpec => []NothingIsStuck
<1>1. TypingInv => NothingIsStuck
  <2> SUFFICES ASSUME TypingInv, LineAtRest PROVE held \ blind \subseteq LedgerHolds
    BY DEF NothingIsStuck
  <2>1. LedgerHolds = HeldBy(ledger)
    BY DEF LedgerHolds, HeldBy, Locked, Chord, KeysOf
  <2>2. linked /\ wire = <<>> /\ held \subseteq KeyNames
    BY DEF LineAtRest, TypingInv, TypingTyped
  <2>3. ASSUME NEW x \in KeyNames \ HeldBy(ledger) PROVE x \notin held \ blind
    <3>1. Free(<<>>, held \ blind, blindLines, x, End(<<>>))
      BY <2>2, <2>3 DEF TypingInv, TypingUps
    <3> QED  BY <3>1, AtTheEnd
  <2> QED  BY <2>1, <2>2, <2>3
<1> QED  BY <1>1, TypingInvariant, PTL

(* At rest a lock that is drawn is held, unless the keymap moved unheard or a release left
   it up for a configure then refused. *)
THEOREM TypingLocksAreHeld == TypingSpec => []LocksAreHeld
<1>1. TypingInv => LocksAreHeld
  <2> SUFFICES ASSUME TypingInv, LineAtRest, KeymapIsKnown, ~withheld,
                      NEW x \in InState(ledger, "locked") \ ledger.pending.restore
               PROVE  x \in held
    BY DEF LocksAreHeld
  <2>1. linked /\ wire = <<>> /\ replies = <<>>
    BY DEF LineAtRest
  <2>2. x = "shift" /\ "shift" \in Locked(ledger) \ ledger.pending.restore
    BY DEF TypingInv, TypingTyped, Regular, Locked
  <2>3. ~Refusal
    BY <2>1 DEF Refusal
  <2>4. Sure(<<>>, held, "shift", End(<<>>))
    BY <2>1, <2>2, <2>3 DEF TypingInv, TypingLocks
  <2> QED  BY <2>2, <2>4, AtTheEnd
<1> QED  BY <1>1, TypingInvariant, PTL

(* A key reaches the device under the modifiers its cap was drawn with and no other,
   whatever configures lie between. *)
THEOREM TypingKeysAreTypedAsDrawn == TypingSpec => KeysAreTypedAsDrawn
<1>1. ASSUME TypingInv, HelperRuns("down"), Head(wire)[2] \notin ModifierKeys,
             KeymapIsKnown, blind = {}, blindLines = 0, Head(meant).sure
      PROVE  held \cap ModifierKeys = Head(meant).modifiers
  <2>1. linked /\ wire # <<>> /\ wire \in Seq(Commands) /\ meant \in Seq(Meanings)
    BY <1>1 DEF HelperRuns, TypingInv, TypingGate, TypingTyped
  <2>2. Head(wire) = wire[1] /\ DOMAIN wire = 1..Len(wire) /\ Len(wire) \in Nat \ {0}
    BY <2>1, TailIs
  <2>3. 1 \in KeysAt(wire) /\ KeysAt(wire) \in SUBSET (Nat \ {0})
    BY <1>1, <2>1, <2>2, PlacesAre DEF KeysAt, IsKeyDown, HelperRuns
  <2> DEFINE m == Len(meant)
  <2>4. \E at \in [1..m -> KeysAt(wire)] :
         /\ Enumerates(at, m, KeysAt(wire))
         /\ \A n \in 1..m : at[n] > blindLines =>
              Drawn(wire, held \ blind, held, blindLines, KeymapIsKnown, meant[n], at[n])
    BY <2>1, <1>1 DEF TypingInv, TypingMeant
  <2>5. m \in Nat
    BY <2>1
  <2> HIDE DEF m
  <2>6. PICK at \in [1..m -> KeysAt(wire)] :
         /\ Enumerates(at, m, KeysAt(wire))
         /\ \A n \in 1..m : at[n] > blindLines =>
              Drawn(wire, held \ blind, held, blindLines, KeymapIsKnown, meant[n], at[n])
    BY <2>4
  <2>7. m \in Nat \ {0} /\ at[1] = 1
    <3> DEFINE on == [i \in 1..(m - 1) |-> at[i + 1] - 1]
               Q == {p - 1 : p \in KeysAt(wire) \ {1}}
    <3>1. on = [i \in 1..(m - 1) |-> at[i + 1] - 1] /\ Q = {p - 1 : p \in KeysAt(wire) \ {1}}
      OBVIOUS
    <3>2. Enumerates(at, m, KeysAt(wire))
      BY <2>6
    <3> HIDE DEF on, Q
    <3> QED  BY ONLY <2>3, <2>5, <3>1, <3>2, OneTaken
  <2>8. Head(meant) = meant[1] /\ meant[1] \in Meanings
    <3>1. meant # <<>>
      BY <2>7 DEF m
    <3> QED  BY <2>1, <3>1, TailIs
  <2>9. Drawn(wire, held \ blind, held, blindLines, KeymapIsKnown, meant[1], 1)
    <3>1. 1 \in 1..m /\ at[1] > blindLines
      BY <1>1, <2>7
    <3> QED  BY <2>6, <2>7, <3>1
  <2>10. \A k \in DOMAIN wire : ~(k < 1)
    BY <2>2
  <2>11. \A x : /\ Free(wire, held \ blind, blindLines, x, 1) => x \notin held \ blind
                /\ Sure(wire, held, x, 1) => x \in held
    BY <2>10 DEF Free, Sure, Lifts, Lowers
  <2>12. meant[1].modifiers \subseteq ModifierKeys /\ meant[1].sure
    BY <1>1, <2>8 DEF Meanings
  <2> QED  BY <1>1, <2>8, <2>9, <2>11, <2>12 DEF Drawn
<1>2. TypingInv /\ [TypingNext]_typingVars =>
        [HelperRuns("down") /\ Head(wire)[2] \notin ModifierKeys /\ wire' = Tail(wire)
           /\ KeymapIsKnown /\ blind = {} /\ blindLines = 0 /\ Head(meant).sure
         => held \cap ModifierKeys = Head(meant).modifiers]_typingVars
  BY <1>1
<1> QED  BY <1>2, TypingInvariant, PTL DEF TypingSpec, KeysAreTypedAsDrawn

===============================================================================
