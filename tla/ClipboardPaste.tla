--------------------------- MODULE ClipboardPaste ---------------------------
(***************************************************************************)
(* The pure machines of ClipboardPaste.js: the delivery transaction of an  *)
(* emoji pick, the panel's own read of the clipboard, and the paste chip.  *)
(*                                                                         *)
(* Abstracted: a pick's client class rides with it and is left out; the    *)
(* reason a snapshot or a restore is not made is wording, so a snapshot is *)
(* its text or NoText, and `observed` is whether anything foreign was      *)
(* seen; a size is known or not.  A chip or local read is asked for by a   *)
(* sequence number and answered only if no other was asked for since: the  *)
(* steps below take that comparison as their argument `current`.           *)
(***************************************************************************)
EXTENDS Naturals, Sequences

CONSTANTS
    Attempts,   \* verify reads a pick gets (5 in the code)
    QueueCap    \* picks that may wait behind the running one (3)

ASSUME TxnAssumption == Attempts \in Nat \ {0} /\ QueueCap \in Nat

NoText == ""
NoCheck == [id |-> 0, emoji |-> NoText, before |-> NoText]

txnInitial ==
    [seq |-> 0, phase |-> "idle", pending |-> NoText, attempts |-> 0, queue |-> <<>>,
     before |-> NoText, foreign |-> FALSE, check |-> NoCheck]

(* What an ending owes the clipboard: nothing, a read first, or a text. *)
Nothing == [does |-> "nothing", id |-> 0, text |-> NoText]
CheckFirst(id) == [Nothing EXCEPT !.does = "check", !.id = id]
PutBack(text) ==
    IF text = NoText THEN Nothing ELSE [Nothing EXCEPT !.does = "put", !.text = text]

Stay(txn, action) == [txn |-> txn, action |-> action, restore |-> Nothing]

(* The snapshot outlives the pick only for the one queued behind it. *)
txnIdle(txn, check) ==
    [txn EXCEPT !.phase = "idle", !.pending = NoText, !.attempts = 0, !.foreign = FALSE,
                !.check = check,
                !.before = IF txn.queue = <<>> THEN NoText ELSE @]

(* A failure that needs one more read before anything is written. *)
checkFor(txn, action) ==
    LET asks == txn.queue = <<>> /\ txn.before # NoText /\ ~txn.foreign
        check == [id |-> txn.seq, emoji |-> txn.pending, before |-> txn.before]
    IN  [txn     |-> txnIdle(txn, IF asks THEN check ELSE NoCheck),
         action  |-> action,
         restore |-> IF asks THEN CheckFirst(txn.seq) ELSE Nothing]

(* `reading`: the pick's snapshot is read before anything is published. *)
txnPick(txn, emoji, reading) ==
    IF txn.phase # "idle" \/ txn.pending # NoText
    THEN IF Len(txn.queue) >= QueueCap
         THEN Stay(txn, "refused-full")
         ELSE Stay([txn EXCEPT !.queue = Append(@, emoji)], "queued")
    ELSE Stay([txn EXCEPT !.seq = @ + 1, !.pending = emoji, !.attempts = 0,
                          !.phase = IF reading THEN "snapshotting" ELSE "publishing",
                          !.before = NoText, !.foreign = FALSE, !.check = NoCheck],
              IF reading THEN "snapshot" ELSE "publish")

txnSnapshotted(txn, seq, before) ==
    IF txn.phase # "snapshotting" \/ seq # txn.seq
    THEN Stay(txn, "stale")
    ELSE Stay([txn EXCEPT !.phase = "publishing", !.before = before], "publish")

txnVerifyTimedOut(txn, seq) ==
    IF txn.phase # "publishing" \/ seq # txn.seq
    THEN Stay(txn, "ignore")
    ELSE checkFor(txn, "drop")

(* The last read of a mismatch was not the pick: nothing is written then. *)
txnServed(txn, seq, served) ==
    LET seen == [txn EXCEPT !.foreign = @ \/ txn.before = NoText \/ served # txn.before]
    IN  IF txn.phase # "publishing" \/ seq # txn.seq THEN Stay(txn, "stale")
        ELSE IF served = txn.pending
        THEN Stay([txn EXCEPT !.phase = "pasting"], "chord")
        ELSE IF txn.attempts + 1 >= Attempts
        THEN Stay(txnIdle(seen, txn.check), "drop")
        ELSE Stay([seen EXCEPT !.seq = @ + 1, !.attempts = @ + 1], "retry")

txnChordDone(txn, seq, success) ==
    IF txn.phase # "pasting" \/ seq # txn.seq
    THEN Stay(txn, "stale")
    ELSE IF success
         THEN Stay([txnIdle(txn, txn.check) EXCEPT
                       !.before = IF txn.queue = <<>> THEN @ ELSE txn.pending], "completed")
         ELSE checkFor(txn, "cancelled")

(* Mutant: the snapshot goes back whatever the read served. *)
checkedBlindly(txn, id, served) ==
    IF txn.check = NoCheck \/ txn.check.id # id
    THEN Stay(txn, "stale")
    ELSE [txn |-> [txn EXCEPT !.check = NoCheck], action |-> "checked",
          restore |-> IF served # NoText THEN PutBack(txn.check.before) ELSE Nothing]

(* `served` is NoText for a read that failed, timed out or was of a secret. *)
txnRestoreChecked(txn, id, served) ==
    IF txn.check = NoCheck \/ txn.check.id # id
    THEN Stay(txn, "stale")
    ELSE [txn     |-> [txn EXCEPT !.check = NoCheck],
          action  |-> "checked",
          restore |-> IF served = txn.check.emoji THEN PutBack(txn.check.before) ELSE Nothing]

txnNext(txn) ==
    IF txn.phase # "idle" \/ txn.queue = <<>>
    THEN Stay(txn, "none")
    ELSE Stay([txn EXCEPT !.seq = @ + 1, !.phase = "publishing", !.pending = Head(txn.queue),
                          !.attempts = 0, !.foreign = FALSE, !.queue = Tail(@)],
              "publish")

-----------------------------------------------------------------------------
(* The panel's own read, for a colour field or the emoji search. *)

NoRead == [pending |-> FALSE, target |-> NoText]

pasteTargetFor(armed, editing, field) ==
    CASE armed -> "emoji-search"
      [] ~armed /\ editing -> field
      [] OTHER -> "external-client"

localPasteAllowed(kind) == kind = "text"

readStart(target) == [pending |-> TRUE, target |-> target]

(* What an answer or the watchdog of the read asked for last does. *)
readExited(read, current, target) ==
    IF ~read.pending \/ ~current THEN "ignore"
    ELSE IF target # read.target THEN "target-changed" ELSE "insert"

readTimedOut(read, current, target) ==
    IF ~read.pending \/ ~current THEN "ignore"
    ELSE IF target # read.target THEN "target-changed" ELSE "gone"

-----------------------------------------------------------------------------
(* The chip: the kind and size of what the clipboard holds, and, while the
   pointer rests on it, the text. *)

chipInitial == [kind |-> "empty", counted |-> FALSE, peeking |-> FALSE, peek |-> NoText]

chipTypes(kind) == [chipInitial EXCEPT !.kind = kind]

Hidden(chip) == [chip EXCEPT !.kind = "hidden", !.counted = FALSE,
                             !.peek = NoText, !.peeking = FALSE]

(* `said` is "secret" (the reader's exit 3), "size" or "none". *)
chipCounted(chip, current, said) ==
    IF ~current \/ chip.kind # "text" THEN chip
    ELSE IF said = "secret" THEN Hidden(chip)
    ELSE [chip EXCEPT !.counted = said = "size"]

chipShown(chip) ==
    CASE chip.kind \in {"hidden", "other"} -> chip.kind
      [] chip.kind = "text" /\ chip.counted -> "text"
      [] OTHER -> "empty"

Peekable(chip) == ~chip.peeking /\ chipShown(chip) = "text"

chipPeekStart(chip) ==
    IF Peekable(chip) THEN [chip EXCEPT !.peeking = TRUE, !.peek = NoText] ELSE chip

chipPeekRead(chip, current, said, text) ==
    IF ~chip.peeking \/ ~current THEN chip
    ELSE IF said = "secret" THEN Hidden(chip) ELSE [chip EXCEPT !.peek = text]

chipPeekEnd(chip) == [chip EXCEPT !.peek = NoText, !.peeking = FALSE]
=============================================================================
