--------------------------- MODULE PanelClipboard ---------------------------
(***************************************************************************)
(* The panel and the clipboard: the emoji picks of EmojiDelivery beside    *)
(* the paste chip (its listing, size and peek reads), a click on the chip, *)
(* and the panel's own read for a colour field or the emoji search         *)
(* (Panel.qml), while the user copies, moves between fields and closes the *)
(* panel.                                                                  *)
(*                                                                         *)
(* Abstracted: the announcements of `wl-paste --watch` that are not read   *)
(* yet count as one; a listing names the kind of what was served when it   *)
(* began or ended; all texts have a size and fit.                          *)
(***************************************************************************)
EXTENDS EmojiDelivery

VARIABLES
    opened,    \* the panel is shown
    told,      \* the watch announced a change the panel has not read
    chip,      \* root.chip
    types,     \* clipboardTypes; `current`: no newer listing is asked for
    requeue,   \* clipboardRefreshQueued
    count,     \* clipboardCount
    peek,      \* clipboardPeek
    target,    \* where a paste would go: the field shown, or the client
    read,      \* clipboardReadState
    reader,    \* localClipboardRead, and localReadQueuedTarget
    asked      \* the target of the last click that may still insert

chipside == <<opened, told, chip, types, requeue, count, peek>>
readside == <<target, read, reader, asked>>
panelVars == <<chipside, readside>>
deliveryVars == <<clip, delivery, ghosts>>
vars == <<deliveryVars, panelVars, budget>>

Targets == {"external-client", "emoji-search", "colour:popover:background"}
Run == [on |-> "off", was |-> NoText, current |-> FALSE]

KindOf(c) == IF c \in Secrets THEN "hidden" ELSE "text"

PanelTypeOK ==
    /\ DeliveryTypeOK
    /\ chip \in [kind : {"empty", "text", "hidden", "other"}, counted : BOOLEAN,
                 peeking : BOOLEAN, peek : Texts \cup Emojis \cup {NoText}]
    /\ {types.on, count.on, peek.on, reader.on} \subseteq {"off", "on", "killed"}
    /\ target \in Targets /\ asked \in Targets \cup {"none"}
    /\ {opened, told, requeue, read.pending} \subseteq BOOLEAN

Init ==
    /\ DeliveryInit
    /\ opened = TRUE /\ told = FALSE /\ requeue = FALSE
    /\ chip = chipInitial
    /\ types = [Run EXCEPT !.on = "on", !.was = clip, !.current = TRUE]
    /\ count = Run /\ peek = Run
    /\ target \in Targets /\ read = NoRead /\ asked = "none"
    /\ reader = [on |-> "off", was |-> NoText, queued |-> NoText]

-----------------------------------------------------------------------------
(* The chip's listing and size. *)

Restarts(run) == [Starts(run) EXCEPT !.current = TRUE]

(* refreshClipboardPreview; `again` is the refresh queued flag it starts from. *)
Refresh(listing, again) ==
    IF listing.on = "off"
    THEN types' = Restarts(listing) /\ requeue' = again
    ELSE types' = Kills(listing) /\ requeue' = TRUE

Notice ==
    /\ told /\ opened
    /\ told' = FALSE
    /\ Refresh(types, requeue)
    /\ UNCHANGED <<deliveryVars, readside, opened, chip, count, peek, budget>>

(* A new listing drops the peek and asks for the size of a text. *)
Listed(kind) ==
    LET counts == kind = "text"
        busy == count.on # "off"
        asks == counts /\ ~busy
    IN  /\ chip' = chipTypes(kind)
        /\ peek' = [peek EXCEPT !.current = FALSE]
        /\ count' = IF asks THEN Restarts(count)
                    ELSE [IF counts THEN Kills(count) ELSE count EXCEPT !.current = FALSE]
        /\ requeue' = (requeue \/ (counts /\ busy))
        /\ types' = Ends(types)

TypesExit ==
    /\ \/ /\ types.on = "killed" /\ requeue
          /\ types' = Restarts(types) /\ requeue' = FALSE
          /\ UNCHANGED <<chip, count, peek>>
       \/ /\ types.on = "killed" /\ ~requeue
          /\ types' = Ends(types)
          /\ UNCHANGED <<chip, count, peek, requeue>>
       \/ /\ types.on = "on" /\ types.current
          /\ \E c \in {types.was, clip} : Listed(KindOf(c))
       \/ /\ types.on = "on" /\ ~types.current
          /\ types' = Ends(types)
          /\ UNCHANGED <<chip, count, peek, requeue>>
    /\ UNCHANGED <<deliveryVars, readside, opened, told, budget>>

Said(run) == IF Secret(run) THEN "secret" ELSE "size"

CountExit ==
    /\ \/ /\ count.on = "on"
          /\ chip' = chipCounted(chip, count.current, Said(count))
          /\ UNCHANGED <<types, requeue>>
       \/ /\ count.on = "killed"
          /\ IF requeue THEN Refresh(types, FALSE) ELSE UNCHANGED <<types, requeue>>
          /\ UNCHANGED chip
    /\ count' = Ends(count)
    /\ UNCHANGED <<deliveryVars, readside, opened, told, peek, budget>>

-----------------------------------------------------------------------------
(* The peek.  A run still dying when the next peek starts is retagged. *)

PeekStarts ==
    /\ opened /\ Peekable(chip) /\ Hands("peeks")
    /\ chip' = chipPeekStart(chip)
    /\ peek' = IF peek.on = "off" THEN Restarts(peek)
               ELSE [Kills(peek) EXCEPT !.current = TRUE]
    /\ UNCHANGED <<deliveryVars, readside, opened, told, types, requeue, count>>

EndPeek ==
    /\ chip' = chipPeekEnd(chip)
    /\ peek' = [Kills(peek) EXCEPT !.current = FALSE]

PeekEnds ==
    /\ chip.peeking
    /\ EndPeek
    /\ UNCHANGED <<deliveryVars, readside, opened, told, types, requeue, count, budget>>

PeekExit ==
    /\ \/ /\ peek.on = "on"
          /\ \E text \in Answers(peek) :
                chip' = chipPeekRead(chip, peek.current, Said(peek), text)
       \/ /\ peek.on = "killed"
          /\ chip' = chipPeekRead(chip, peek.current, "none", NoText)
    /\ peek' = Ends(peek)
    /\ UNCHANGED <<deliveryVars, readside, opened, told, types, requeue, count, budget>>

PeekStalls ==
    /\ peek.on = "on" /\ Hands("stalls")
    /\ peek' = Kills(peek)
    /\ UNCHANGED <<deliveryVars, readside, opened, told, chip, types, requeue, count>>

-----------------------------------------------------------------------------
(* A click on the chip: a field takes a text itself, a client gets the chord. *)

StartRead(at) ==
    IF reader.on = "killed"
    THEN reader' = [reader EXCEPT !.queued = at] /\ UNCHANGED read
    ELSE IF read.pending
         THEN UNCHANGED <<reader, read>>
         ELSE read' = readStart(at) /\ reader' = [Starts(reader) EXCEPT !.queued = NoText]

ClickLocal ==
    /\ opened /\ txn.phase = "idle" /\ target # "external-client" /\ Hands("clicks")
    /\ IF localPasteAllowed(chip.kind)
       THEN StartRead(target) /\ asked' = (IF read.pending THEN asked ELSE target)
       ELSE UNCHANGED <<read, reader, asked>>
    /\ Refresh(types, requeue)
    /\ UNCHANGED <<deliveryVars, opened, told, chip, count, peek, target>>

ClickClient ==
    /\ opened /\ txn.phase = "idle" /\ target = "external-client" /\ Hands("clicks")
    /\ chord.of = "none"
    /\ chord' = [NoChord EXCEPT !.of = "chip", !.held = clip]
    /\ UNCHANGED <<clip, copying, txn, timer, verify, snap, check, ghosts, panelVars>>

ChipVerdict ==
    /\ chord.of = "chip" /\ chord' = NoChord
    /\ UNCHANGED <<clip, copying, txn, timer, verify, snap, check, ghosts, panelVars, budget>>

(* The exit runs the click that waited for it, whatever the answer was for. *)
ReaderExit ==
    /\ reader.on # "off"
    /\ asked' = IF readExited(read, reader.on = "on", target) = "insert"
                THEN "none" ELSE asked
    /\ IF reader.queued = NoText
       THEN /\ read' = IF reader.on = "on" THEN NoRead ELSE read
            /\ reader' = Ends(reader)
       ELSE /\ read' = readStart(reader.queued)
            /\ reader' = [Starts(reader) EXCEPT !.queued = NoText]
    /\ UNCHANGED <<deliveryVars, chipside, target, budget>>

(* A read that nobody answers takes the chip with it: its owner is gone. *)
ReaderStalls ==
    /\ reader.on = "on" /\ Hands("stalls")
    /\ read' = NoRead
    /\ reader' = Kills(reader)
    /\ IF readTimedOut(read, TRUE, target) = "gone"
       THEN /\ chip' = chipTypes("empty")
            /\ types' = [types EXCEPT !.current = FALSE]
            /\ peek' = [peek EXCEPT !.current = FALSE]
            /\ count' = [count EXCEPT !.current = FALSE]
       ELSE UNCHANGED <<chip, types, peek, count>>
    /\ UNCHANGED <<deliveryVars, opened, told, requeue, target, asked>>

-----------------------------------------------------------------------------
(* The user moves between the fields, and closes and opens the panel. *)

Moves(to) ==
    /\ opened /\ to # target /\ Hands("moves")
    /\ target' = to
    /\ UNCHANGED <<deliveryVars, chipside, read, reader, asked>>

Closes ==
    /\ opened /\ Hands("closes")
    /\ opened' = FALSE /\ told' = FALSE /\ target' = "external-client"
    /\ EndPeek
    /\ UNCHANGED <<deliveryVars, types, requeue, count, read, reader, asked>>

Opening ==
    /\ ~opened /\ opened' = TRUE
    /\ Refresh(types, requeue)
    /\ UNCHANGED <<deliveryVars, readside, told, chip, count, peek, budget>>

-----------------------------------------------------------------------------
(* A pick is clicked on the open panel; its snapshot is read only of what an
   undisturbed listing called text. *)
snapshotPlan == chip.kind = "text" /\ types.on = "off" /\ ~requeue

Picks(emoji) == opened /\ Pick(emoji, snapshotPlan)

Background ==
    \/ Lands
    \/ SnapshotRead \/ SnapshotKilled
    \/ VerifyTick \/ VerifyRead \/ VerifyKilled
    \/ ChordPresses \/ \E success \in BOOLEAN : ChordVerdict(success)
    \/ CheckRead \/ CheckKilled

Stalls == SnapshotStalls \/ VerifyStalls \/ CheckStalls

(* The watch runs while the panel is open, where the compositor has one. *)
Announced == told \/ (opened /\ budget.watch > 0 /\ clip' # clip)

Delivery ==
    /\ \/ Background \/ Stalls
       \/ \E emoji \in Emojis : Picks(emoji)
       \/ \E c \in Texts \cup Secrets : UserCopies(c)
    /\ told' = Announced
    /\ UNCHANGED <<opened, chip, types, requeue, count, peek, readside>>

ChipReads == Notice \/ TypesExit \/ CountExit \/ PeekExit \/ ReaderExit

User ==
    \/ PeekStarts \/ PeekEnds \/ PeekStalls \/ ReaderStalls
    \/ ClickLocal \/ ClickClient
    \/ \E to \in Targets : Moves(to)
    \/ Closes \/ Opening

Next == Delivery \/ ChipReads \/ ChipVerdict \/ User

Spec == Init /\ [][Next]_vars

(* Reads end or are killed, announcements are read, a chord gets its verdict. *)
System ==
    \/ Background /\ told' = Announced
                  /\ UNCHANGED <<opened, chip, types, requeue, count, peek, readside>>
    \/ ChipReads \/ ChipVerdict
FairSpec == Spec /\ WF_vars(System)

-----------------------------------------------------------------------------
(* Properties. *)

(* A chord that a pick ends in pastes that pick, and the chip's pastes what the
   clipboard held when it was clicked or what a failed pick was put back to:
   whatever else it pastes, the user copied meanwhile.  No pick takes the
   clipboard from under a paste that is still to come; no promise is made once a
   pick landed on what the user had copied after its burst began. *)
ChordsPasteTheirOwn ==
    [][chord.of # "none" /\ ~chord.down /\ chord'.down =>
          \/ chord.of = "pick" /\ (clip = txn.pending \/ moved)
          \/ chord.of = "chip" /\ (clip = chord.held \/ clip \notin Emojis \/ moved
                                \/ clip \in owed \/ excused = "yes")]_vars

AtRest ==
    /\ txn.phase = "idle" /\ copying = NoCopy /\ txn.check = NoCheck
    /\ chord.of = "none"

(* Once no pick runs and nothing is under way, the clipboard serves the last pick
   delivered, or else what it served before the picks, or what the user copied
   since; never a pick that failed. *)
ClipboardIsOwed == AtRest /\ excused = "no" /\ owed # {} => clip \in owed

(* The same without the exception for a mistaken read. *)
FailedPickIsTakenBack ==
    AtRest /\ excused \in {"no", "mistaken"} /\ owed # {} => clip \in owed

(* The text a peek shows is what the clipboard serves, or a listing that drops it
   is on its way; none is kept once the panel is closed. *)
PeekIsCurrent ==
    chip.peek # NoText /\ budget.watch > 0 =>
        opened /\ (chip.peek = clip \/ told \/ types.on # "off" \/ requeue)

(* Every pick ends, with none left waiting, and an open panel's chip comes to show
   what the clipboard holds. *)
PicksEnd == <>[](txn.phase = "idle" /\ txn.queue = <<>>)
ChipCatchesUp ==
    <>[](opened /\ budget.watch > 0 => chip.kind = KindOf(clip) \/ (chip.kind = "empty" /\ asked # "none"))
=============================================================================
