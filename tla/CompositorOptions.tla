-------------------------- MODULE CompositorOptions --------------------------
(***************************************************************************)
(* The two settings of Hyprland's that an open panel borrows: the hiding   *)
(* of the cursor on a key press (CursorPolicy.qml hosting CursorPolicy.js) *)
(* and the outer gaps, moved by one for a frame so that the tiled windows  *)
(* are laid out anew (Panel.qml hosting GapsNudge.js); beside them a user  *)
(* who reloads the configuration or sets an option by hand.                *)
(*                                                                         *)
(* Abstracted: a run that never starts is one that fails; a write that has *)
(* not exited is not judged, however long it takes, and does exit; a run   *)
(* under way when the panel is destroyed has acted already or never does.  *)
(***************************************************************************)
EXTENDS CursorPolicy, Sequences, SequencesExt

CONSTANT Budgets   \* how often the user acts and a run fails, one per scenario

VARIABLES
    m,         \* policyState
    host,      \* the read and the write run, and queuedActions
    hides,     \* what the compositor holds for hide_on_key_press
    theirs,    \* what the user last set it to
    unheard,   \* a reload whose event the panel has not taken
    lastword,  \* the best effort of a destroyed panel, not landed yet
    chain,     \* relayoutNudge, with relayoutBusy and relayoutPending
    gaps,      \* 0, the user's outer gaps, or 1, nudged
    alive,     \* the panel is not destroyed
    budget,
    past       \* what a property excuses, below

policyVars == <<m, host, hides, theirs, unheard, lastword>>
gapVars == <<chain, gaps>>
vars == <<policyVars, gapVars, alive, budget, past>>

NoRun == [on |-> FALSE]
Reading(act) ==
    [on |-> TRUE, kind |-> act.kind, seq |-> act.seq, value |-> "none", answered |-> FALSE]
Writing(act) == [on |-> TRUE, value |-> act.value, seq |-> act.seq, landed |-> FALSE]

Idle == [phase |-> "idle", retried |-> FALSE, busy |-> FALSE, pending |-> FALSE, original |-> 0]

(* `crossed`: generations whose read was taken before a change of the       *)
(* user's and whose write lands after it; `disowned`: the user, too, turned *)
(* the hiding off over a live override; `raced`: the user's value is lost   *)
(* to one of the two; `undoFailed`, `stood`: a failed run left the override *)
(* in place, or this opening without one; `evaled`: the user turned the     *)
(* hiding on under an open panel or a live override; `stale`: windows not laid out since the   *)
(* strip came or went; `unmoved`: a nudge failed; `gaveUp`: the chain       *)
(* reported that it could not restore.                                      *)
NoPast ==
    [crossed |-> {}, disowned |-> FALSE, raced |-> FALSE, undoFailed |-> FALSE,
     stood |-> FALSE, evaled |-> FALSE, stale |-> FALSE, unmoved |-> FALSE,
     gaveUp |-> FALSE]

Init ==
    /\ m = policyInitial
    /\ host = [read |-> NoRun, write |-> NoRun, queue |-> <<>>]
    /\ theirs \in BOOLEAN /\ hides = theirs
    /\ unheard = FALSE /\ lastword = FALSE /\ alive = TRUE
    /\ chain = Idle /\ gaps = 0
    /\ budget \in Budgets /\ past = NoPast

Spend(kind) == /\ budget[kind] > 0
               /\ budget' = [budget EXCEPT ![kind] = @ - 1]

-----------------------------------------------------------------------------
(* The host of the cursor policy: one read and one write at a time.         *)

Retired(p, act) ==
    IF act.op = "read" THEN act.seq \notin {p.probeSeq, p.restoreSeq}
                       ELSE act.seq # p.writeSeq
(* SelectSeq, written out because the proof system does not know it.        *)
Live(p, queue) ==
    LET live[n \in 0..Len(queue)] ==
            IF n = 0 THEN <<>>
            ELSE IF Retired(p, queue[n]) THEN live[n - 1]
            ELSE Append(live[n - 1], queue[n])
    IN  live[Len(queue)]
Busy(h, act) == IF act.op = "read" THEN h.read.on ELSE h.write.on

Launched(h, act) ==
    IF act.op = "read" THEN [h EXCEPT !.read = Reading(act)]
                       ELSE [h EXCEPT !.write = Writing(act)]

dispatch(h, p, act) ==
    IF act.op = "none" \/ (act.op = "write" /\ act.seq = 0) THEN h
    ELSE IF Busy(h, act) THEN [h EXCEPT !.queue = Append(Live(p, @), act)]
    ELSE Launched(h, act)

(* The first entry that is still asked for and whose run is free. *)
flushQueued(h, p) ==
    LET queue == Live(p, h.queue)
        free == {i \in DOMAIN queue : ~Busy(h, queue[i])}
        i == CHOOSE i \in free : \A j \in free : i <= j
    IN  IF free = {} THEN [h EXCEPT !.queue = queue]
        ELSE Launched([h EXCEPT !.queue = RemoveAt(queue, i)], queue[i])

Does(result, h) == m' = result.m /\ host' = dispatch(h, result.m, result.act)

targetOpens(opens) ==
    /\ alive /\ m.opened # opens
    /\ IF opens THEN Spend("opens") ELSE UNCHANGED budget
    /\ Does(IF opens THEN open(m) ELSE close(m), host)
    /\ past' = [past EXCEPT !.stood = FALSE, !.stale = @ \/ budget.gaps,
                            !.evaled = @ /\ m.overrideLive]
    /\ chain' = IF ~budget.gaps THEN chain
                ELSE IF chain.busy THEN [chain EXCEPT !.pending = TRUE]
                ELSE [Idle EXCEPT !.phase = "kickoff", !.busy = TRUE]
    /\ UNCHANGED <<hides, theirs, unheard, lastword, gaps, alive>>

Value(b) == IF b THEN "TRUE" ELSE "FALSE"
ReadSamples ==
    /\ host.read.on /\ host.read.value = "none" /\ ~host.read.answered
    /\ host' = [host EXCEPT !.read.value = Value(hides)]
    /\ UNCHANGED <<m, hides, theirs, unheard, lastword, gapVars, alive, budget, past>>

readAnswered(enabled) ==
    LET run == host.read
        asked == IF run.kind = "probe" THEN m.probeSeq ELSE m.restoreSeq
    IN  IF run.seq = asked THEN readResult(m, run.kind, run.seq, enabled)
                           ELSE Quietly(m)

(* A failed answer leaves an open panel without its suspension, and a write *)
(* made while a reload is unheard is one the reload crossed.                *)
AfterAnswer(result, failed) ==
    [past EXCEPT !.stood = @ \/ (failed /\ m.opened),
                 !.crossed = @ \cup IF result.act.op = "write" /\ unheard
                                    THEN {result.act.seq} ELSE {},
                 !.disowned = @ \/ (result.act.op = "write" /\ host.read.seq \in past.crossed)]

ReadAnswers ==
    /\ host.read.on /\ host.read.value # "none" /\ ~host.read.answered
    /\ LET result == readAnswered(host.read.value)
       IN  /\ Does(result, [host EXCEPT !.read.answered = TRUE])
           /\ past' = AfterAnswer(result, FALSE)
    /\ UNCHANGED <<hides, theirs, unheard, lastword, gapVars, alive, budget>>

(* The read exits without an answer, or the watchdog stops one that hangs. *)
ReadFails ==
    /\ host.read.on /\ ~host.read.answered
    /\ Spend("failures")
    /\ LET result == readAnswered("null")
       IN  /\ Does(result, [host EXCEPT !.read.answered = TRUE])
           /\ past' = AfterAnswer(result, TRUE)
    /\ UNCHANGED <<hides, theirs, unheard, lastword, gapVars, alive>>

(* Mutant: the exit of a read starts nothing that waits for it. *)
ReadExitUnflushed ==
    /\ host.read.on /\ host.read.answered
    /\ host' = [host EXCEPT !.read = NoRun]
    /\ UNCHANGED <<m, hides, theirs, unheard, lastword, gapVars, alive, budget, past>>

ReadExits ==
    /\ host.read.on /\ host.read.answered
    /\ host' = flushQueued([host EXCEPT !.read = NoRun], m)
    /\ UNCHANGED <<m, hides, theirs, unheard, lastword, gapVars, alive, budget, past>>

WriteLands ==
    /\ host.write.on /\ ~host.write.landed
    /\ host' = [host EXCEPT !.write.landed = TRUE]
    /\ hides' = host.write.value
    /\ past' = [past EXCEPT !.raced = @ \/ /\ hides' # theirs
                                           /\ \/ host.write.seq \in past.crossed
                                              \/ host.write.value /\ past.disowned]
    /\ UNCHANGED <<m, theirs, unheard, lastword, gapVars, alive, budget>>

writeSettled(ok) ==
    LET seq == host.write.seq
        result == writeResult(m, seq, ok)
        h == dispatch(host, result.m, result.act)
    IN  /\ m' = result.m
        /\ host' = flushQueued([h EXCEPT !.write = NoRun], m')
        /\ past' = [past EXCEPT !.undoFailed = (@ \/ (~ok /\ m.undoing)) /\ m'.overrideLive,
                                !.stood = @ \/ (~ok /\ m.opened)]
        /\ UNCHANGED <<hides, theirs, unheard, lastword, gapVars, alive>>

WriteExits == host.write.on /\ host.write.landed /\ writeSettled(TRUE) /\ UNCHANGED budget
WriteFails == host.write.on /\ ~host.write.landed /\ Spend("failures") /\ writeSettled(FALSE)

ReloadHeard ==
    /\ unheard /\ alive
    /\ Does(configReloaded(m), host)
    /\ unheard' = FALSE
    /\ past' = [past EXCEPT !.undoFailed = @ /\ m'.overrideLive,
                            !.disowned = @ /\ m'.overrideLive]
    /\ UNCHANGED <<hides, theirs, lastword, gapVars, alive, budget>>

(* The generations a change of the user's crosses: a read already taken and *)
(* a write on its way.                                                      *)
Crossing ==
    past.crossed \cup (IF host.read.on /\ host.read.value # "none" THEN {host.read.seq} ELSE {})
                 \cup (IF m.writeSeq # 0 THEN {m.writeSeq} ELSE {})
                 \cup (IF lastword THEN {0} ELSE {})

(* A reload brings back what the configuration says, of both options. *)
Reload(value) ==
    /\ Spend("reloads")
    /\ hides' = value /\ theirs' = value /\ unheard' = alive
    /\ gaps' = 0
    /\ past' = [past EXCEPT !.crossed = Crossing, !.raced = FALSE, !.disowned = FALSE,
                            !.evaled = FALSE, !.stale = FALSE, !.gaveUp = @ /\ chain.busy]
    /\ UNCHANGED <<m, host, lastword, chain, alive>>

(* The user sets the option in the running session; no event tells of it. *)
Eval(value) ==
    /\ Spend("evals")
    /\ hides' = value /\ theirs' = value
    /\ past' = [past EXCEPT !.crossed = Crossing, !.raced = FALSE,
                            !.disowned = ~value /\ (m.overrideLive \/ lastword),
                            !.evaled = value /\ (m.opened \/ m.overrideLive)]
    /\ UNCHANGED <<m, host, unheard, lastword, gapVars, alive>>

Destroy ==
    /\ alive /\ Spend("destroys")
    /\ alive' = FALSE
    /\ m' = destroyed(m).m
    /\ lastword' = (destroyed(m).act.op = "write")
    /\ host' = [read |-> NoRun, write |-> NoRun, queue |-> <<>>]
    /\ past' = [past EXCEPT !.crossed = IF unheard \/ m.reloadDuringWrite THEN {0} ELSE {}]
    /\ unheard' = FALSE
    /\ UNCHANGED <<hides, theirs, gapVars>>

LastWordLands ==
    /\ lastword /\ lastword' = FALSE
    /\ hides' = TRUE
    /\ past' = [past EXCEPT !.raced = @ \/ /\ hides' # theirs
                                           /\ 0 \in past.crossed \/ past.disowned]
    /\ UNCHANGED <<m, host, theirs, unheard, gapVars, alive, budget>>

-----------------------------------------------------------------------------
(* The relayout nudge.  A chain that is over starts the one queued behind   *)
(* it; the kickoff timer stands before its probe.                           *)

ChainOver(c) ==
    IF c.pending THEN [Idle EXCEPT !.phase = "kickoff", !.busy = TRUE] ELSE Idle

GapsProbed ==
    /\ chain.phase = "kickoff"
    /\ chain' = [chain EXCEPT !.phase = "nudging", !.original = gaps]

(* An answer that is not understood: nothing is written. *)
GapsUnread ==
    /\ chain.phase = "kickoff" /\ chain' = ChainOver(chain)

GapsWritten(lands) ==
    /\ chain.phase \in {"nudging", "restoring"}
    /\ LET nudges == chain.phase = "nudging"
       IN  /\ gaps' = IF lands THEN chain.original + (IF nudges THEN 1 ELSE 0) ELSE gaps
           /\ chain' = [chain EXCEPT !.phase = IF nudges THEN "nudge-check"
                                                         ELSE "restore-check"]
           /\ past' = [past EXCEPT !.stale = @ /\ ~(nudges /\ lands),
                                   !.unmoved = @ \/ (nudges /\ ~lands)]

(* Mutant: a read-back that cannot be understood ends the chain. *)
readBackTrusting(c, value) ==
    IF value \in {c.original, -1} THEN ChainOver(c)
    ELSE IF c.phase = "nudge-check" THEN [c EXCEPT !.phase = "waiting"]
    ELSE IF c.retried THEN ChainOver(c)
    ELSE [c EXCEPT !.phase = "restoring", !.retried = TRUE]

(* -1: the answer was not understood. *)
readBack(c, value) ==
    IF value = c.original THEN ChainOver(c)
    ELSE IF c.phase = "nudge-check" THEN [c EXCEPT !.phase = "waiting"]
    ELSE IF c.retried THEN ChainOver(c)
    ELSE [c EXCEPT !.phase = "restoring", !.retried = TRUE]

GapsReadBack(value) ==
    /\ chain.phase \in {"nudge-check", "restore-check"}
    /\ chain' = readBack(chain, value)
    /\ past' = [past EXCEPT !.gaveUp =
                   @ \/ (chain.phase = "restore-check" /\ chain.retried
                          /\ value # chain.original)]

restoreDue == chain.phase = "waiting" /\ chain' = [chain EXCEPT !.phase = "restoring"]

Relayout ==
    /\ alive
    /\ UNCHANGED <<policyVars, alive>>
    /\ \/ (GapsProbed \/ restoreDue) /\ UNCHANGED <<gaps, budget, past>>
       \/ GapsWritten(TRUE) /\ UNCHANGED budget
       \/ GapsReadBack(gaps) /\ UNCHANGED <<gaps, budget>>

RelayoutFails ==
    /\ alive /\ Spend("gapFailures")
    /\ UNCHANGED <<policyVars, alive>>
    /\ \/ GapsUnread /\ past' = [past EXCEPT !.unmoved = TRUE] /\ UNCHANGED gaps
       \/ GapsWritten(FALSE)
       \/ GapsReadBack(-1) /\ UNCHANGED gaps

Panel == ReadSamples \/ ReadAnswers \/ ReadExits \/ WriteLands \/ WriteExits
         \/ ReloadHeard \/ LastWordLands \/ Relayout

User == (\E opens \in BOOLEAN : targetOpens(opens))
        \/ (\E value \in BOOLEAN : Reload(value) \/ Eval(value)) \/ Destroy

Next == Panel \/ User \/ ReadFails \/ WriteFails \/ RelayoutFails

Spec == Init /\ [][Next]_vars

(* Every run ends, by itself or by the watchdog, and events are delivered. *)
FairSpec ==
    /\ Spec
    /\ WF_vars(ReadSamples) /\ WF_vars(ReadAnswers) /\ WF_vars(ReadExits)
    /\ WF_vars(WriteLands) /\ WF_vars(WriteExits)
    /\ WF_vars(ReloadHeard) /\ WF_vars(LastWordLands) /\ WF_vars(Relayout)

-----------------------------------------------------------------------------
NothingAsked == m.probeSeq = 0 /\ m.restoreSeq = 0 /\ m.writeSeq = 0
AtRest == /\ NothingAsked /\ ~host.read.on /\ ~host.write.on
          /\ ~unheard /\ ~lastword

(* CursorPolicy.js: the lifecycle gives the user's setting back.  Whenever  *)
(* a closed or destroyed panel has nothing under way, the compositor holds  *)
(* what the user last chose, unless the user's change crossed a write (the  *)
(* documented races) or the undo failed and is still owed.                  *)
HidingIsGivenBack ==
    AtRest /\ ~m.opened =>
        hides = theirs \/ past.raced \/ (m.overrideLive /\ past.undoFailed)

(* CursorPolicy.js: "The suspension policy holds for the whole open".  An   *)
(* open panel with nothing under way has the hiding off, unless a run       *)
(* failed for this opening or the user turned it on under the panel.        *)
SuspendedWhileOpen ==
    AtRest /\ m.opened => ~hides \/ past.stood \/ past.evaled

(* CursorPolicy.js, create: the machine never overlaps a read with a write, *)
(* so that no verify can see a value that is about to change.               *)
ReadsNeverMeetWrites ==
    m.writeSeq # 0 => m.probeSeq = 0 /\ m.restoreSeq = 0

(* Panel.qml: one chain at a time, and every write judged by reading back.  *)
(* A nudge that is over has left the user's gaps, or has reported an error. *)
GapsComeBack == ~chain.busy => gaps = 0 \/ past.gaveUp

(* Both hosts: nothing is asked for that never runs.  In the end the policy *)
(* rests, and the tiled windows have been laid out since the strip last     *)
(* came or went, unless a nudge failed.                                     *)
BothSettle == <>[](AtRest /\ (alive => ~past.stale \/ past.unmoved))
=============================================================================
