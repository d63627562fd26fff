---------------------------- MODULE CursorPolicy ----------------------------
(***************************************************************************)
(* The pure machine of CursorPolicy.js: while the panel is open Hyprland's *)
(* hiding of the cursor on a key press is suspended, and it is given back  *)
(* on close.  An event returns the machine and at most one action for the  *)
(* host: a read or a write, with the generation that asked for it.         *)
(*                                                                         *)
(* A setting is TRUE (hide) or FALSE; "null" is a read that failed.  The   *)
(* outcome text is wording.  Generation 0 means that none is in flight.    *)
(***************************************************************************)
EXTENDS Naturals

policyInitial ==
    [seq |-> 0, opened |-> FALSE, probeSeq |-> 0, restoreSeq |-> 0, writeSeq |-> 0,
     probeQueued |-> FALSE, restoreQueued |-> FALSE, undoing |-> FALSE,
     overrideLive |-> FALSE, reloadDuringWrite |-> FALSE]

NoAct == [op |-> "none"]
ReadAct(kind, seq) == [op |-> "read", kind |-> kind, seq |-> seq]
WriteAct(value, seq) == [op |-> "write", value |-> value, seq |-> seq]

Quietly(m) == [m |-> m, act |-> NoAct]

startProbe(m) ==
    [m |-> [m EXCEPT !.seq = @ + 1, !.probeSeq = m.seq + 1],
     act |-> ReadAct("probe", m.seq + 1)]

startRestore(m) ==
    [m |-> [m EXCEPT !.seq = @ + 1, !.restoreSeq = m.seq + 1],
     act |-> ReadAct("restore", m.seq + 1)]

resumeProbeIfQueued(m) ==
    IF m.probeQueued /\ m.opened THEN startProbe([m EXCEPT !.probeQueued = FALSE])
                                 ELSE Quietly(m)

(* A still live override is ridden, unless its undo is already under way. *)
open(m) ==
    LET o == [m EXCEPT !.opened = TRUE]
    IN  IF m.overrideLive /\ m.restoreSeq = 0 /\ ~m.undoing THEN Quietly(o)
        ELSE IF m.restoreSeq # 0 \/ m.writeSeq # 0
             THEN Quietly([o EXCEPT !.probeQueued = TRUE])
             ELSE startProbe(o)

(* Mutant: a close verifies at once, beside the write under way. *)
closeBesideWrite(m) ==
    LET c == [m EXCEPT !.opened = FALSE, !.probeSeq = 0, !.probeQueued = FALSE]
    IN  IF ~m.overrideLive THEN Quietly(c) ELSE startRestore(c)

close(m) ==
    LET c == [m EXCEPT !.opened = FALSE, !.probeSeq = 0, !.probeQueued = FALSE]
    IN  IF ~m.overrideLive THEN Quietly(c)
        ELSE IF m.writeSeq # 0 THEN Quietly([c EXCEPT !.restoreQueued = TRUE])
        ELSE startRestore(c)

Forgotten(m) == [m EXCEPT !.overrideLive = FALSE]
Writes(m, value, seq) ==
    [m |-> [m EXCEPT !.writeSeq = seq, !.undoing = value], act |-> WriteAct(value, seq)]

ProbeAnswered(m, seq, enabled) ==
    LET p == [m EXCEPT !.probeSeq = 0]
    IN  IF enabled = "TRUE" THEN Writes([p EXCEPT !.overrideLive = TRUE], FALSE, seq)
                            ELSE Quietly(p)

(* A verify: on a reopen only a value that is back is suspended again; on a *)
(* close the override is undone unless the value moved.                     *)
RestoreAnswered(m, seq, enabled) ==
    LET r == [m EXCEPT !.restoreSeq = 0]
        o == [r EXCEPT !.probeQueued = FALSE]
    IN  IF m.opened
        THEN IF enabled = "TRUE" THEN startProbe(Forgotten(o)) ELSE Quietly(o)
        ELSE IF enabled = "TRUE" THEN Quietly(Forgotten(r)) ELSE Writes(r, TRUE, seq)

readResult(m, kind, seq, enabled) ==
    IF kind = "probe"
    THEN IF seq # m.probeSeq THEN Quietly(m) ELSE ProbeAnswered(m, seq, enabled)
    ELSE IF seq # m.restoreSeq THEN resumeProbeIfQueued(m)
                               ELSE RestoreAnswered(m, seq, enabled)

(* What a write that landed, or failed, says of the override: it goes with  *)
(* its undo, and with a suspension that did not happen.                     *)
Settled(m, ok) ==
    [m EXCEPT !.overrideLive = @ /\ (ok # m.undoing), !.undoing = FALSE]

writeResult(m, seq, ok) ==
    LET w == Settled([m EXCEPT !.writeSeq = 0], ok)
        q == [w EXCEPT !.restoreQueued = FALSE]
        afresh == [Forgotten(q) EXCEPT !.reloadDuringWrite = FALSE]
    IN  IF seq # m.writeSeq THEN Quietly(m)
        ELSE IF m.reloadDuringWrite
             THEN IF m.opened THEN startProbe([afresh EXCEPT !.probeQueued = FALSE])
                              ELSE Quietly(afresh)
        ELSE IF ~m.restoreQueued \/ m.opened THEN resumeProbeIfQueued(q)
        ELSE IF w.overrideLive THEN startRestore(q) ELSE Quietly(q)

(* Mutant: a reload leaves the verify under way in force. *)
reloadKeepsVerify(m) ==
    LET f == [Forgotten(m) EXCEPT !.probeSeq = 0]
    IN  IF m.writeSeq # 0 THEN Quietly([m EXCEPT !.reloadDuringWrite = TRUE])
        ELSE IF m.opened /\ ~m.probeQueued THEN startProbe(f) ELSE resumeProbeIfQueued(f)

configReloaded(m) ==
    LET f == [Forgotten(m) EXCEPT !.restoreSeq = 0, !.probeSeq = 0]
    IN  IF m.writeSeq # 0 THEN Quietly([m EXCEPT !.reloadDuringWrite = TRUE])
        ELSE IF m.opened /\ ~m.probeQueued THEN startProbe(f) ELSE resumeProbeIfQueued(f)

(* The best effort of a panel that is destroyed goes out untracked. *)
destroyed(m) ==
    [m |-> [policyInitial EXCEPT !.seq = m.seq],
     act |-> IF m.overrideLive THEN WriteAct(TRUE, 0) ELSE NoAct]
=============================================================================
