----------------------------- MODULE KbFileShare -----------------------------
(***************************************************************************)
(* The compositor's kb_file as the helper changes it: the seat verbs of    *)
(* daemon/src/seat.rs (`seat`, `share`), the worker each runs on           *)
(* (daemon/src/server.rs), the record of the user's own value a configure  *)
(* leaves (daemon/src/apply.rs), and the restore on shutdown.              *)
(*                                                                         *)
(* Every connection runs one seat verb at a time on a worker of its own;   *)
(* workers, the user's own changes and the shutdown thread interleave at   *)
(* every request to the compositor and at every lock.                      *)
(*                                                                         *)
(* Abstractions:                                                           *)
(*   - A kb_file value is None (unset), Published (any spelling of the     *)
(*     helper's own file) or one of the user's files.                      *)
(*   - A request the compositor is asked is answered or not, and a write   *)
(*     is applied or not, in every combination: `ok` is the parser's word, *)
(*     and a request that timed out may still be carried out.  The         *)
(*     compositor serves its socket in order, so a late write lands before *)
(*     whatever is asked next and counts as applied when it was sent.      *)
(*   - Deadlines are the freedom to fail: a wait or a read-back that has   *)
(*     not succeeded may give up at any moment.                            *)
(*   - A check of the shutdown flag and the request beside it are one      *)
(*     step: the flag matters only to such checks.                         *)
(*   - The record's file is always writable.                               *)
(***************************************************************************)
EXTENDS FiniteSets

CONSTANTS
    Conns,      \* connections, each with at most one seat verb under way
    UserFiles,  \* the user's own kb_file values, other than unset
    Absolute    \* those of them that are absolute paths

None == "unset"
Published == "published"
Unknown == "unknown"
Free == "free"
Stop == "stop"

Values == UserFiles \cup {None, Published}

ASSUME FileAssumption ==
    /\ Absolute \subseteq UserFiles
    /\ {None, Published, Unknown} \cap UserFiles = {}
    /\ {Free, Stop} \cap Conns = {}

VARIABLES
    comp,      \* what the compositor holds
    record,    \* the recovery record, None when the file is absent
    lastSeen,  \* Shared::compositor_kb_file
    gate,      \* the holder of kb_file_gate
    job,       \* connection -> its worker: where it is and what it holds
    phase,     \* where the shutdown is
    outcome,   \* what the restore on shutdown did
    outside,   \* history: the user changed kb_file since the gate was taken
    lost       \* history: a put-back failed or was not possible

vars == <<comp, record, lastSeen, gate, job, phase, outcome, outside, lost>>

(* Where a worker is while a change it made may have to be undone. *)
Changing == {"clear", "write", "confirm", "putBack", "verify"}
(* Where it is while it holds the gate. *)
Inside == Changing \cup {"read", "seen", "capture", "confirmed"}
(* Where the shutdown thread is while it holds it. *)
Restoring == {"look", "giveBack", "check"}

Job == [at       : Inside \cup {"idle", "seat", "observe", "gate"},
        wanted   : Absolute \cup {None, Published},  \* what a share sets
        current  : Values,                           \* what the verb read
        captured : UserFiles \cup {None}]            \* what a failure puts back

Idle == [at |-> "idle", wanted |-> None, current |-> None, captured |-> None]

TypeOK ==
    /\ comp \in Values
    /\ record \in UserFiles \cup {None}
    /\ lastSeen \in Values \cup {Unknown}
    /\ gate \in Conns \cup {Free, Stop}
    /\ job \in [Conns -> Job]
    /\ phase \in Restoring \cup {"running", "stopping", "done", "exited"}
    /\ outcome \in {"none", "notOurs", "restored", "failed"}
    /\ outside \in BOOLEAN
    /\ lost \in BOOLEAN

Init ==
    /\ comp \in UserFiles \cup {None}
    /\ record = None
    /\ lastSeen = Unknown
    /\ gate = Free
    /\ job = [c \in Conns |-> Idle]
    /\ phase = "running"
    /\ outcome = "none"
    /\ outside = FALSE
    /\ lost = FALSE

At(c, where) == job[c].at = where
Goto(c, where) == job' = [job EXCEPT ![c].at = where]
(* The verb is answered; what it held is gone with its worker. *)
Answer(c) == job' = [job EXCEPT ![c] = Idle]

(* shutting_down, as every check of it finds it. *)
Stopping == phase # "running"

(* OwnFiles::capture. *)
Capture(v) == IF v = Published THEN record ELSE v

Restorable(v) == v = None \/ v \in Absolute

(* A write, whatever the compositor answered: carried out or not. *)
Written(v) == comp' \in {comp, v}

-----------------------------------------------------------------------------
(* `seat`: read, then observe under the typing lock.  No gate. *)

AskSeat(c) ==
    /\ At(c, "idle")
    /\ ~Stopping
    /\ Goto(c, "seat")
    /\ UNCHANGED <<comp, record, lastSeen, gate, phase, outcome, outside, lost>>

ReadSeat(c) ==
    /\ At(c, "seat")
    /\ \/ job' = [job EXCEPT ![c].at = "observe", ![c].current = comp]
       \/ Answer(c)
    /\ UNCHANGED <<comp, record, lastSeen, gate, phase, outcome, outside, lost>>

ObserveSeat(c) ==
    /\ At(c, "observe")
    /\ lastSeen' = job[c].current
    /\ Answer(c)
    /\ UNCHANGED <<comp, record, gate, phase, outcome, outside, lost>>

-----------------------------------------------------------------------------
(* A configure decides the record before anything else, compiled or not. *)

(* Mutant: the record follows what was last seen, not what the panel sends. *)
RecordedAsSeen(file) == IF lastSeen \in UserFiles THEN lastSeen ELSE None
(* user_source_decision, applied. *)
Recorded(file) ==
    CASE file \in UserFiles -> file
      [] file = Published -> record
      [] file = None /\ lastSeen = Published -> record
      [] file = None /\ lastSeen \in UserFiles -> lastSeen
      [] file = None /\ lastSeen \in {None, Unknown} -> None

Configure(c, file) ==
    /\ At(c, "idle")
    /\ ~Stopping
    /\ record' = Recorded(file)
    /\ UNCHANGED <<comp, lastSeen, gate, job, phase, outcome, outside, lost>>

-----------------------------------------------------------------------------
(* `share`: one transaction under the gate. *)

AskShare(c, v) ==
    /\ At(c, "idle")
    /\ ~Stopping
    /\ job' = [job EXCEPT ![c].at = "gate", ![c].wanted = v]
    /\ UNCHANGED <<comp, record, lastSeen, gate, phase, outcome, outside, lost>>

(* Mutant: the worker is never told of the shutdown. *)
NeverStops == FALSE
(* `stopping`, asked between every two steps of a transaction. *)
ToldToStop == Stopping

Enter(c) ==
    IF ToldToStop
      THEN Answer(c) /\ UNCHANGED <<gate, outside>>
      ELSE Goto(c, "read") /\ gate' = c /\ outside' = FALSE

TakeGate(c) ==
    /\ At(c, "gate")
    /\ gate = Free
    /\ Enter(c)
    /\ UNCHANGED <<comp, record, lastSeen, phase, outcome, lost>>

GateTimesOut(c) ==
    /\ At(c, "gate")
    /\ gate # Free
    /\ Answer(c)
    /\ UNCHANGED <<comp, record, lastSeen, gate, phase, outcome, outside, lost>>

(* The transaction returns and its guard is dropped. *)
Leave(c) == Answer(c) /\ gate' = Free

ReadCurrent(c) ==
    /\ At(c, "read")
    /\ \/ /\ job' = [job EXCEPT ![c].at = "seen", ![c].current = comp]
          /\ UNCHANGED gate
       \/ Leave(c)
    /\ UNCHANGED <<comp, record, lastSeen, phase, outcome, outside, lost>>

ObserveCurrent(c) ==
    /\ At(c, "seen")
    /\ lastSeen' = job[c].current
    /\ Goto(c, "capture")
    /\ UNCHANGED <<comp, record, gate, phase, outcome, outside, lost>>

MayTakeOver(c) == job[c].wanted # Published \/ Restorable(Capture(job[c].current))

(* The setting already names the target: it is cleared first, so that the
   compositor reads the file again. *)
FirstStep(c) ==
    IF job[c].wanted # None /\ job[c].current = job[c].wanted THEN "clear" ELSE "write"

CaptureCurrent(c) ==
    /\ At(c, "capture")
    /\ IF MayTakeOver(c) /\ ~ToldToStop
         THEN /\ job' = [job EXCEPT ![c].at = FirstStep(c),
                                    ![c].captured = Capture(job[c].current)]
              /\ UNCHANGED gate
         ELSE Leave(c)
    /\ UNCHANGED <<comp, record, lastSeen, phase, outcome, outside, lost>>

Proceed(c, where) == ~ToldToStop /\ Goto(c, where) /\ UNCHANGED <<gate, lost>>

(* Mutant: a change that failed is reported and left as it is. *)
LeavesIt(c) == Leave(c) /\ UNCHANGED lost
(* A change that failed, or that the shutdown interrupts. *)
Undo(c) ==
    IF Restorable(job[c].captured)
      THEN Goto(c, "putBack") /\ UNCHANGED <<gate, lost>>
      ELSE Leave(c) /\ lost' = TRUE

Clear(c) ==
    /\ At(c, "clear")
    /\ Written(None)
    /\ Proceed(c, "write") \/ Undo(c)
    /\ UNCHANGED <<record, lastSeen, phase, outcome, outside>>

Change(c) ==
    /\ At(c, "write")
    /\ Written(job[c].wanted)
    /\ Proceed(c, "confirm") \/ Undo(c)
    /\ UNCHANGED <<record, lastSeen, phase, outcome, outside>>

(* Mutant: the compositor's `ok` is taken for the value being in place. *)
TrustsTheWrite(c) == TRUE
ReadsBack(c) == comp = job[c].wanted

Confirm(c) ==
    /\ At(c, "confirm")
    /\ (ReadsBack(c) /\ Proceed(c, "confirmed")) \/ Undo(c)
    /\ UNCHANGED <<comp, record, lastSeen, phase, outcome, outside>>

ShareDone(c) ==
    /\ At(c, "confirmed")
    /\ lastSeen' = job[c].wanted
    /\ Leave(c)
    /\ UNCHANGED <<comp, record, phase, outcome, outside, lost>>

(* put_back does not stop for the shutdown. *)
PutBack(c) ==
    /\ At(c, "putBack")
    /\ Written(job[c].captured)
    /\ \/ Goto(c, "verify") /\ UNCHANGED <<gate, lost>>
       \/ Leave(c) /\ lost' = TRUE
    /\ UNCHANGED <<record, lastSeen, phase, outcome, outside>>

Verify(c) ==
    /\ At(c, "verify")
    /\ Leave(c)
    /\ \/ comp = job[c].captured /\ lastSeen' = job[c].captured /\ UNCHANGED lost
       \/ lost' = TRUE /\ UNCHANGED lastSeen
    /\ UNCHANGED <<comp, record, phase, outcome, outside>>

-----------------------------------------------------------------------------
(* Shutdown: the commands are refused first, then the setting is given back. *)

BeginStop ==
    /\ phase = "running"
    /\ phase' = "stopping"
    /\ UNCHANGED <<comp, record, lastSeen, gate, job, outcome, outside, lost>>

StopTakesGate ==
    /\ phase = "stopping"
    /\ gate = Free
    /\ gate' = Stop
    /\ outside' = FALSE
    /\ phase' = "look"
    /\ UNCHANGED <<comp, record, lastSeen, job, outcome, lost>>

ShutdownValue == IF Restorable(record) THEN record ELSE None

Finish(what) ==
    /\ phase' = "done"
    /\ outcome' = what
    /\ gate' = Free

StopLooks ==
    /\ phase = "look"
    /\ IF comp = Published
         THEN phase' = "giveBack" /\ UNCHANGED <<gate, outcome>>
         ELSE Finish("notOurs")
    /\ UNCHANGED <<comp, record, lastSeen, job, outside, lost>>

StopWrites ==
    /\ phase = "giveBack"
    /\ Written(ShutdownValue)
    /\ \/ phase' = "check" /\ UNCHANGED <<gate, outcome>>
       \/ Finish("failed")
    /\ UNCHANGED <<record, lastSeen, job, outside, lost>>

StopChecks ==
    /\ phase = "check"
    /\ \/ comp = ShutdownValue /\ Finish("restored")
       \/ Finish("failed")
    /\ UNCHANGED <<comp, record, lastSeen, job, outside, lost>>

(* The gate was not free in time, or the setting could not be read. *)
StopGivesUp ==
    /\ \/ /\ phase = "stopping"
          /\ gate # Free
          /\ UNCHANGED gate
       \/ /\ phase = "look"
          /\ gate' = Free
    /\ phase' = "done"
    /\ outcome' = "failed"
    /\ UNCHANGED <<comp, record, lastSeen, job, outside, lost>>

(* Mutant: the process leaves only once the setting was given back. *)
ExitsOnceRestored ==
    /\ phase = "done"
    /\ outcome # "failed"
    /\ phase' = "exited"
    /\ UNCHANGED <<comp, record, lastSeen, gate, job, outcome, outside, lost>>
(* process::exit, from the shutdown thread or from the watchdog. *)
Exit ==
    /\ phase = "done"
    /\ phase' = "exited"
    /\ UNCHANGED <<comp, record, lastSeen, gate, job, outcome, outside, lost>>

WatchdogFires ==
    /\ phase \in Restoring \cup {"stopping"}
    /\ phase' = "exited"
    /\ outcome' = "failed"
    /\ UNCHANGED <<comp, record, lastSeen, gate, job, outside, lost>>

-----------------------------------------------------------------------------
(* The user, or a config reload, sets kb_file behind everyone's back. *)
UserSets(v) ==
    /\ comp' = v
    /\ outside' = TRUE
    /\ UNCHANGED <<record, lastSeen, gate, job, phase, outcome, lost>>

(* What the helper may be asked: a share names an absolute path or nothing. *)
Ask(c) ==
    \/ AskSeat(c)
    \/ \E v \in Absolute \cup {None, Published} : AskShare(c, v)
    \/ \E v \in Values : Configure(c, v)

Work(c) ==
    /\ phase # "exited"
    /\ \/ ReadSeat(c) \/ ObserveSeat(c)
       \/ TakeGate(c) \/ GateTimesOut(c)
       \/ ReadCurrent(c) \/ ObserveCurrent(c) \/ CaptureCurrent(c)
       \/ Clear(c) \/ Change(c) \/ Confirm(c) \/ ShareDone(c)
       \/ PutBack(c) \/ Verify(c)

Shutdown == StopTakesGate \/ StopLooks \/ StopWrites \/ StopChecks \/ StopGivesUp \/ Exit

Next ==
    \/ \E c \in Conns : Ask(c) \/ Work(c)
    \/ BeginStop \/ Shutdown \/ WatchdogFires
    \/ \E v \in UserFiles \cup {None} : UserSets(v)

(* A worker and the shutdown thread go on: every wait and every request of
   theirs is bounded in time. *)
Fairness ==
    /\ \A c \in Conns : WF_vars(Work(c))
    /\ WF_vars(Shutdown)

Spec == Init /\ [][Next]_vars
FairSpec == Spec /\ Fairness

-----------------------------------------------------------------------------
(* Safety *)

(* Only the gate's holder is between capturing the setting and leaving it, and
   the restore runs with every share outside. *)
GateIsHeld ==
    /\ \A c \in Conns : job[c].at \in Inside <=> gate = c
    /\ phase \in Restoring => gate = Stop
    /\ gate = Stop => phase \in Restoring \cup {"exited"}

(* A share answered `ok` left its value in place: no other share and no restore
   came between its read-back and its answer. *)
OkMeansInPlace ==
    [][\A c \in Conns :
          At(c, "confirmed") /\ job'[c] = Idle /\ ~outside => comp' = job[c].wanted]_vars

(* A change that fails leaves what it found, or what the published keymap had
   replaced, unless its own put-back failed: a refusal, a lost answer and a
   shutdown in the middle of it included. *)
FailureLeavesNoTrace ==
    [][\A c \in Conns :
          job[c].at \in Changing /\ job'[c] = Idle /\ ~lost' /\ ~outside
          => comp' \in {job[c].current, job[c].captured}]_vars

(* The helper never replaces a value it could not put back by its own. *)
TakesOverOnlyRestorable ==
    [][comp' = Published /\ comp # Published /\ ~outside => Restorable(comp)]_vars

(* A restore that found its own file, or nothing of its own, leaves the
   compositor off it, and no share that was under way points it back. *)
StopLeavesNothingPublished ==
    outcome \in {"notOurs", "restored"} => comp # Published

(* The restore gives back what was recorded, when it can be given back. *)
StopGivesBackTheRecord ==
    outcome = "restored" /\ ~outside => comp = (IF record \in Absolute THEN record ELSE None)

-----------------------------------------------------------------------------
(* Liveness, under FairSpec *)

(* Every verb that started is answered, unless the process leaves first. *)
VerbsAreAnswered ==
    \A c \in Conns : (~At(c, "idle")) ~> (At(c, "idle") \/ phase = "exited")

(* Nothing a share is doing keeps the helper from leaving. *)
StopEnds == (phase = "stopping") ~> (phase = "exited")
=============================================================================
