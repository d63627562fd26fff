------------------------- MODULE SharePanels_proofs -------------------------
(***************************************************************************)
(* First what holds of KbFileShare for any connections and any files: the  *)
(* gate is exclusive, a successful share is in place, a failed one leaves  *)
(* no trace, and a helper that left in order left nothing of its own       *)
(* behind.                                                                 *)
(*                                                                         *)
(* Then what holds of SharePanels, which extends it: the panels drive the  *)
(* helper within what KbFileShare allows, so its theorems hold under them; *)
(* an edit of the user's reaches the record; and, where panels follow one  *)
(* another, the user's own setting is in the compositor or in the record,  *)
(* and is given back.                                                      *)
(***************************************************************************)
EXTENDS SharePanels, SequenceTheorems, TLAPS

(* What the holder of the gate knows of the compositor, unless the user changed
   it meanwhile: nothing moved between its steps, and what it replaces could be
   put back. *)
HolderKnows ==
    \A c \in Conns :
        /\ job[c].at = "confirmed" /\ ~outside => comp = job[c].wanted
        /\ job[c].at \in {"seen", "capture", "clear"} /\ ~outside => comp = job[c].current
        /\ job[c].at = "write" /\ ~outside => comp \in {job[c].current, None}
        /\ /\ job[c].at \in {"clear", "write"}
           /\ job[c].wanted = Published
           /\ job[c].current # Published
           => Restorable(job[c].current)

(* Once the restore has looked or has given back, no share is inside, and none
   can enter any more. *)
RestoreIsFinal ==
    outcome \in {"notOurs", "restored"} =>
        /\ phase \in {"done", "exited"}
        /\ \A c \in Conns : job[c].at \notin Inside

-----------------------------------------------------------------------------
(* Types. *)

(* The values the program names are different from each other and from the
   user's own. *)
LEMMA Distinct ==
    /\ None # Published /\ None \notin UserFiles /\ Published \notin UserFiles
    /\ Free \notin Conns /\ Stop \notin Conns /\ Free # Stop
    /\ None \in Values /\ Published \in Values /\ UserFiles \subseteq Values
    /\ Absolute \subseteq UserFiles
BY FileAssumption DEF None, Published, Unknown, Free, Stop, Values

(* A connection with nothing under way is in a state a worker can be in. *)
LEMMA IdleIsJob == Idle \in Job
BY Distinct DEF Idle, Job

(* Moving a worker on keeps what it holds well typed. *)
LEMMA GotoType ==
    ASSUME TypeOK, NEW c \in Conns,
           NEW where \in Inside \cup {"idle", "seat", "observe", "gate"},
           Goto(c, where)
    PROVE  job' \in [Conns -> Job]
BY DEF TypeOK, Goto, Job

(* So does answering its verb. *)
LEMMA AnswerType ==
    ASSUME TypeOK, NEW c \in Conns, Answer(c)
    PROVE  job' \in [Conns -> Job]
BY IdleIsJob DEF TypeOK, Answer

(* The initial states are well typed. *)
LEMMA InitType == Init => TypeOK
BY Distinct, IdleIsJob DEF Init, TypeOK, Restoring, Values

(* Every step keeps the types: what a failure puts back is the user's own, since
   a reading of the helper's file is replaced by the record. *)
LEMMA TypeStep == TypeOK /\ [Next]_vars => TypeOK'
<1> SUFFICES ASSUME TypeOK, [Next]_vars PROVE TypeOK'
  OBVIOUS
<1> USE Distinct, IdleIsJob DEF TypeOK
<1>1. ASSUME NEW c \in Conns, Ask(c) PROVE TypeOK'
  <2>1. CASE AskSeat(c)
    BY <2>1 DEF AskSeat, Goto, At, Job, Idle
  <2>2. ASSUME NEW v \in Absolute \cup {None, Published}, AskShare(c, v) PROVE TypeOK'
    <3>1. [job[c] EXCEPT !.at = "gate", !.wanted = v] \in Job
      BY <2>2 DEF Job
    <3>2. job' = [job EXCEPT ![c] = [job[c] EXCEPT !.at = "gate", !.wanted = v]]
      BY <2>2 DEF AskShare
    <3> QED BY <2>2, <3>1, <3>2 DEF AskShare
  <2>3. ASSUME NEW v \in Values, Configure(c, v) PROVE TypeOK'
    <3>1. Recorded(v) \in UserFiles \cup {None}
      BY DEF Recorded, Values
    <3> QED BY <2>3, <3>1 DEF Configure
  <2> QED BY <1>1, <2>1, <2>2, <2>3 DEF Ask
<1>2. ASSUME NEW c \in Conns, Work(c) PROVE TypeOK'
  <2>1. job[c] \in Job
    OBVIOUS
  <2>2. CASE ReadSeat(c)
    BY <2>1, <2>2 DEF ReadSeat, Answer, Job
  <2>3. CASE ObserveSeat(c)
    BY <2>1, <2>3 DEF ObserveSeat, Answer, Job
  <2>4. CASE TakeGate(c)
    <3>1. CASE ToldToStop
      BY <2>4, <3>1, AnswerType DEF TakeGate, Enter
    <3>2. CASE ~ToldToStop
      <4>1. Goto(c, "read") /\ gate' = c /\ outside' = FALSE
        BY <2>4, <3>2 DEF TakeGate, Enter
      <4>2. job' \in [Conns -> Job]
        BY <4>1, GotoType DEF Inside
      <4> QED BY <2>4, <4>1, <4>2 DEF TakeGate
    <3> QED BY <3>1, <3>2
  <2>5. CASE GateTimesOut(c)
    BY <2>1, <2>5 DEF GateTimesOut, Answer
  <2>6. CASE ReadCurrent(c)
    BY <2>1, <2>6 DEF ReadCurrent, Leave, Answer, Job, Inside
  <2>7. CASE ObserveCurrent(c)
    BY <2>1, <2>7 DEF ObserveCurrent, Goto, Job, Inside
  <2>8. CASE CaptureCurrent(c)
    <3>1. Capture(job[c].current) \in UserFiles \cup {None}
      BY <2>1 DEF Capture, Job, Values
    <3>2. FirstStep(c) \in Inside
      BY DEF FirstStep, Inside, Changing
    <3> QED BY <2>1, <2>8, <3>1, <3>2 DEF CaptureCurrent, Leave, Answer, Job
  <2>9. ASSUME NEW where \in Inside, Proceed(c, where) PROVE job' \in [Conns -> Job] /\ gate' = gate /\ lost' = lost
    BY <2>1, <2>9 DEF Proceed, Goto, Job
  <2>10. ASSUME Undo(c) PROVE job' \in [Conns -> Job] /\ gate' \in {gate, Free} /\ lost' \in BOOLEAN
    <3>1. CASE Restorable(job[c].captured)
      <4>1. Goto(c, "putBack") /\ UNCHANGED <<gate, lost>>
        BY <2>10, <3>1 DEF Undo
      <4> QED BY <4>1, GotoType DEF Inside, Changing
    <3>2. CASE ~Restorable(job[c].captured)
      <4>1. Leave(c) /\ lost' = TRUE
        BY <2>10, <3>2 DEF Undo
      <4> QED BY <4>1, AnswerType DEF Leave
    <3> QED BY <3>1, <3>2
  <2>11. CASE Clear(c)
    BY <2>11, <2>9, <2>10 DEF Clear, Written, Inside, Changing
  <2>12. CASE Change(c)
    BY <2>1, <2>12, <2>9, <2>10 DEF Change, Written, Inside, Changing, Job, Values
  <2>13. CASE Confirm(c)
    BY <2>13, <2>9, <2>10 DEF Confirm, Inside, Changing
  <2>14. CASE ShareDone(c)
    BY <2>1, <2>14 DEF ShareDone, Leave, Answer, Job, Values
  <2>15. CASE PutBack(c)
    <3>1. comp' \in Values
      BY <2>1, <2>15 DEF PutBack, Written, Job, Values
    <3>2. CASE Goto(c, "verify") /\ UNCHANGED <<gate, lost>>
      <4>1. job' \in [Conns -> Job]
        BY <3>2, GotoType DEF Inside, Changing
      <4> QED BY <2>15, <3>1, <3>2, <4>1 DEF PutBack
    <3>3. CASE Leave(c) /\ lost' = TRUE
      <4>1. job' \in [Conns -> Job] /\ gate' = Free
        BY <3>3, AnswerType DEF Leave
      <4> QED BY <2>15, <3>1, <3>3, <4>1 DEF PutBack
    <3> QED BY <2>15, <3>2, <3>3 DEF PutBack
  <2>16. CASE Verify(c)
    BY <2>1, <2>16 DEF Verify, Leave, Answer, Job, Values
  <2> QED BY <1>2, <2>2, <2>3, <2>4, <2>5, <2>6, <2>7, <2>8, <2>11, <2>12, <2>13, <2>14,
             <2>15, <2>16 DEF Work
<1>3. CASE BeginStop
  BY <1>3 DEF BeginStop
<1>4. CASE Shutdown
  <2>1. ShutdownValue \in UserFiles \cup {None}
    BY DEF ShutdownValue
  <2> QED BY <1>4, <2>1 DEF Shutdown, StopTakesGate, StopLooks, StopWrites, StopChecks,
             StopGivesUp, Exit, Finish, Written, Restoring, Values
<1>5. CASE WatchdogFires
  BY <1>5 DEF WatchdogFires
<1>6. ASSUME NEW v \in UserFiles \cup {None}, UserSets(v) PROVE TypeOK'
  BY <1>6 DEF UserSets, Values
<1>7. CASE UNCHANGED vars
  BY <1>7 DEF vars
<1> QED BY <1>1, <1>2, <1>3, <1>4, <1>5, <1>6, <1>7 DEF Next

-----------------------------------------------------------------------------
(* What a worker's step can do, whichever it is. *)

(* The other workers stay where they are. *)
Alone(c) == \A d \in Conns \ {c} : job'[d] = job[d]

(* A step outside the gate, which sees and changes nothing of what it guards. *)
StaysOut(c) ==
    /\ job[c].at \notin Inside
    /\ job'[c].at \notin Inside
    /\ UNCHANGED <<gate, comp, outside>>

(* A step into the gate: only while it is free and no shutdown has begun. *)
GoesIn(c) ==
    /\ job[c].at \notin Inside
    /\ job'[c].at = "read"
    /\ gate = Free
    /\ gate' = c
    /\ ~Stopping
    /\ UNCHANGED comp

StaysIn(c) ==
    /\ job[c].at \in Inside
    /\ job'[c].at \in Inside
    /\ UNCHANGED <<gate, outside>>

GoesOut(c) ==
    /\ job[c].at \in Inside
    /\ job'[c] = Idle
    /\ gate' = Free
    /\ UNCHANGED outside

(* Moving a worker moves no other. *)
LEMMA GotoShape ==
    ASSUME TypeOK, NEW c \in Conns, NEW where, Goto(c, where)
    PROVE  /\ Alone(c)
           /\ job'[c].at = where
           /\ job'[c].wanted = job[c].wanted
           /\ job'[c].current = job[c].current
           /\ job'[c].captured = job[c].captured
BY DEF TypeOK, Goto, Alone, Job

(* So does answering one. *)
LEMMA AnswerShape ==
    ASSUME TypeOK, NEW c \in Conns, Answer(c)
    PROVE  Alone(c) /\ job'[c] = Idle /\ job'[c].at = "idle"
BY DEF TypeOK, Answer, Alone, Idle

(* Going on, or beginning to undo, is a step inside the gate or out of it. *)
LEMMA GoesOnOrUndoes ==
    ASSUME TypeOK, NEW c \in Conns, job[c].at \in Inside, UNCHANGED outside,
           NEW where \in Inside, Proceed(c, where) \/ Undo(c)
    PROVE  Alone(c) /\ (StaysIn(c) \/ GoesOut(c))
<1>1. CASE Proceed(c, where)
  BY <1>1, GotoShape DEF Proceed, StaysIn
<1>2. CASE Undo(c)
  <2>1. CASE Restorable(job[c].captured)
    <3>1. Goto(c, "putBack") /\ UNCHANGED gate
      BY <1>2, <2>1 DEF Undo
    <3> QED BY <3>1, GotoShape DEF StaysIn, Inside, Changing
  <2>2. CASE ~Restorable(job[c].captured)
    <3>1. Answer(c) /\ gate' = Free
      BY <1>2, <2>2 DEF Undo, Leave
    <3> QED BY <3>1, AnswerShape DEF GoesOut
  <2> QED BY <2>1, <2>2
<1> QED BY <1>1, <1>2

(* Every step of a worker is of one of the four shapes, and none of them touches
   the record or the shutdown. *)
LEMMA WorkShape ==
    ASSUME TypeOK, NEW c \in Conns, Work(c)
    PROVE  /\ Alone(c)
           /\ UNCHANGED <<record, phase, outcome>>
           /\ StaysOut(c) \/ GoesIn(c) \/ StaysIn(c) \/ GoesOut(c)
<1> USE DEF Inside, Changing, At
<1>1. CASE ReadSeat(c)
  <2>1. CASE job' = [job EXCEPT ![c].at = "observe", ![c].current = comp]
    <3>1. job' = [job EXCEPT ![c] = [job[c] EXCEPT !.at = "observe", !.current = comp]]
      BY <2>1
    <3>2. job'[c].at = "observe" /\ Alone(c)
      BY <3>1 DEF TypeOK, Job, Alone
    <3> QED BY <1>1, <3>2 DEF ReadSeat, StaysOut
  <2>2. CASE Answer(c)
    BY <1>1, <2>2, AnswerShape DEF ReadSeat, StaysOut
  <2> QED BY <1>1, <2>1, <2>2 DEF ReadSeat
<1>2. CASE ObserveSeat(c)
  BY <1>2, AnswerShape DEF ObserveSeat, StaysOut
<1>3. CASE TakeGate(c)
  <2>1. CASE ToldToStop
    BY <1>3, <2>1, AnswerShape DEF TakeGate, Enter, StaysOut
  <2>2. CASE ~ToldToStop
    <3>1. Goto(c, "read") /\ gate' = c
      BY <1>3, <2>2 DEF TakeGate, Enter
    <3> QED BY <1>3, <2>2, <3>1, GotoShape DEF TakeGate, GoesIn, ToldToStop
  <2> QED BY <2>1, <2>2
<1>4. CASE GateTimesOut(c)
  BY <1>4, AnswerShape DEF GateTimesOut, StaysOut
<1>5. CASE ReadCurrent(c)
  <2>1. CASE /\ job' = [job EXCEPT ![c].at = "seen", ![c].current = comp]
             /\ UNCHANGED gate
    <3>1. job' = [job EXCEPT ![c] = [job[c] EXCEPT !.at = "seen", !.current = comp]]
      BY <2>1
    <3>2. job'[c].at = "seen" /\ Alone(c)
      BY <3>1 DEF TypeOK, Job, Alone
    <3> QED BY <1>5, <2>1, <3>2 DEF ReadCurrent, StaysIn
  <2>2. CASE Leave(c)
    BY <1>5, <2>2, AnswerShape DEF ReadCurrent, Leave, GoesOut
  <2> QED BY <1>5, <2>1, <2>2 DEF ReadCurrent
<1>6. CASE ObserveCurrent(c)
  BY <1>6, GotoShape DEF ObserveCurrent, StaysIn
<1>7. CASE CaptureCurrent(c)
  <2>1. CASE MayTakeOver(c) /\ ~ToldToStop
    <3>1. job' = [job EXCEPT ![c] = [job[c] EXCEPT !.at = FirstStep(c),
                                                   !.captured = Capture(job[c].current)]]
      BY <1>7, <2>1 DEF CaptureCurrent
    <3>2. job'[c].at = FirstStep(c) /\ Alone(c)
      BY <3>1 DEF TypeOK, Job, Alone
    <3> QED BY <1>7, <2>1, <3>2 DEF CaptureCurrent, StaysIn, FirstStep
  <2>2. CASE ~(MayTakeOver(c) /\ ~ToldToStop)
    <3>1. Answer(c) /\ gate' = Free
      BY <1>7, <2>2 DEF CaptureCurrent, Leave
    <3> QED BY <1>7, <3>1, AnswerShape DEF CaptureCurrent, GoesOut
  <2> QED BY <2>1, <2>2
<1>8. CASE Clear(c)
  BY <1>8, GoesOnOrUndoes DEF Clear
<1>9. CASE Change(c)
  BY <1>9, GoesOnOrUndoes DEF Change
<1>10. CASE Confirm(c)
  BY <1>10, GoesOnOrUndoes DEF Confirm
<1>11. CASE ShareDone(c)
  BY <1>11, AnswerShape DEF ShareDone, Leave, GoesOut
<1>12. CASE PutBack(c)
  <2>1. CASE Goto(c, "verify") /\ UNCHANGED <<gate, lost>>
    BY <1>12, <2>1, GotoShape DEF PutBack, StaysIn
  <2>2. CASE Leave(c) /\ lost' = TRUE
    BY <1>12, <2>2, AnswerShape DEF PutBack, Leave, GoesOut
  <2> QED BY <1>12, <2>1, <2>2 DEF PutBack
<1>13. CASE Verify(c)
  BY <1>13, AnswerShape DEF Verify, Leave, GoesOut
<1> QED BY <1>1, <1>2, <1>3, <1>4, <1>5, <1>6, <1>7, <1>8, <1>9, <1>10, <1>11, <1>12,
           <1>13 DEF Work

-----------------------------------------------------------------------------
(* The gate. *)

(* What a connection asks starts outside the gate. *)
LEMMA AskShape ==
    ASSUME TypeOK, NEW c \in Conns, Ask(c)
    PROVE  /\ Alone(c)
           /\ job[c].at \notin Inside
           /\ job'[c].at \notin Inside
           /\ ~Stopping
           /\ UNCHANGED <<comp, gate, phase, outcome, outside>>
<1> USE DEF Inside, Changing, At
<1>1. CASE AskSeat(c)
  BY <1>1, GotoShape DEF AskSeat
<1>2. ASSUME NEW v \in Absolute \cup {None, Published}, AskShare(c, v)
      PROVE  /\ Alone(c) /\ job[c].at \notin Inside /\ job'[c].at \notin Inside /\ ~Stopping
             /\ UNCHANGED <<comp, gate, phase, outcome, outside>>
  <2>1. job' = [job EXCEPT ![c] = [job[c] EXCEPT !.at = "gate", !.wanted = v]]
    BY <1>2 DEF AskShare
  <2>2. job'[c].at = "gate" /\ Alone(c)
    BY <2>1 DEF TypeOK, Job, Alone
  <2> QED BY <1>2, <2>2 DEF AskShare
<1>3. ASSUME NEW v \in Values, Configure(c, v)
      PROVE  /\ Alone(c) /\ job[c].at \notin Inside /\ job'[c].at \notin Inside /\ ~Stopping
             /\ UNCHANGED <<comp, gate, phase, outcome, outside>>
  BY <1>3 DEF Configure, Alone
<1> QED BY <1>1, <1>2, <1>3 DEF Ask

(* Whoever is inside holds the gate, and it is passed on only when free. *)
LEMMA GateStep == TypeOK /\ GateIsHeld /\ [Next]_vars => GateIsHeld'
<1> SUFFICES ASSUME TypeOK, GateIsHeld, [Next]_vars PROVE GateIsHeld'
  OBVIOUS
<1> USE DEF GateIsHeld
<1>1. ASSUME NEW c \in Conns, Ask(c) PROVE GateIsHeld'
  BY <1>1, AskShape DEF Alone
<1>2. ASSUME NEW c \in Conns, Work(c) PROVE GateIsHeld'
  <2>1. Alone(c) /\ UNCHANGED phase
    BY <1>2, WorkShape
  <2>2. CASE StaysOut(c)
    BY <2>1, <2>2 DEF StaysOut, Alone
  <2>3. CASE GoesIn(c)
    BY <2>1, <2>3, Distinct DEF GoesIn, Alone, Inside, Stopping, Restoring
  <2>4. CASE StaysIn(c)
    BY <2>1, <2>4 DEF StaysIn, Alone
  <2>5. CASE GoesOut(c)
    <3>1. job'[c].at \notin Inside
      BY <2>5 DEF GoesOut, Idle, Inside, Changing
    <3>2. gate = c /\ gate' = Free
      BY <2>5 DEF GoesOut
    <3>3. phase \notin Restoring
      BY <3>2, Distinct
    <3> QED BY <2>1, <3>1, <3>2, <3>3, Distinct DEF Alone
  <2> QED BY <1>2, WorkShape, <2>2, <2>3, <2>4, <2>5
<1>3. CASE BeginStop
  BY <1>3 DEF BeginStop, Restoring
<1>4. CASE Shutdown
  BY <1>4, Distinct DEF Shutdown, StopTakesGate, StopLooks, StopWrites, StopChecks,
     StopGivesUp, Exit, Finish, Restoring
<1>5. CASE WatchdogFires
  BY <1>5 DEF WatchdogFires, Restoring
<1>6. ASSUME NEW v \in UserFiles \cup {None}, UserSets(v) PROVE GateIsHeld'
  BY <1>6 DEF UserSets
<1>7. CASE UNCHANGED vars
  BY <1>7 DEF vars
<1> QED BY <1>1, <1>2, <1>3, <1>4, <1>5, <1>6, <1>7 DEF Next

(* The initial states satisfy it: nobody is inside. *)
LEMMA InitGate == Init => GateIsHeld
BY Distinct DEF Init, GateIsHeld, Idle, Inside, Changing, Restoring

(* The gate is exclusive: a share and the restore of a shutdown never interleave
   between capturing the setting and leaving it, nor do two shares. *)
THEOREM GateExcludes == Spec => [](TypeOK /\ GateIsHeld)
<1>1. Init => TypeOK /\ GateIsHeld
  BY InitType, InitGate
<1>2. TypeOK /\ GateIsHeld /\ [Next]_vars => (TypeOK /\ GateIsHeld)'
  BY TypeStep, GateStep
<1> QED BY <1>1, <1>2, PTL DEF Spec

(* The types are correct: in particular what a failure puts back is never the
   helper's own file. *)
THEOREM TypeCorrect == Spec => []TypeOK
BY GateExcludes, PTL

-----------------------------------------------------------------------------
(* What the holder knows. *)

(* HolderKnows for one worker. *)
Knows(c) ==
    /\ job[c].at = "confirmed" /\ ~outside => comp = job[c].wanted
    /\ job[c].at \in {"seen", "capture", "clear"} /\ ~outside => comp = job[c].current
    /\ job[c].at = "write" /\ ~outside => comp \in {job[c].current, None}
    /\ /\ job[c].at \in {"clear", "write"}
       /\ job[c].wanted = Published
       /\ job[c].current # Published
       => Restorable(job[c].current)

(* A worker's own step keeps what it knows: each place of a transaction is
   reached only after what is known there was read or written. *)
LEMMA OwnKnowledge ==
    ASSUME TypeOK, NEW c \in Conns, Knows(c), Work(c)
    PROVE  Knows(c)'
<1> USE DEF Inside, Changing, At
<1>0. job[c] \in Job
  BY DEF TypeOK
<1>1. ASSUME job'[c].at \notin {"confirmed", "seen", "capture", "clear", "write"}
      PROVE  Knows(c)'
  BY <1>1 DEF Knows
<1>2. ASSUME Answer(c) PROVE Knows(c)'
  BY <1>1, <1>2, AnswerShape
<1>3. ASSUME Undo(c) PROVE Knows(c)'
  <2>1. CASE Restorable(job[c].captured)
    <3>1. Goto(c, "putBack")
      BY <1>3, <2>1 DEF Undo
    <3> QED BY <1>1, <3>1, GotoShape
  <2>2. CASE ~Restorable(job[c].captured)
    BY <1>2, <1>3, <2>2 DEF Undo, Leave
  <2> QED BY <2>1, <2>2
<1>4. CASE ReadSeat(c)
  <2>1. CASE job' = [job EXCEPT ![c].at = "observe", ![c].current = comp]
    <3>1. job' = [job EXCEPT ![c] = [job[c] EXCEPT !.at = "observe", !.current = comp]]
      BY <2>1
    <3>2. job'[c].at = "observe"
      BY <3>1 DEF TypeOK, Job
    <3> QED BY <1>1, <3>2
  <2> QED BY <1>2, <1>4, <2>1 DEF ReadSeat
<1>5. CASE ObserveSeat(c) \/ GateTimesOut(c)
  BY <1>2, <1>5 DEF ObserveSeat, GateTimesOut
<1>6. CASE TakeGate(c)
  <2>1. CASE ~ToldToStop
    <3>1. Goto(c, "read")
      BY <1>6, <2>1 DEF TakeGate, Enter
    <3> QED BY <1>1, <3>1, GotoShape
  <2> QED BY <1>2, <1>6, <2>1 DEF TakeGate, Enter
<1>7. CASE ReadCurrent(c)
  <2>1. CASE job' = [job EXCEPT ![c].at = "seen", ![c].current = comp]
    <3>1. job' = [job EXCEPT ![c] = [job[c] EXCEPT !.at = "seen", !.current = comp]]
      BY <2>1
    <3>2. job'[c].at = "seen" /\ job'[c].current = comp
      BY <3>1, <1>0 DEF TypeOK, Job
    <3> QED BY <1>7, <3>2 DEF ReadCurrent, Knows
  <2> QED BY <1>2, <1>7, <2>1 DEF ReadCurrent, Leave
<1>8. CASE ObserveCurrent(c)
  BY <1>8, GotoShape DEF ObserveCurrent, Knows
<1>9. CASE CaptureCurrent(c)
  <2>1. CASE MayTakeOver(c) /\ ~ToldToStop
    <3>1. job' = [job EXCEPT ![c] = [job[c] EXCEPT !.at = FirstStep(c),
                                                   !.captured = Capture(job[c].current)]]
      BY <1>9, <2>1 DEF CaptureCurrent
    <3>2. /\ job'[c].at \in {"clear", "write"}
          /\ job'[c].current = job[c].current
          /\ job'[c].wanted = job[c].wanted
      BY <3>1, <1>0 DEF TypeOK, Job, FirstStep
    <3>3. ~outside => comp = job[c].current
      BY <1>9 DEF CaptureCurrent, Knows
    <3>4. job[c].wanted = Published /\ job[c].current # Published => Restorable(job[c].current)
      BY <2>1 DEF MayTakeOver, Capture
    <3> QED BY <1>9, <3>2, <3>3, <3>4 DEF CaptureCurrent, Knows, Restorable
  <2> QED BY <1>2, <1>9, <2>1 DEF CaptureCurrent, Leave
<1>10. CASE Clear(c)
  <2>1. CASE Goto(c, "write")
    BY <1>10, <2>1, GotoShape DEF Clear, Written, Knows, Restorable
  <2> QED BY <1>3, <1>10, <2>1 DEF Clear, Proceed
<1>11. CASE Change(c)
  <2>1. CASE Goto(c, "confirm")
    BY <1>1, <2>1, GotoShape
  <2> QED BY <1>3, <1>11, <2>1 DEF Change, Proceed
<1>12. CASE Confirm(c)
  <2>1. CASE ReadsBack(c) /\ Goto(c, "confirmed")
    BY <1>12, <2>1, GotoShape DEF Confirm, ReadsBack, Knows
  <2> QED BY <1>3, <1>12, <2>1 DEF Confirm, Proceed
<1>13. CASE ShareDone(c)
  BY <1>2, <1>13 DEF ShareDone, Leave
<1>14. CASE PutBack(c)
  <2>1. CASE Goto(c, "verify")
    BY <1>1, <2>1, GotoShape
  <2> QED BY <1>2, <1>14, <2>1 DEF PutBack, Leave
<1>15. CASE Verify(c)
  BY <1>2, <1>15 DEF Verify, Leave
<1> QED BY <1>4, <1>5, <1>6, <1>7, <1>8, <1>9, <1>10, <1>11, <1>12, <1>13, <1>14, <1>15
    DEF Work

(* Outside the gate a worker writes nothing to the compositor. *)
LEMMA OnlyInsideWrites ==
    ASSUME TypeOK, NEW c \in Conns, Work(c), comp' # comp
    PROVE  job[c].at \in Changing
BY DEF Work, ReadSeat, ObserveSeat, TakeGate, GateTimesOut, ReadCurrent, ObserveCurrent,
       CaptureCurrent, Clear, Change, Confirm, ShareDone, PutBack, Verify, Changing, At

(* Every step keeps what every holder knows: nobody else moves the compositor
   while it is inside, except the user. *)
LEMMA KnowsStep ==
    ASSUME TypeOK, GateIsHeld, HolderKnows, [Next]_vars
    PROVE  HolderKnows'
<1> SUFFICES ASSUME NEW c \in Conns PROVE Knows(c)'
  BY DEF HolderKnows, Knows
<1>0. Knows(c)
  BY DEF HolderKnows, Knows
<1>1. ASSUME job[c].at \notin Inside, job'[c] = job[c] PROVE Knows(c)'
  BY <1>1 DEF Knows, Inside, Changing
<1>2. ASSUME UNCHANGED comp, outside' = outside \/ outside', job'[c] = job[c] PROVE Knows(c)'
  BY <1>0, <1>2 DEF Knows, Restorable
<1>3. ASSUME NEW d \in Conns, Ask(d) PROVE Knows(c)'
  <2>1. CASE d = c
    BY <1>3, <2>1, AskShape DEF Knows, Inside, Changing
  <2>2. CASE d # c
    BY <1>2, <1>3, <2>2, AskShape DEF Alone
  <2> QED BY <2>1, <2>2
<1>4. ASSUME NEW d \in Conns, Work(d), d # c PROVE Knows(c)'
  <2>1. job'[c] = job[c]
    BY <1>4, WorkShape DEF Alone
  <2>2. CASE job[d].at \in Inside \/ gate = Free
    BY <1>1, <1>4, <2>1, <2>2, Distinct DEF GateIsHeld
  <2>3. CASE job[d].at \notin Inside /\ gate # Free
    <3>1. StaysOut(d)
      BY <1>4, <2>3, WorkShape DEF GoesIn, StaysIn, GoesOut
    <3> QED BY <1>2, <2>1, <3>1 DEF StaysOut
  <2> QED BY <2>2, <2>3
<1>5. CASE BeginStop \/ WatchdogFires
  BY <1>2, <1>5 DEF BeginStop, WatchdogFires
<1>6. CASE Shutdown
  <2>1. job'[c] = job[c]
    BY <1>6 DEF Shutdown, StopTakesGate, StopLooks, StopWrites, StopChecks, StopGivesUp, Exit
  <2>2. CASE gate \in {Free, Stop}
    BY <1>1, <2>1, <2>2, Distinct DEF GateIsHeld
  <2>3. CASE gate \notin {Free, Stop}
    <3>1. UNCHANGED <<comp, outside>>
      BY <1>6, <2>3 DEF Shutdown, StopTakesGate, StopLooks, StopWrites, StopChecks,
         StopGivesUp, Exit, GateIsHeld, Restoring
    <3> QED BY <1>2, <2>1, <3>1
  <2> QED BY <2>2, <2>3
<1>7. ASSUME NEW v \in UserFiles \cup {None}, UserSets(v) PROVE Knows(c)'
  BY <1>0, <1>7 DEF UserSets, Knows, Restorable
<1>8. CASE UNCHANGED vars
  BY <1>2, <1>8 DEF vars
<1> QED BY <1>0, <1>3, <1>4, OwnKnowledge, <1>5, <1>6, <1>7, <1>8 DEF Next

-----------------------------------------------------------------------------
(* The restore. *)

(* Once the restore has finished it stays finished: a share still waiting is
   turned away, and no new one is accepted. *)
LEMMA FinalStep ==
    ASSUME TypeOK, GateIsHeld, RestoreIsFinal, [Next]_vars
    PROVE  RestoreIsFinal'
<1> USE DEF RestoreIsFinal
<1>1. ASSUME NEW c \in Conns, Ask(c) PROVE RestoreIsFinal'
  BY <1>1, AskShape DEF Stopping
<1>2. ASSUME NEW c \in Conns, Work(c) PROVE RestoreIsFinal'
  <2>1. Alone(c) /\ UNCHANGED <<phase, outcome>>
    BY <1>2, WorkShape
  <2>2. CASE StaysOut(c) \/ StaysIn(c)
    BY <2>1, <2>2 DEF StaysOut, StaysIn, Alone
  <2>3. CASE GoesIn(c)
    BY <2>1, <2>3 DEF GoesIn, Stopping
  <2>4. CASE GoesOut(c)
    BY <2>1, <2>4 DEF GoesOut
  <2> QED BY <1>2, WorkShape, <2>2, <2>3, <2>4
<1>3. CASE BeginStop \/ WatchdogFires
  BY <1>3 DEF BeginStop, WatchdogFires
<1>4. CASE Shutdown
  BY <1>4, Distinct DEF Shutdown, StopTakesGate, StopLooks, StopWrites, StopChecks,
     StopGivesUp, Exit, Finish, GateIsHeld, Restoring
<1>5. ASSUME NEW v \in UserFiles \cup {None}, UserSets(v) PROVE RestoreIsFinal'
  BY <1>5 DEF UserSets
<1>6. CASE UNCHANGED vars
  BY <1>6 DEF vars
<1> QED BY <1>1, <1>2, <1>3, <1>4, <1>5, <1>6 DEF Next

(* What the restore writes is the user's, never the helper's file. *)
LEMMA GivenBackIsTheUsers ==
    ASSUME TypeOK
    PROVE  /\ ShutdownValue # Published
           /\ ShutdownValue = IF record \in Absolute THEN record ELSE None
BY Distinct DEF TypeOK, ShutdownValue, Restorable

(* After a restore that found or put the setting off the helper's file, no step
   points it back; and until the user changes it, it is what was recorded. *)
LEMMA LeavingStep ==
    ASSUME TypeOK, GateIsHeld, RestoreIsFinal,
           StopLeavesNothingPublished, StopGivesBackTheRecord, [Next]_vars
    PROVE  (StopLeavesNothingPublished /\ StopGivesBackTheRecord)'
<1> USE DEF StopLeavesNothingPublished, StopGivesBackTheRecord
<1>1. ASSUME NEW c \in Conns, Ask(c)
      PROVE  (StopLeavesNothingPublished /\ StopGivesBackTheRecord)'
  BY <1>1, AskShape DEF RestoreIsFinal, Stopping
<1>2. ASSUME NEW c \in Conns, Work(c)
      PROVE  (StopLeavesNothingPublished /\ StopGivesBackTheRecord)'
  <2>1. UNCHANGED <<record, phase, outcome>>
    BY <1>2, WorkShape
  <2>2. CASE outcome \notin {"notOurs", "restored"}
    BY <2>1, <2>2
  <2>3. CASE outcome \in {"notOurs", "restored"}
    <3>1. job[c].at \notin Inside /\ Stopping
      BY <2>3 DEF RestoreIsFinal, Stopping
    <3>2. StaysOut(c)
      BY <1>2, <3>1, WorkShape DEF GoesIn, StaysIn, GoesOut
    <3> QED BY <2>1, <3>2 DEF StaysOut
  <2> QED BY <2>2, <2>3
<1>3. CASE BeginStop \/ WatchdogFires
  BY <1>3 DEF BeginStop, WatchdogFires
<1>4. CASE Shutdown
  <2>1. CASE StopTakesGate
    BY <2>1 DEF StopTakesGate, RestoreIsFinal
  <2>2. CASE StopLooks
    BY <2>2 DEF StopLooks, Finish, RestoreIsFinal
  <2>3. CASE StopWrites
    BY <2>3 DEF StopWrites, Finish, RestoreIsFinal
  <2>4. CASE StopChecks
    BY <2>4, GivenBackIsTheUsers DEF StopChecks, Finish, RestoreIsFinal
  <2>5. CASE StopGivesUp
    BY <2>5 DEF StopGivesUp
  <2>6. CASE Exit
    BY <2>6 DEF Exit
  <2> QED BY <1>4, <2>1, <2>2, <2>3, <2>4, <2>5, <2>6 DEF Shutdown
<1>5. ASSUME NEW v \in UserFiles \cup {None}, UserSets(v)
      PROVE  (StopLeavesNothingPublished /\ StopGivesBackTheRecord)'
  BY <1>5, Distinct DEF UserSets
<1>6. CASE UNCHANGED vars
  BY <1>6 DEF vars
<1> QED BY <1>1, <1>2, <1>3, <1>4, <1>5, <1>6 DEF Next

-----------------------------------------------------------------------------
(* The inductive invariant, and what follows from it. *)

IInv ==
    /\ TypeOK
    /\ GateIsHeld
    /\ HolderKnows
    /\ RestoreIsFinal
    /\ StopLeavesNothingPublished
    /\ StopGivesBackTheRecord

(* The inductive invariant holds of the initial states. *)
LEMMA InitIInv == Init => IInv
<1> SUFFICES ASSUME Init PROVE IInv
  OBVIOUS
<1>1. HolderKnows
  BY DEF Init, HolderKnows, Idle
<1>2. RestoreIsFinal /\ StopLeavesNothingPublished /\ StopGivesBackTheRecord
  BY DEF Init, RestoreIsFinal, StopLeavesNothingPublished, StopGivesBackTheRecord
<1> QED BY <1>1, <1>2, InitType, InitGate DEF IInv

(* The inductive invariant holds of every behaviour. *)
THEOREM Invariant == Spec => []IInv
<1>1. IInv /\ [Next]_vars => IInv'
  BY TypeStep, GateStep, KnowsStep, FinalStep, LeavingStep DEF IInv
<1> QED BY InitIInv, <1>1, PTL DEF Spec

(* A helper that left in order, whatever shares were under way, leaves the
   compositor off its own file. *)
THEOREM NothingIsLeftPublished == Spec => []StopLeavesNothingPublished
<1>1. IInv => StopLeavesNothingPublished
  BY DEF IInv
<1> QED BY Invariant, <1>1, PTL

(* What the restore gives back is what was recorded, when it can be given back. *)
THEOREM TheRecordIsGivenBack == Spec => []StopGivesBackTheRecord
<1>1. IInv => StopGivesBackTheRecord
  BY DEF IInv
<1> QED BY Invariant, <1>1, PTL

(* The verdict of a share tells the truth: an `ok` is answered while the value
   is in place. *)
THEOREM OkIsTrue == Spec => OkMeansInPlace
<1>1. IInv /\ [Next]_vars =>
        [\A c \in Conns :
            At(c, "confirmed") /\ job'[c] = Idle /\ ~outside => comp' = job[c].wanted]_vars
  <2> SUFFICES ASSUME IInv, Next, NEW c \in Conns,
                      At(c, "confirmed"), job'[c] = Idle, ~outside
               PROVE  comp' = job[c].wanted
    OBVIOUS
  <2> USE DEF Inside, Changing
  <2>1. comp = job[c].wanted /\ TypeOK /\ gate = c /\ phase \notin Restoring
    BY Distinct DEF IInv, HolderKnows, GateIsHeld, At
  <2>2. job'[c] # job[c]
    BY DEF At, Idle
  <2>3. ASSUME NEW d \in Conns, Ask(d) \/ Work(d) PROVE comp' = comp
    <3>1. d = c
      BY <2>1, <2>2, <2>3, AskShape, WorkShape DEF Alone
    <3> QED BY <2>1, <2>3, <3>1, AskShape, OnlyInsideWrites DEF At
  <2>4. ASSUME BeginStop \/ Shutdown \/ WatchdogFires PROVE FALSE
    BY <2>2, <2>4 DEF BeginStop, Shutdown, StopTakesGate, StopLooks, StopWrites, StopChecks,
       StopGivesUp, Exit, WatchdogFires
  <2>5. ASSUME NEW v \in UserFiles \cup {None}, UserSets(v) PROVE FALSE
    BY <2>2, <2>5 DEF UserSets
  <2> QED BY <2>1, <2>3, <2>4, <2>5 DEF Next
<1> QED BY Invariant, <1>1, PTL DEF Spec, OkMeansInPlace

(* A share that fails leaves no trace: it ends only where its put-back was read
   back, or where it says that it was not. *)
THEOREM FailureIsUndone == Spec => FailureLeavesNoTrace
<1>1. IInv /\ [Next]_vars =>
        [\A c \in Conns :
            job[c].at \in Changing /\ job'[c] = Idle /\ ~lost' /\ ~outside
            => comp' \in {job[c].current, job[c].captured}]_vars
  <2> SUFFICES ASSUME IInv, Next, NEW c \in Conns,
                      job[c].at \in Changing, job'[c] = Idle, ~lost', ~outside
               PROVE  comp' = job[c].captured
    OBVIOUS
  <2> USE DEF Inside, Changing, At
  <2>1. TypeOK
    BY DEF IInv
  <2>2. job'[c] # job[c] /\ job'[c].at = "idle"
    BY DEF Idle
  <2>3. ASSUME NEW d \in Conns, Ask(d) PROVE FALSE
    BY <2>1, <2>2, <2>3, AskShape DEF Alone
  <2>4. ASSUME NEW d \in Conns, Work(d) PROVE comp' = job[c].captured
    <3>1. Work(c)
      BY <2>1, <2>2, <2>4, WorkShape DEF Alone
    <3>2. ASSUME NEW where \in Changing \cup {"confirmed"}, Proceed(c, where) PROVE FALSE
      BY <2>1, <2>2, <3>2, GotoShape DEF Proceed
    <3>3. ~Undo(c)
      BY <2>1, <2>2, GotoShape DEF Undo
    <3>4. ~Clear(c) /\ ~Change(c) /\ ~Confirm(c)
      BY <3>2, <3>3 DEF Clear, Change, Confirm
    <3>5. ~PutBack(c)
      BY <2>1, <2>2, GotoShape DEF PutBack
    <3>6. Verify(c)
      BY <3>1, <3>4, <3>5 DEF Work, ReadSeat, ObserveSeat, TakeGate, GateTimesOut,
         ReadCurrent, ObserveCurrent, CaptureCurrent, ShareDone
    <3> QED BY <3>6 DEF Verify
  <2>5. ASSUME BeginStop \/ Shutdown \/ WatchdogFires PROVE FALSE
    BY <2>2, <2>5 DEF BeginStop, Shutdown, StopTakesGate, StopLooks, StopWrites, StopChecks,
       StopGivesUp, Exit, WatchdogFires
  <2>6. ASSUME NEW v \in UserFiles \cup {None}, UserSets(v) PROVE FALSE
    BY <2>2, <2>6 DEF UserSets
  <2> QED BY <2>3, <2>4, <2>5, <2>6 DEF Next
<1> QED BY Invariant, <1>1, PTL DEF Spec, FailureLeavesNoTrace

(* The helper's file replaces only a value that can be put back. *)
THEOREM OnlyRestorableIsTakenOver == Spec => TakesOverOnlyRestorable
<1>1. IInv /\ [Next]_vars =>
        [comp' = Published /\ comp # Published /\ ~outside => Restorable(comp)]_vars
  <2> SUFFICES ASSUME IInv, Next, comp' = Published, comp # Published, ~outside
               PROVE  Restorable(comp)
    OBVIOUS
  <2> USE DEF Inside, Changing, At
  <2>1. TypeOK /\ HolderKnows
    BY DEF IInv
  <2>2. ASSUME NEW c \in Conns, Work(c) PROVE Restorable(comp)
    <3>1. job[c] \in Job
      BY <2>1 DEF TypeOK
    <3>2. ~Clear(c) /\ ~PutBack(c)
      BY <3>1, Distinct DEF Clear, PutBack, Written, Job
    <3>3. Change(c)
      BY <2>2, <3>2 DEF Work, ReadSeat, ObserveSeat, TakeGate, GateTimesOut, ReadCurrent,
         ObserveCurrent, CaptureCurrent, Confirm, ShareDone, Verify
    <3>4. job[c].at = "write" /\ job[c].wanted = Published
      BY <3>3 DEF Change, Written
    <3>5. comp \in {job[c].current, None}
      BY <2>1, <3>4 DEF HolderKnows
    <3>6. job[c].current # Published => Restorable(job[c].current)
      BY <2>1, <3>4 DEF HolderKnows
    <3> QED BY <3>5, <3>6 DEF Restorable
  <2>3. ASSUME NEW c \in Conns, Ask(c) PROVE FALSE
    BY <2>1, <2>3, AskShape
  <2>4. ASSUME BeginStop \/ Shutdown \/ WatchdogFires PROVE FALSE
    BY <2>1, <2>4, GivenBackIsTheUsers DEF BeginStop, Shutdown, StopTakesGate, StopLooks,
       StopWrites, StopChecks, StopGivesUp, Exit, WatchdogFires, Written
  <2>5. ASSUME NEW v \in UserFiles \cup {None}, UserSets(v) PROVE FALSE
    BY <2>5, Distinct DEF UserSets
  <2> QED BY <2>2, <2>3, <2>4, <2>5 DEF Next
<1> QED BY Invariant, <1>1, PTL DEF Spec, TakesOverOnlyRestorable

-----------------------------------------------------------------------------
(* The panels. *)

Line == [verb : {"seat", "share", "configure", "caps"}, file : Values]
Lines(p) == {wire[p][i] : i \in DOMAIN wire[p]}

(* A share on the wire is one the helper may be asked. *)
Askable ==
    \A p \in Conns : \A line \in Lines(p) :
        line.verb = "share" => line.file \in Absolute \cup {None, Published}

TInv == PanelsTypeOK /\ Askable

-----------------------------------------------------------------------------
(* Sequences, as far as they are looked at. *)

Elems(s) == {s[i] : i \in DOMAIN s}

(* Lines written behind others. *)
LEMMA Joined ==
    ASSUME NEW S, NEW s \in Seq(S), NEW t \in Seq(S)
    PROVE  /\ s \o t \in Seq(S)
           /\ Elems(s \o t) = Elems(s) \cup Elems(t)
<1>1. /\ s \o t \in Seq(S)
      /\ Len(s \o t) = Len(s) + Len(t)
      /\ \A i \in 1 .. Len(s) + Len(t) :
            (s \o t)[i] = IF i <= Len(s) THEN s[i] ELSE t[i - Len(s)]
  BY ConcatProperties
<1>2. /\ Len(s) \in Nat /\ Len(t) \in Nat
      /\ DOMAIN s = 1 .. Len(s) /\ DOMAIN t = 1 .. Len(t)
      /\ DOMAIN (s \o t) = 1 .. Len(s) + Len(t)
  BY <1>1, LenProperties
<1> DEFINE u == s \o t
<1>3. ASSUME NEW i \in DOMAIN s  PROVE s[i] \in Elems(u)
  <2>1. i \in 1 .. Len(s) + Len(t) /\ i <= Len(s)
    BY <1>2
  <2>2. i \in DOMAIN u /\ u[i] = s[i]
    BY <1>1, <1>2, <2>1
  <2> HIDE DEF u
  <2> QED BY <2>2 DEF Elems
<1>4. ASSUME NEW i \in DOMAIN t  PROVE t[i] \in Elems(u)
  <2>1. i + Len(s) \in 1 .. Len(s) + Len(t) /\ ~(i + Len(s) <= Len(s)) /\ (i + Len(s)) - Len(s) = i
    BY <1>2
  <2>2. i + Len(s) \in DOMAIN u /\ u[i + Len(s)] = t[i]
    BY <1>1, <1>2, <2>1
  <2> HIDE DEF u
  <2> QED BY <2>2 DEF Elems
<1>5. ASSUME NEW i \in DOMAIN u  PROVE u[i] \in Elems(s) \cup Elems(t)
  <2>1. i \in 1 .. Len(s) + Len(t)
    BY <1>2
  <2>2. CASE i <= Len(s)
    BY <1>1, <1>2, <2>1, <2>2 DEF Elems
  <2>3. CASE ~(i <= Len(s))
    <3>1. i - Len(s) \in DOMAIN t /\ u[i] = t[i - Len(s)]
      BY <1>1, <1>2, <2>1, <2>3
    <3> HIDE DEF u
    <3> QED BY <3>1 DEF Elems
  <2> QED BY <2>2, <2>3
<1> HIDE DEF u
<1>6. Elems(u) = Elems(s) \cup Elems(t)
  BY <1>3, <1>4, <1>5 DEF Elems
<1> QED BY <1>1, <1>6 DEF u

(* The oldest line, and what is behind it. *)
LEMMA Popped ==
    ASSUME NEW S, NEW s \in Seq(S), s # <<>>
    PROVE  /\ Tail(s) \in Seq(S) /\ Head(s) \in S
           /\ Head(s) \in Elems(s)
           /\ Elems(Tail(s)) \subseteq Elems(s)
<1>1. /\ Head(s) \in S
      /\ Tail(s) \in Seq(S)
      /\ Len(Tail(s)) = Len(s)-1
      /\ \A i \in 1 .. Len(Tail(s)) : Tail(s)[i] = s[i+1]
  BY HeadTailProperties
<1>2. /\ Len(s) \in Nat /\ DOMAIN s = 1 .. Len(s) /\ Len(s) # 0
      /\ DOMAIN Tail(s) = 1 .. Len(s) - 1
      /\ Head(s) = s[1]
  BY <1>1, LenProperties
<1>3. Head(s) \in Elems(s)
  BY <1>2 DEF Elems
<1>4. ASSUME NEW i \in DOMAIN Tail(s)  PROVE Tail(s)[i] \in Elems(s)
  <2>1. i + 1 \in DOMAIN s /\ Tail(s)[i] = s[i + 1]
    BY <1>1, <1>2
  <2> QED BY <2>1 DEF Elems
<1> QED BY <1>1, <1>3, <1>4 DEF Elems

(* No line, and one. *)
LEMMA Few ==
    /\ \A S : <<>> \in Seq(S)
    /\ Elems(<<>>) = {}
    /\ \A S : \A x \in S : <<x>> \in Seq(S) /\ Elems(<<x>>) = {x}
  BY DEF Elems

(* What is on the wire is what the sequence holds. *)
LEMMA LinesAreElems == ASSUME NEW p PROVE Lines(p) = Elems(wire[p])
  BY DEF Lines, Elems

-----------------------------------------------------------------------------
(* A step of a panel: what it becomes, and what it writes. *)

Says(p, m, lines, a) ==
    /\ panel' = [panel EXCEPT ![p] = m]
    /\ wire' = [wire EXCEPT ![p] = @ \o lines]
    /\ answer' = [answer EXCEPT ![p] = a]
    /\ UNCHANGED <<sharing, users, edits>>

(* Types of what the helper answers, and of what a panel may write. *)
Reply == [word : {"none", "seat", "noSeat", "configured", "refused", "facts",
                  "ok", "failed", "unrestorable"},
          file : Values]

(* A connection's panel, lines and answer, as the type invariant has them. *)
LEMMA Typed ==
    ASSUME PanelsTypeOK, NEW p \in Conns
    PROVE  /\ panel[p] \in Panel /\ wire[p] \in Seq(Line) /\ answer[p] \in Reply
           /\ DOMAIN panel = Conns /\ DOMAIN wire = Conns /\ DOMAIN answer = Conns
           /\ wire \in [Conns -> Seq(Line)] /\ panel \in [Conns -> Panel]
           /\ answer \in [Conns -> Reply]
           /\ record \in UserFiles \cup {None}
  BY DEF PanelsTypeOK, TypeOK, Line, Reply

(* What a panel writes, and what says nothing, is well typed. *)
LEMMA PlainLines ==
    /\ Nothing \in Reply /\ Seat \in Line /\ Caps \in Line
    /\ Seat.verb = "seat" /\ Caps.verb = "caps"
    /\ \A v \in Values : /\ Share(v) \in Line /\ Share(v).verb = "share" /\ Share(v).file = v
                         /\ Configured(v) \in Line /\ Configured(v).verb = "configure"
                         /\ Configured(v).file = v
    /\ Nothing.word = "none"
  BY Distinct DEF Nothing, Reply, Seat, Caps, Line, Share, Configured

(* A step that writes nothing says nothing. *)
LEMMA SilentSays ==
    ASSUME PanelsTypeOK, NEW p \in Conns, NEW m, NEW a,
           panel' = [panel EXCEPT ![p] = m], UNCHANGED wire,
           answer' = [answer EXCEPT ![p] = a], UNCHANGED <<sharing, users, edits>>
    PROVE  Says(p, m, <<>>, a)
<1>1. wire[p] \o <<>> = wire[p]
  BY Typed, ConcatEmptySeq
<1>2. wire = [wire EXCEPT ![p] = wire[p]]
  BY Typed
<1> QED BY <1>1, <1>2 DEF Says

(* What a step of a panel says keeps the types. *)
LEMMA SayingType ==
    ASSUME TInv, NEW p \in Conns, NEW m \in Panel, NEW lines \in Seq(Line), NEW a \in Reply,
           Says(p, m, lines, a),
           \A line \in Elems(lines) :
               line.verb = "share" => line.file \in Absolute \cup {None, Published}
    PROVE  TInv'
<1>1. PanelsTypeOK
  BY DEF TInv
<1>2. wire[p] \o lines \in Seq(Line) /\ Elems(wire[p] \o lines) = Elems(wire[p]) \cup Elems(lines)
  BY <1>1, Typed, Joined
<1>3. wire' \in [Conns -> Seq(Line)] /\ wire'[p] = wire[p] \o lines
      /\ \A q \in Conns \ {p} : wire'[q] = wire[q]
  BY <1>1, <1>2, Typed DEF Says
<1>4. panel' \in [Conns -> Panel] /\ answer' \in [Conns -> Reply]
  BY <1>1, Typed DEF Says
<1>5. TypeOK'
  BY <1>1 DEF Says, sharing, PanelsTypeOK, TypeOK
<1>6. PanelsTypeOK'
  BY <1>1, <1>3, <1>4, <1>5 DEF Says, PanelsTypeOK, Line, Reply
<1>7. Askable'
  <2> SUFFICES ASSUME NEW q \in Conns, NEW line \in Elems(wire'[q]), line.verb = "share"
               PROVE  line.file \in Absolute \cup {None, Published}
    BY DEF Askable, Lines, Elems
  <2>1. line \in Elems(wire[q]) \/ (q = p /\ line \in Elems(lines))
    BY <1>2, <1>3
  <2> QED BY <2>1, LinesAreElems DEF TInv, Askable
<1> QED BY <1>6, <1>7 DEF TInv

-----------------------------------------------------------------------------
(* The steps of a panel, one by one. *)

(* What a panel takes over from the record, and what it leaves as it was. *)
LEMMA Recovered ==
    ASSUME NEW m \in Panel
    PROVE  /\ Recover(m) \in Panel
           /\ Recover(m).mem = IF m.mem = None /\ ~m.observed /\ record \in Existing
                                 THEN record ELSE m.mem
           /\ Recover(m).life = m.life /\ Recover(m).observed = m.observed
           /\ Recover(m).literal = m.literal /\ Recover(m).facts = m.facts
           /\ Recover(m).shared = m.shared /\ Recover(m).run = m.run
<1>1. ASSUME NEW f \in Existing \cup {None}
      PROVE  LET n == [m EXCEPT !.mem = f]
             IN  /\ n \in Panel /\ n.mem = f
                 /\ n.life = m.life /\ n.observed = m.observed
                 /\ n.literal = m.literal /\ n.facts = m.facts
                 /\ n.shared = m.shared /\ n.run = m.run
  BY DEF Panel
<1> QED BY <1>1 DEF Recover

(* A panel that opens asks for a reading; it has at most the record's file. *)
LEMMA OpenSays ==
    ASSUME PanelsTypeOK, NEW p \in Conns, Open(p)
    PROVE  \E b \in Panel :
             /\ Says(p, Recover(b), <<Seat>>, answer[p])
             /\ panel[p].life = "absent" /\ b.life = "live"
             /\ b.mem = panel[p].mem /\ b.observed = panel[p].observed
             /\ b.literal = panel[p].literal /\ b.facts = panel[p].facts
             /\ b.shared = panel[p].shared /\ b.run = panel[p].run
             /\ Overlap \/ \A q \in Conns \ {p} : ~Live(q) /\ Quiet(q)
<1>1. panel[p] \in Panel
  BY Typed
<1> DEFINE b == [panel[p] EXCEPT !.life = "live"]
<1>2. /\ b \in Panel /\ b.life = "live"
      /\ b.mem = panel[p].mem /\ b.observed = panel[p].observed
      /\ b.literal = panel[p].literal /\ b.facts = panel[p].facts
      /\ b.shared = panel[p].shared /\ b.run = panel[p].run
  BY <1>1 DEF Panel
<1>3. panel' = [panel EXCEPT ![p] = Recover(b)]
  BY DEF Open
<1> HIDE DEF b
<1>4. answer' = [answer EXCEPT ![p] = answer[p]]
  BY Typed DEF Open
<1>5. Says(p, Recover(b), <<Seat>>, answer[p])
  BY <1>3, <1>4 DEF Open, Send, Says
<1> QED BY <1>2, <1>5 DEF Open

(* Asking for another reading changes nothing of the panel. *)
LEMMA AskAgainSays ==
    ASSUME PanelsTypeOK, NEW p \in Conns, AskAgain(p)
    PROVE  Says(p, panel[p], <<Seat>>, answer[p]) /\ Live(p)
<1>1. answer' = [answer EXCEPT ![p] = answer[p]] /\ panel' = [panel EXCEPT ![p] = panel[p]]
  BY Typed DEF AskAgain
<1> QED BY <1>1 DEF AskAgain, Send, Says

(* A reading of the published keymap is answered by a configure of what is remembered. *)
LEMMA HearPublishedSays ==
    ASSUME PanelsTypeOK, NEW p \in Conns, HearPublished(p)
    PROVE  /\ Says(p, Recover(panel[p]), <<Configured(Recover(panel[p]).mem)>>, Nothing)
           /\ Live(p) /\ answer[p].word = "seat" /\ answer[p].file = Published
  BY DEF HearPublished, Hear, Send, Says

(* What HearOwn writes ahead of its configure. *)
Again(p) == panel[p].shared /\ panel[p].run = "none"
Ahead(p) == IF Again(p) THEN <<Share(Published)>> ELSE <<>>
Read(p) == IF answer[p].file \in Existing THEN answer[p].file ELSE None

(* A reading of the user's own is remembered, and configured behind any share again. *)
LEMMA HearOwnSays ==
    ASSUME PanelsTypeOK, NEW p \in Conns, HearOwn(p)
    PROVE  \E m \in Panel :
             /\ Says(p, m, Ahead(p) \o <<Configured(Read(p))>>, Nothing)
             /\ Live(p) /\ answer[p].word = "seat" /\ answer[p].file # Published
             /\ m.life = "live" /\ m.mem = Read(p)
             /\ m.observed /\ m.literal = answer[p].file
             /\ m.facts = panel[p].facts /\ m.shared = FALSE
             /\ m.run = IF Again(p) THEN "sent" ELSE panel[p].run
<1>1. panel[p] \in Panel /\ answer[p] \in Reply
  BY Typed
<1>2. PICK f, l, r : /\ f = Read(p) /\ l = answer[p].file
                     /\ r = IF Again(p) THEN "sent" ELSE panel[p].run
  OBVIOUS
<1> DEFINE m == [panel[p] EXCEPT !.observed = TRUE, !.literal = l, !.mem = f,
                                 !.shared = FALSE, !.run = r]
<1>3. f \in Existing \cup {None} /\ l \in UserFiles \cup {None}
      /\ r \in {"none", "sent", "retry"}
  BY <1>1, <1>2 DEF HearOwn, Read, Reply, Values, Panel
<1>4. /\ m \in Panel /\ m.life = panel[p].life /\ m.mem = f
      /\ m.observed = TRUE /\ m.literal = l
      /\ m.facts = panel[p].facts /\ m.shared = FALSE /\ m.run = r
  BY <1>1, <1>3 DEF Panel
<1>5. panel' = [panel EXCEPT ![p] = m]
  <2>1. panel' = [panel EXCEPT ![p] =
                    [panel[p] EXCEPT !.observed = TRUE,
                                     !.literal = answer[p].file,
                                     !.mem = Read(p),
                                     !.shared = FALSE,
                                     !.run = IF Again(p) THEN "sent" ELSE panel[p].run]]
    BY DEF HearOwn, Read, Again
  <2> QED BY <1>2, <2>1
<1> HIDE DEF m
<1>6. Says(p, m, Ahead(p) \o <<Configured(Read(p))>>, Nothing)
  BY <1>5 DEF HearOwn, Hear, Send, Says, Ahead, Again, Read
<1> QED BY <1>2, <1>4, <1>6 DEF HearOwn, Hear, Live

(* The panel has had an answer to more than a reading, or is hearing one. *)
Acked(p) ==
    \/ panel[p].facts \/ panel[p].shared \/ panel[p].run # "none"
    \/ answer[p].word \notin {"none", "seat", "noSeat"}

(* A step that leaves alone what the panel remembers. *)
GoesOn(p, m, lines, a) ==
    /\ Says(p, m, lines, a)
    /\ m \in Panel /\ a \in {answer[p], Nothing}
    /\ Live(p) /\ m.life = "live"
    /\ m.mem = panel[p].mem /\ m.observed = panel[p].observed /\ m.literal = panel[p].literal
    /\ m.facts \/ m.shared \/ m.run # "none" => Acked(p)
    /\ lines \in {<<>>, <<Caps>>, <<Share(Published)>>}
    /\ lines # <<>> => Acked(p)

(* A record's field set to what it was is the same record. *)
LEMMA Same ==
    ASSUME NEW m \in Panel
    PROVE  /\ \A f \in BOOLEAN :
                [m EXCEPT !.facts = f] = [m EXCEPT !.facts = f, !.shared = m.shared, !.run = m.run]
           /\ \A s \in BOOLEAN :
                [m EXCEPT !.shared = s] = [m EXCEPT !.facts = m.facts, !.shared = s, !.run = m.run]
           /\ \A r \in {"none", "sent", "retry"} :
                [m EXCEPT !.run = r] = [m EXCEPT !.facts = m.facts, !.shared = m.shared, !.run = r]
           /\ \A f \in BOOLEAN : \A r \in {"none", "sent", "retry"} :
                [m EXCEPT !.facts = f, !.run = r]
                = [m EXCEPT !.facts = f, !.shared = m.shared, !.run = r]
           /\ \A s \in BOOLEAN : \A r \in {"none", "sent", "retry"} :
                [m EXCEPT !.shared = s, !.run = r]
                = [m EXCEPT !.facts = m.facts, !.shared = s, !.run = r]
           /\ m = [m EXCEPT !.facts = m.facts, !.shared = m.shared, !.run = m.run]
  BY DEF Panel

(* How the flags of the panel and its lines make such a step. *)
LEMMA GoingOn ==
    ASSUME PanelsTypeOK, NEW p \in Conns, Live(p), Acked(p),
           NEW f \in BOOLEAN, NEW s \in BOOLEAN, NEW r \in {"none", "sent", "retry"},
           NEW lines \in {<<>>, <<Caps>>, <<Share(Published)>>}, NEW a \in {answer[p], Nothing},
           panel' = [panel EXCEPT ![p] = [panel[p] EXCEPT !.facts = f, !.shared = s, !.run = r]],
           IF lines = <<>> THEN UNCHANGED wire ELSE Send(p, lines),
           answer' = [answer EXCEPT ![p] = a],
           UNCHANGED <<sharing, users, edits>>
    PROVE  \E m : GoesOn(p, m, lines, a)
<1>1. panel[p] \in Panel
  BY Typed
<1> DEFINE m == [panel[p] EXCEPT !.facts = f, !.shared = s, !.run = r]
<1>2. /\ m \in Panel /\ m.life = panel[p].life /\ m.mem = panel[p].mem
      /\ m.observed = panel[p].observed /\ m.literal = panel[p].literal
  BY <1>1 DEF Panel
<1>3. panel' = [panel EXCEPT ![p] = m]
  OBVIOUS
<1> HIDE DEF m
<1>4. Says(p, m, lines, a)
  <2>1. CASE lines = <<>>
    BY <1>3, <2>1, SilentSays
  <2>2. CASE lines # <<>>
    BY <1>3, <2>2 DEF Send, Says
  <2> QED BY <2>1, <2>2
<1>5. GoesOn(p, m, lines, a)
  BY <1>2, <1>4 DEF GoesOn, Live
<1> QED BY <1>5

(* Every answer but a reading, and the retry, go on so. *)
LEMMA HearingGoesOn ==
    ASSUME PanelsTypeOK, NEW p \in Conns,
           \/ HearNoSeat(p) \/ HearConfigured(p) \/ HearFacts(p) \/ HearRefused(p)
           \/ HearShared(p) \/ HearNotShared(p) \/ Retry(p)
    PROVE  \E m, lines, a : GoesOn(p, m, lines, a)
<1>1. panel[p] \in Panel
  BY Typed
<1>2. PICK f \in BOOLEAN, s \in BOOLEAN, r \in {"none", "sent", "retry"} :
        f = panel[p].facts /\ s = panel[p].shared /\ r = panel[p].run
  BY <1>1 DEF Panel
<1>3. panel = [panel EXCEPT ![p] = panel[p]] /\ <<Caps>> # <<>> /\ <<Share(Published)>> # <<>>
  BY Typed
<1>4. CASE HearNoSeat(p)
  <2>1. panel' = [panel EXCEPT ![p] = panel[p]]
    BY <1>3, <1>4 DEF HearNoSeat
  <2>2. Says(p, panel[p], <<>>, Nothing)
    BY <1>4, <2>1, SilentSays DEF HearNoSeat, Hear
  <2>3. GoesOn(p, panel[p], <<>>, Nothing)
    BY <1>1, <1>4, <2>2 DEF GoesOn, HearNoSeat, Hear, Live, Acked
  <2> QED BY <2>3
<1>5. CASE HearRefused(p)
  <2>1. panel' = [panel EXCEPT ![p] = panel[p]]
    BY <1>3, <1>5 DEF HearRefused
  <2>2. Says(p, panel[p], <<>>, Nothing)
    BY <1>5, <2>1, SilentSays DEF HearRefused, Hear
  <2>3. GoesOn(p, panel[p], <<>>, Nothing)
    BY <1>1, <1>5, <2>2 DEF GoesOn, HearRefused, Hear, Live, Acked
  <2> QED BY <2>3
<1>6. CASE HearConfigured(p)
  <2>1. PICK g \in {FALSE, panel[p].facts} :
          /\ panel' = [panel EXCEPT ![p] = [panel[p] EXCEPT !.facts = g]]
          /\ UNCHANGED wire \/ Send(p, <<Caps>>)
    BY <1>6 DEF HearConfigured
  <2>2. g \in BOOLEAN
    BY <1>2
  <2>3. panel' = [panel EXCEPT ![p] = [panel[p] EXCEPT !.facts = g, !.shared = s, !.run = r]]
    <3>1. [panel[p] EXCEPT !.facts = g]
            = [panel[p] EXCEPT !.facts = g, !.shared = panel[p].shared, !.run = panel[p].run]
      BY <1>1, <2>2, Same
    <3> QED BY <1>2, <2>1, <3>1
  <2>4. Live(p) /\ Acked(p) /\ answer' = [answer EXCEPT ![p] = Nothing]
        /\ UNCHANGED <<sharing, users, edits>>
    BY <1>6 DEF HearConfigured, Hear, Acked
  <2>5. CASE UNCHANGED wire
    <3>1. \E m : GoesOn(p, m, <<>>, Nothing)
      BY <2>2, <2>3, <2>4, <2>5, GoingOn
    <3> QED BY <3>1
  <2>6. CASE Send(p, <<Caps>>)
    <3>1. \E m : GoesOn(p, m, <<Caps>>, Nothing)
      BY <1>3, <2>2, <2>3, <2>4, <2>6, GoingOn
    <3> QED BY <3>1
  <2> QED BY <2>1, <2>5, <2>6
<1>7. CASE HearFacts(p)
  <2>1. Live(p) /\ Acked(p) /\ answer' = [answer EXCEPT ![p] = Nothing]
        /\ UNCHANGED <<sharing, users, edits>>
    BY <1>7 DEF HearFacts, Hear, Acked
  <2>2. CASE /\ panel' = [panel EXCEPT ![p].facts = TRUE, ![p].run = "sent"]
             /\ Send(p, <<Share(Published)>>)
    <3>1. panel' = [panel EXCEPT ![p] = [panel[p] EXCEPT !.facts = TRUE, !.run = "sent"]]
      BY <1>1, <2>2
    <3>2. panel' = [panel EXCEPT ![p] = [panel[p] EXCEPT !.facts = TRUE, !.shared = s,
                                                         !.run = "sent"]]
      BY <1>1, <1>2, <3>1, Same
    <3>3. \E m : GoesOn(p, m, <<Share(Published)>>, Nothing)
      BY <1>3, <2>1, <2>2, <3>2, GoingOn
    <3> QED BY <3>3
  <2>3. CASE panel' = [panel EXCEPT ![p].facts = TRUE] /\ UNCHANGED wire
    <3>1. panel' = [panel EXCEPT ![p] = [panel[p] EXCEPT !.facts = TRUE, !.shared = s, !.run = r]]
      BY <1>1, <1>2, <2>3, Same
    <3>2. \E m : GoesOn(p, m, <<>>, Nothing)
      BY <2>1, <2>3, <3>1, GoingOn
    <3> QED BY <3>2
  <2>4. CASE UNCHANGED <<panel, wire>>
    <3>1. panel' = [panel EXCEPT ![p] = [panel[p] EXCEPT !.facts = f, !.shared = s, !.run = r]]
      BY <1>1, <1>2, <1>3, <2>4, Same
    <3>2. \E m : GoesOn(p, m, <<>>, Nothing)
      BY <2>1, <2>4, <3>1, GoingOn
    <3> QED BY <3>2
  <2> QED BY <1>7, <2>2, <2>3, <2>4 DEF HearFacts
<1>8. CASE HearShared(p)
  <2>1. Live(p) /\ Acked(p) /\ answer' = [answer EXCEPT ![p] = Nothing]
        /\ UNCHANGED <<sharing, users, edits>>
    BY <1>8 DEF HearShared, Hear, Acked
  <2>2. CASE panel' = [panel EXCEPT ![p].shared = TRUE, ![p].run = "none"] /\ UNCHANGED wire
    <3>1. panel' = [panel EXCEPT ![p] = [panel[p] EXCEPT !.shared = TRUE, !.run = "none"]]
      BY <1>1, <2>2
    <3>2. panel' = [panel EXCEPT ![p] = [panel[p] EXCEPT !.facts = f, !.shared = TRUE,
                                                         !.run = "none"]]
      BY <1>1, <1>2, <3>1, Same
    <3>3. \E m : GoesOn(p, m, <<>>, Nothing)
      BY <2>1, <2>2, <3>2, GoingOn
    <3> QED BY <3>3
  <2>3. CASE panel' = [panel EXCEPT ![p].shared = TRUE] /\ Send(p, <<Share(Published)>>)
    <3>1. panel' = [panel EXCEPT ![p] = [panel[p] EXCEPT !.facts = f, !.shared = TRUE, !.run = r]]
      BY <1>1, <1>2, <2>3, Same
    <3>2. \E m : GoesOn(p, m, <<Share(Published)>>, Nothing)
      BY <1>3, <2>1, <2>3, <3>1, GoingOn
    <3> QED BY <3>2
  <2> QED BY <1>8, <2>2, <2>3 DEF HearShared
<1>9. CASE HearNotShared(p)
  <2>1. Live(p) /\ Acked(p) /\ answer' = [answer EXCEPT ![p] = Nothing]
        /\ UNCHANGED <<sharing, users, edits, wire>>
    BY <1>9 DEF HearNotShared, Hear, Acked
  <2>2. PICK t \in {"none", "sent", "retry"} :
          panel' = [panel EXCEPT ![p] = [panel[p] EXCEPT !.run = t]]
    BY <1>9 DEF HearNotShared
  <2>3. panel' = [panel EXCEPT ![p] = [panel[p] EXCEPT !.facts = f, !.shared = s, !.run = t]]
    BY <1>1, <1>2, <2>2, Same
  <2>4. \E m : GoesOn(p, m, <<>>, Nothing)
    BY <2>1, <2>3, GoingOn
  <2> QED BY <2>4
<1>10. CASE Retry(p)
  <2>1. panel' = [panel EXCEPT ![p] = [panel[p] EXCEPT !.facts = f, !.shared = s, !.run = "sent"]]
    BY <1>1, <1>2, <1>10, Same DEF Retry
  <2>2. answer' = [answer EXCEPT ![p] = answer[p]]
    BY <1>10, Typed DEF Retry
  <2>3. \E m : GoesOn(p, m, <<Share(Published)>>, answer[p])
    BY <1>3, <1>10, <2>1, <2>2, GoingOn DEF Retry, Acked
  <2> QED BY <2>3
<1> QED BY <1>4, <1>5, <1>6, <1>7, <1>8, <1>9, <1>10

(* A panel that is gone remembers nothing. *)
Gone(m) ==
    /\ m \in Panel /\ m.life \in {"closed", "died"}
    /\ m.mem = None /\ ~m.observed /\ ~m.facts /\ ~m.shared /\ m.run = "none"

(* A panel that closes gives back what it shared, or says nothing. *)
LEMMA CloseSays ==
    ASSUME PanelsTypeOK, NEW p \in Conns, Close(p)
    PROVE  \E m, lines :
             /\ Says(p, m, lines, Nothing) /\ Live(p) /\ Gone(m)
             /\ \/ lines = <<>>
                \/ /\ lines = <<Share(GivenBack(p))>>
                   /\ panel[p].shared /\ Restorable(GivenBack(p))
<1> DEFINE m == [Absent EXCEPT !.life = "closed"]
<1>1. Gone(m)
  BY DEF Gone, Absent, Panel
<1>2. panel' = [panel EXCEPT ![p] = m] /\ Live(p) /\ answer' = [answer EXCEPT ![p] = Nothing]
      /\ UNCHANGED <<sharing, users, edits>>
  BY DEF Close
<1> HIDE DEF m
<1>3. CASE panel[p].shared /\ Restorable(GivenBack(p))
  <2>1. Says(p, m, <<Share(GivenBack(p))>>, Nothing)
    BY <1>2, <1>3 DEF Close, Send, Says
  <2> QED BY <1>1, <1>2, <1>3, <2>1
<1>4. CASE ~(panel[p].shared /\ Restorable(GivenBack(p)))
  <2>1. UNCHANGED wire
    BY <1>4 DEF Close
  <2>2. Says(p, m, <<>>, Nothing)
    BY <1>2, <2>1, SilentSays
  <2> QED BY <1>1, <1>2, <2>2
<1> QED BY <1>3, <1>4

(* A panel that dies says nothing. *)
LEMMA DieSays ==
    ASSUME PanelsTypeOK, NEW p \in Conns, Die(p)
    PROVE  \E m : Says(p, m, <<>>, Nothing) /\ Live(p) /\ Gone(m)
<1> DEFINE m == [Absent EXCEPT !.life = "died"]
<1>1. Gone(m)
  BY DEF Gone, Absent, Panel
<1>2. panel' = [panel EXCEPT ![p] = m] /\ Live(p) /\ answer' = [answer EXCEPT ![p] = Nothing]
      /\ UNCHANGED <<wire, sharing, users, edits>>
  BY DEF Die
<1> HIDE DEF m
<1>3. Says(p, m, <<>>, Nothing)
  BY <1>2, SilentSays
<1> QED BY <1>1, <1>2, <1>3

-----------------------------------------------------------------------------
(* Types. *)

(* Every step of a panel keeps the types. *)
LEMMA PanelStepsType ==
    ASSUME TInv, NEW p \in Conns, PanelSteps(p)
    PROVE  TInv'
<1>0. PanelsTypeOK
  BY DEF TInv
<1>1. /\ panel[p] \in Panel /\ answer[p] \in Reply /\ Nothing \in Reply
      /\ None \in Values /\ Published \in Values /\ UserFiles \subseteq Values
      /\ Absolute \subseteq UserFiles
      /\ Existing \subseteq UserFiles
  BY <1>0, Typed, PlainLines, Distinct, PanelAssumption
<1>2. ASSUME NEW v \in Values
      PROVE  /\ <<Configured(v)>> \in Seq(Line)
             /\ \A line \in Elems(<<Configured(v)>>) : line.verb = "configure"
             /\ <<Share(v)>> \in Seq(Line)
             /\ \A line \in Elems(<<Share(v)>>) : line.verb = "share" /\ line.file = v
  BY PlainLines, Few
<1>3. /\ <<Seat>> \in Seq(Line) /\ <<Caps>> \in Seq(Line) /\ <<>> \in Seq(Line)
      /\ \A line \in Elems(<<Seat>>) \cup Elems(<<Caps>>) \cup Elems(<<>>) : line.verb # "share"
  BY PlainLines, Few
<1>4. CASE Open(p)
  <2>1. PICK b \in Panel : Says(p, Recover(b), <<Seat>>, answer[p])
    BY <1>0, <1>4, OpenSays
  <2>2. Recover(b) \in Panel
    BY Recovered
  <2> QED BY <1>1, <1>3, <2>1, <2>2, SayingType
<1>5. CASE AskAgain(p)
  BY <1>0, <1>1, <1>3, <1>5, AskAgainSays, SayingType
<1>6. CASE HearPublished(p)
  <2>1. Recover(panel[p]) \in Panel
    BY <1>1, Recovered
  <2>2. Recover(panel[p]).mem \in Values
    BY <1>1, <2>1 DEF Panel
  <2>3. Says(p, Recover(panel[p]), <<Configured(Recover(panel[p]).mem)>>, Nothing)
    BY <1>0, <1>6, HearPublishedSays
  <2> QED BY <1>1, <1>2, <2>1, <2>2, <2>3, SayingType
<1>7. CASE HearOwn(p)
  <2>1. PICK m \in Panel : Says(p, m, Ahead(p) \o <<Configured(Read(p))>>, Nothing)
    BY <1>0, <1>7, HearOwnSays
  <2>2. Read(p) \in Values
    BY <1>1 DEF Read, Reply
  <2>3. /\ Ahead(p) \in Seq(Line)
        /\ \A line \in Elems(Ahead(p)) : line.verb = "share" => line.file = Published
    BY <1>1, <1>2, <1>3 DEF Ahead
  <2>4. /\ Ahead(p) \o <<Configured(Read(p))>> \in Seq(Line)
        /\ Elems(Ahead(p) \o <<Configured(Read(p))>>)
             = Elems(Ahead(p)) \cup Elems(<<Configured(Read(p))>>)
    <3>1. <<Configured(Read(p))>> \in Seq(Line)
      BY <1>2, <2>2
    <3> QED BY <2>3, <3>1, Joined
  <2>5. \A line \in Elems(Ahead(p) \o <<Configured(Read(p))>>) :
          line.verb = "share" => line.file \in Absolute \cup {None, Published}
    BY <1>2, <2>2, <2>3, <2>4
  <2> QED BY <1>1, <2>1, <2>4, <2>5, SayingType
<1>8. ASSUME NEW m, NEW lines, NEW a, GoesOn(p, m, lines, a)  PROVE TInv'
  <2>1. /\ lines \in Seq(Line)
        /\ \A line \in Elems(lines) : line.verb = "share" => line.file = Published
    <3>1. CASE lines \in {<<>>, <<Caps>>}
      BY <1>3, <3>1
    <3>2. CASE lines = <<Share(Published)>>
      <4>1. Published \in Values
        BY <1>1
      <4> QED BY <1>2, <3>2, <4>1
    <3> QED BY <1>8, <3>1, <3>2 DEF GoesOn
  <2> QED BY <1>1, <1>8, <2>1, SayingType DEF GoesOn
<1>9. CASE Close(p)
  <2>1. PICK m, lines :
             /\ Says(p, m, lines, Nothing) /\ Gone(m)
             /\ \/ lines = <<>>
                \/ lines = <<Share(GivenBack(p))>> /\ Restorable(GivenBack(p))
    BY <1>0, <1>9, CloseSays
  <2>2. GivenBack(p) \in Values
    BY <1>1 DEF GivenBack, Panel
  <2>3. /\ lines \in Seq(Line)
        /\ \A line \in Elems(lines) :
             line.verb = "share" => line.file \in Absolute \cup {None, Published}
    <3>1. CASE lines = <<>>
      BY <1>3, <3>1
    <3>2. CASE lines = <<Share(GivenBack(p))>> /\ Restorable(GivenBack(p))
      <4>1. GivenBack(p) \in Absolute \cup {None, Published}
        BY <3>2 DEF Restorable
      <4> QED BY <1>2, <2>2, <3>2, <4>1
    <3> QED BY <2>1, <3>1, <3>2
  <2> QED BY <1>1, <2>1, <2>3, SayingType DEF Gone
<1>10. CASE Die(p)
  BY <1>0, <1>1, <1>3, <1>10, DieSays, SayingType DEF Gone
<1> QED BY <1>0, <1>4, <1>5, <1>6, <1>7, <1>8, <1>9, <1>10, HearingGoesOn DEF PanelSteps

(* A line taken off the wire is one the helper may be asked, or a `caps`. *)
LEMMA DispatchRuns ==
    ASSUME TInv, NEW p \in Conns, Dispatch(p)
    PROVE  Ask(p) \/ UNCHANGED sharing
<1>1. Head(wire[p]) \in Line /\ Head(wire[p]) \in Lines(p)
  <2>1. wire[p] \in Seq(Line) /\ wire[p] # <<>>
    BY Typed DEF TInv, Dispatch
  <2> QED BY <2>1, Popped, LinesAreElems
<1>2. CASE Head(wire[p]).verb = "seat"
  BY <1>2 DEF Dispatch, Ask
<1>3. CASE Head(wire[p]).verb = "share"
  <2>1. Head(wire[p]).file \in Absolute \cup {None, Published}
    BY <1>1, <1>3 DEF TInv, Askable
  <2> QED BY <1>3, <2>1 DEF Dispatch, Ask
<1>4. CASE Head(wire[p]).verb = "configure"
  BY <1>1, <1>4 DEF Dispatch, Ask, Line
<1>5. CASE Head(wire[p]).verb = "caps"
  BY <1>5 DEF Dispatch
<1> QED BY <1>1, <1>2, <1>3, <1>4, <1>5 DEF Line

(* Every step of the composition is one of KbFileShare, or leaves it alone. *)
LEMMA PanelsStep ==
    ASSUME TInv, [PanelsNext]_allVars
    PROVE  [Next]_vars
<1>1. ASSUME NEW p \in Conns, PanelSteps(p)  PROVE UNCHANGED vars
  BY <1>1 DEF PanelSteps, Open, AskAgain, Close, Die, Retry, HearPublished, HearOwn, HearNoSeat,
     HearConfigured, HearFacts, HearRefused, HearShared, HearNotShared, Hear, sharing, vars
<1>2. ASSUME NEW p \in Conns, Dispatch(p)  PROVE [Next]_vars
  BY <1>2, DispatchRuns DEF Next, sharing, vars
<1>3. ASSUME NEW p \in Conns, WorkerSteps(p)  PROVE Next
  BY <1>3 DEF WorkerSteps, Next
<1>4. CASE ShutdownSteps
  BY <1>4 DEF ShutdownSteps, Next
<1>5. CASE Reload
  BY <1>5 DEF TInv, PanelsTypeOK, Reload, Next
<1>6. ASSUME NEW v \in UserFiles \cup {None}, Edit(v)  PROVE Next
  BY <1>6 DEF Edit, Next
<1>7. CASE UNCHANGED allVars
  BY <1>7 DEF allVars, sharing, vars
<1> QED BY <1>1, <1>2, <1>3, <1>4, <1>5, <1>6, <1>7 DEF PanelsNext

(* What a line run by the helper leaves of the panel's side. *)
LEMMA DispatchLeaves ==
    ASSUME PanelsTypeOK, NEW p \in Conns, Dispatch(p)
    PROVE  /\ wire[p] # <<>> /\ answer[p] = Nothing
           /\ wire' = [wire EXCEPT ![p] = Tail(wire[p])]
           /\ wire' \in [Conns -> Seq(Line)]
           /\ Head(wire[p]) \in Lines(p) /\ Head(wire[p]) \in Line
           /\ \A q \in Conns : Lines(q)' \subseteq Lines(q)
           /\ UNCHANGED <<panel, users, edits>>
           /\ \E word \in {"none", "configured", "refused", "facts"} :
                /\ answer' = [answer EXCEPT ![p] = [Nothing EXCEPT !.word = word]]
                /\ word = "facts" => Head(wire[p]).verb = "caps" /\ Live(p)
                /\ word \in {"configured", "refused"} =>
                     Head(wire[p]).verb = "configure" /\ Live(p)
<1>1. wire[p] # <<>> /\ answer[p] = Nothing /\ wire' = [wire EXCEPT ![p] = Tail(wire[p])]
      /\ UNCHANGED <<panel, users, edits>>
  BY DEF Dispatch
<1>2. /\ Tail(wire[p]) \in Seq(Line) /\ Head(wire[p]) \in Line
      /\ Head(wire[p]) \in Elems(wire[p])
      /\ Elems(Tail(wire[p])) \subseteq Elems(wire[p])
  BY <1>1, Typed, Popped
<1>3. wire' \in [Conns -> Seq(Line)]
  BY <1>1, <1>2, Typed
<1>4. ASSUME NEW q \in Conns  PROVE Elems(wire'[q]) \subseteq Elems(wire[q])
  BY <1>1, <1>2, Typed
<1>5. answer = [answer EXCEPT ![p] = Nothing] /\ Nothing = [Nothing EXCEPT !.word = "none"]
  BY <1>1, Typed DEF Nothing
<1>6. \E word \in {"none", "configured", "refused", "facts"} :
                /\ answer' = [answer EXCEPT ![p] = [Nothing EXCEPT !.word = word]]
                /\ word = "facts" => Head(wire[p]).verb = "caps" /\ Live(p)
                /\ word \in {"configured", "refused"} =>
                     Head(wire[p]).verb = "configure" /\ Live(p)
  <2>1. CASE UNCHANGED answer
    BY <1>5, <2>1
  <2>2. CASE Head(wire[p]).verb = "configure" /\ Live(p)
    BY <2>2 DEF Dispatch
  <2>3. CASE Head(wire[p]).verb = "caps" /\ Live(p)
    <3>1. answer' = [answer EXCEPT ![p] = [Nothing EXCEPT !.word = "facts"]]
      BY <2>3 DEF Dispatch
    <3> QED BY <2>3, <3>1
  <2>4. CASE Head(wire[p]).verb \in {"seat", "share"} \/ ~Live(p)
    <3>1. UNCHANGED answer
      BY <1>2, <2>4 DEF Dispatch, Line
    <3> QED BY <2>1, <3>1
  <2> QED BY <1>2, <2>2, <2>3, <2>4 DEF Line
<1>7. \A q \in Conns : Lines(q)' \subseteq Lines(q)
  BY <1>4 DEF Lines, Elems
<1> QED BY <1>1, <1>2, <1>3, <1>6, <1>7, LinesAreElems

(* A verdict is one the panel knows. *)
LEMMA VerdictType ==
    ASSUME TypeOK, NEW p \in Conns
    PROVE  Verdict(p) \in Reply
<1>1. job[p].current \in Values
  BY DEF TypeOK, Job
<1> QED BY <1>1, Distinct DEF Verdict, Nothing, Reply

(* Every step keeps the types. *)
LEMMA TInvStep ==
    ASSUME TInv, [PanelsNext]_allVars
    PROVE  TInv'
<1>0. TypeOK'
  BY PanelsStep, TypeStep DEF TInv, PanelsTypeOK
<1>1. ASSUME UNCHANGED <<panel, users, edits>>, wire' \in [Conns -> Seq(Line)],
             \A q \in Conns : Lines(q)' \subseteq Lines(q), answer' \in [Conns -> Reply]
      PROVE  TInv'
  BY <1>0, <1>1 DEF TInv, PanelsTypeOK, Askable, Line, Reply
<1>2. ASSUME NEW p \in Conns, Dispatch(p)  PROVE TInv'
  <2>1. PICK word \in {"none", "configured", "refused", "facts"} :
          answer' = [answer EXCEPT ![p] = [Nothing EXCEPT !.word = word]]
    BY <1>2, DispatchLeaves DEF TInv
  <2>2. [Nothing EXCEPT !.word = word] \in Reply
    BY Distinct DEF Nothing, Reply
  <2>3. answer' \in [Conns -> Reply]
    BY <2>1, <2>2, Typed DEF TInv
  <2> QED BY <1>1, <1>2, <2>3, DispatchLeaves DEF TInv
<1>3. ASSUME NEW p \in Conns, WorkerSteps(p)  PROVE TInv'
  <2>1. Verdict(p) \in Reply
    BY VerdictType DEF TInv, PanelsTypeOK
  <2>2. answer' \in [Conns -> Reply] /\ UNCHANGED <<panel, wire, users, edits>>
    BY <1>3, <2>1, Typed DEF WorkerSteps, TInv
  <2>3. \A q \in Conns : Lines(q)' \subseteq Lines(q)
    BY <2>2 DEF Lines
  <2>4. wire' \in [Conns -> Seq(Line)]
    BY <2>2, Typed DEF TInv
  <2> QED BY <1>1, <2>2, <2>3, <2>4
<1>4. ASSUME UNCHANGED <<panel, wire, answer, users, edits>>  PROVE TInv'
  BY <1>0, <1>4 DEF TInv, PanelsTypeOK, Askable, Lines
<1>5. CASE ShutdownSteps \/ Reload \/ UNCHANGED allVars
  BY <1>4, <1>5 DEF ShutdownSteps, Reload, allVars
<1>6. ASSUME NEW v \in UserFiles \cup {None}, Edit(v)  PROVE TInv'
  <2>1. edits' \in 0..MaxEdits
    BY <1>6, PanelAssumption DEF Edit, TInv, PanelsTypeOK
  <2> QED BY <1>0, <1>6, <2>1 DEF TInv, PanelsTypeOK, Askable, Lines, Edit
<1> QED BY <1>2, <1>3, <1>5, <1>6, PanelStepsType DEF PanelsNext

(* The initial states are well typed. *)
LEMMA InitTInv == PanelsInit => TInv
<1> SUFFICES ASSUME PanelsInit PROVE TInv
  OBVIOUS
<1>1. TypeOK
  BY InitType DEF PanelsInit
<1>2. Absent \in Panel /\ Nothing \in Reply
  BY PlainLines DEF Absent, Panel
<1>3. /\ panel \in [Conns -> Panel] /\ answer \in [Conns -> Reply]
      /\ wire \in [Conns -> Seq(Line)]
  BY <1>2, Few DEF PanelsInit
<1>4. users \in UserFiles \cup {None} /\ edits \in 0..MaxEdits
  BY PanelAssumption DEF PanelsInit, Init
<1>5. \A p \in Conns : Lines(p) = {}
  BY Few, LinesAreElems DEF PanelsInit
<1> QED BY <1>1, <1>3, <1>4, <1>5 DEF TInv, PanelsTypeOK, Askable, Line, Reply

(* The types of the composition are correct, and no line asks the helper for
   what it would not understand. *)
THEOREM PanelsAreTyped == PanelsSpec => []TInv
<1>1. TInv /\ [PanelsNext]_allVars => TInv'
  BY TInvStep
<1> QED BY InitTInv, <1>1, PTL DEF PanelsSpec

(* The panels drive the helper within what KbFileShare allows of anyone: every
   theorem about the shares holds under them. *)
THEOREM PanelsRunShares == PanelsSpec => Spec
<1>1. PanelsInit => Init
  BY DEF PanelsInit
<1>2. TInv /\ [PanelsNext]_allVars => [Next]_vars
  BY PanelsStep
<1> QED BY <1>1, <1>2, PanelsAreTyped, PTL DEF PanelsSpec, Spec

-----------------------------------------------------------------------------
(* One at a time: without overlap a panel opens when all others are gone and
   their lines have been run. *)

Busy(p) == Live(p) \/ ~Quiet(p)
OneAtATime == \A p, q \in Conns : p # q => ~Busy(p) \/ ~Busy(q)

(* Every step of a panel says something, and only a live one, or one that opens, takes it. *)
LEMMA PanelStepsSay ==
    ASSUME PanelsTypeOK, NEW p \in Conns, PanelSteps(p)
    PROVE  /\ \E m, lines, a : Says(p, m, lines, a)
           /\ Live(p) \/ Open(p)
<1>1. CASE Open(p)
  BY <1>1, OpenSays
<1>2. CASE AskAgain(p)
  BY <1>2, AskAgainSays
<1>3. CASE HearPublished(p)
  BY <1>3, HearPublishedSays
<1>4. CASE HearOwn(p)
  BY <1>4, HearOwnSays
<1>5. CASE Close(p)
  <2>1. PICK m, lines : Says(p, m, lines, Nothing) /\ Live(p)
    BY <1>5, CloseSays
  <2> QED BY <2>1
<1>6. CASE Die(p)
  <2>1. PICK m : Says(p, m, <<>>, Nothing) /\ Live(p)
    BY <1>6, DieSays
  <2> QED BY <2>1
<1>7. CASE \/ HearNoSeat(p) \/ HearConfigured(p) \/ HearFacts(p) \/ HearRefused(p)
           \/ HearShared(p) \/ HearNotShared(p) \/ Retry(p)
  <2>1. PICK m, lines, a : GoesOn(p, m, lines, a)
    BY <1>7, HearingGoesOn
  <2> QED BY <2>1 DEF GoesOn
<1> QED BY <1>1, <1>2, <1>3, <1>4, <1>5, <1>6, <1>7 DEF PanelSteps

(* A step of one connection leaves the others as they are. *)
LEMMA OthersStay ==
    ASSUME TInv, NEW p \in Conns, PanelSteps(p) \/ Dispatch(p) \/ WorkerSteps(p),
           NEW q \in Conns, q # p
    PROVE  /\ panel'[q] = panel[q] /\ wire'[q] = wire[q] /\ answer'[q] = answer[q]
           /\ job'[q] = job[q] /\ users' = users
<1>0. PanelsTypeOK /\ TypeOK
  BY DEF TInv, PanelsTypeOK
<1>1. CASE PanelSteps(p)
  <2>1. PICK m, lines, a : Says(p, m, lines, a)
    BY <1>0, <1>1, PanelStepsSay
  <2> QED BY <1>0, <2>1, Typed DEF Says, sharing
<1>2. CASE Dispatch(p)
  <2>1. /\ UNCHANGED <<panel, users>>
        /\ wire'[q] = wire[q] /\ answer'[q] = answer[q]
    BY <1>0, <1>2, DispatchLeaves, Typed
  <2>2. job'[q] = job[q]
    BY <1>0, <1>2, DispatchRuns, AskShape DEF Alone, sharing
  <2> QED BY <2>1, <2>2
<1>3. CASE WorkerSteps(p)
  <2>1. job'[q] = job[q]
    BY <1>0, <1>3, WorkShape DEF Alone, WorkerSteps
  <2> QED BY <1>0, <1>3, <2>1, Typed DEF WorkerSteps
<1> QED BY <1>1, <1>2, <1>3

(* Whoever takes a step was busy, or opens. *)
LEMMA WorkIsBusy ==
    ASSUME NEW p \in Conns, Work(p)  PROVE job[p].at # "idle"
  BY DEF Work, ReadSeat, ObserveSeat, TakeGate, GateTimesOut, ReadCurrent, ObserveCurrent,
     CaptureCurrent, Clear, Change, Confirm, ShareDone, PutBack, Verify, At

(* So is whoever takes any step of a connection. *)
LEMMA StepIsBusy ==
    ASSUME TInv, NEW p \in Conns, PanelSteps(p) \/ Dispatch(p) \/ WorkerSteps(p)
    PROVE  Busy(p) \/ Open(p)
<1>1. CASE PanelSteps(p)
  BY <1>1, PanelStepsSay DEF TInv, Busy
<1>2. CASE Dispatch(p)
  BY <1>2 DEF Dispatch, Busy, Quiet
<1>3. CASE WorkerSteps(p)
  BY <1>3, WorkIsBusy DEF WorkerSteps, Busy, Quiet, At
<1> QED BY <1>1, <1>2, <1>3

(* Without overlap every step leaves at most one connection busy. *)
LEMMA OneAtATimeStep ==
    ASSUME TInv, ~Overlap, OneAtATime, [PanelsNext]_allVars
    PROVE  OneAtATime'
<1>1. ASSUME NEW p \in Conns, PanelSteps(p) \/ Dispatch(p) \/ WorkerSteps(p)
      PROVE  OneAtATime'
  <2>1. \A q \in Conns \ {p} : Busy(q)' <=> Busy(q)
    BY <1>1, OthersStay DEF Busy, Live, Quiet, At
  <2>2. CASE Busy(p)
    BY <2>1, <2>2 DEF OneAtATime
  <2>3. CASE Open(p)
    <3>1. \A q \in Conns \ {p} : ~Busy(q)
      BY <2>3 DEF Open, Busy
    <3> QED BY <2>1, <3>1 DEF OneAtATime
  <2> QED BY <1>1, <2>2, <2>3, StepIsBusy
<1>2. ASSUME UNCHANGED <<panel, wire, answer, job>>  PROVE OneAtATime'
  BY <1>2 DEF OneAtATime, Busy, Live, Quiet, At
<1>3. CASE ShutdownSteps
  BY <1>2, <1>3 DEF ShutdownSteps, BeginStop, Shutdown, WatchdogFires, StopTakesGate, StopLooks,
     StopWrites, StopChecks, StopGivesUp, Exit
<1>4. CASE Reload \/ UNCHANGED allVars
  BY <1>2, <1>4 DEF Reload, UserSets, allVars, sharing
<1>5. ASSUME NEW v \in UserFiles \cup {None}, Edit(v)  PROVE OneAtATime'
  BY <1>2, <1>5 DEF Edit, UserSets
<1> QED BY <1>1, <1>3, <1>4, <1>5 DEF PanelsNext

(* No panel is open yet. *)
LEMMA InitOneAtATime == PanelsInit => OneAtATime
  BY DEF PanelsInit, Init, OneAtATime, Busy, Live, Quiet, At, Idle, Absent

-----------------------------------------------------------------------------
(* An edit.  The last configure on the wire carries what the panel remembers;
   with none there the record is it. *)

Unasked(s) == \A i \in DOMAIN s : s[i].verb # "configure"
LastSays(s, file) ==
    \A i \in DOMAIN s :
        s[i].verb = "configure" /\ (\A j \in DOMAIN s : j > i => s[j].verb # "configure")
        => s[i].file = file

Follows(p) ==
    /\ panel[p].life = "absent" => ~panel[p].observed
    /\ Live(p) /\ panel[p].observed =>
         /\ panel[p].mem = IF panel[p].literal \in Existing THEN panel[p].literal ELSE None
         /\ panel[p].mem \in UserFiles =>
              /\ LastSays(wire[p], panel[p].mem)
              /\ Unasked(wire[p]) => record = panel[p].mem

(* Where a line is, of those written behind others. *)
LEMMA JoinedAt ==
    ASSUME NEW S, NEW s \in Seq(S), NEW t \in Seq(S)
    PROVE  /\ Len(s) \in Nat /\ Len(t) \in Nat
           /\ DOMAIN s = 1 .. Len(s) /\ DOMAIN t = 1 .. Len(t)
           /\ DOMAIN (s \o t) = 1 .. Len(s) + Len(t)
           /\ \A i \in 1 .. Len(s) : (s \o t)[i] = s[i]
           /\ \A i \in 1 .. Len(t) : (s \o t)[Len(s) + i] = t[i]
<1>1. /\ s \o t \in Seq(S)
      /\ Len(s \o t) = Len(s) + Len(t)
      /\ \A i \in 1 .. Len(s) + Len(t) :
            (s \o t)[i] = IF i <= Len(s) THEN s[i] ELSE t[i - Len(s)]
  BY ConcatProperties
<1>2. /\ Len(s) \in Nat /\ Len(t) \in Nat
      /\ DOMAIN s = 1 .. Len(s) /\ DOMAIN t = 1 .. Len(t)
      /\ DOMAIN (s \o t) = 1 .. Len(s) + Len(t)
  BY <1>1, LenProperties
<1>3. \A i \in 1 .. Len(s) : (s \o t)[i] = s[i]
  BY <1>1, <1>2
<1>4. ASSUME NEW i \in 1 .. Len(t)  PROVE (s \o t)[Len(s) + i] = t[i]
  <2>1. Len(s) + i \in 1 .. Len(s) + Len(t) /\ ~(Len(s) + i <= Len(s)) /\ (Len(s) + i) - Len(s) = i
    BY <1>2
  <2> QED BY <1>1, <2>1
<1> QED BY <1>2, <1>3, <1>4

(* Lines that are no configures change nothing of it. *)
LEMMA OtherLines ==
    ASSUME NEW S, NEW s \in Seq(S), NEW t \in Seq(S), Unasked(t), NEW file
    PROVE  /\ LastSays(s, file) => LastSays(s \o t, file)
           /\ Unasked(s \o t) => Unasked(s)
<1> DEFINE u == s \o t
<1>1. /\ Len(s) \in Nat /\ Len(t) \in Nat
      /\ DOMAIN s = 1 .. Len(s) /\ DOMAIN t = 1 .. Len(t)
      /\ DOMAIN u = 1 .. Len(s) + Len(t)
      /\ \A i \in 1 .. Len(s) : u[i] = s[i]
      /\ \A i \in 1 .. Len(t) : u[Len(s) + i] = t[i]
  BY JoinedAt
<1> HIDE DEF u
<1>2. Unasked(u) => Unasked(s)
  BY <1>1 DEF Unasked
<1>3. ASSUME LastSays(s, file)  PROVE LastSays(u, file)
  <2> SUFFICES ASSUME NEW i \in DOMAIN u, u[i].verb = "configure",
                      \A j \in DOMAIN u : j > i => u[j].verb # "configure"
               PROVE  u[i].file = file
    BY DEF LastSays
  <2>1. i \in DOMAIN s
    <3>1. CASE ~(i <= Len(s))
      <4>1. i - Len(s) \in 1 .. Len(t) /\ Len(s) + (i - Len(s)) = i
        BY <1>1, <3>1
      <4>2. u[i] = t[i - Len(s)]
        BY <1>1, <4>1
      <4> QED BY <1>1, <4>1, <4>2 DEF Unasked
    <3> QED BY <1>1, <3>1
  <2>2. \A j \in DOMAIN s : j > i => s[j].verb # "configure"
    <3> SUFFICES ASSUME NEW j \in DOMAIN s, j > i  PROVE s[j].verb # "configure"
      OBVIOUS
    <3>1. j \in DOMAIN u /\ u[j] = s[j]
      BY <1>1
    <3> QED BY <3>1
  <2>3. u[i] = s[i]
    BY <1>1, <2>1
  <2> QED BY <1>3, <2>1, <2>2, <2>3 DEF LastSays
<1> QED BY <1>2, <1>3 DEF u

(* A configure at the end is the last. *)
LEMMA OneMore ==
    ASSUME NEW S, NEW s \in Seq(S), NEW c \in S, c.verb = "configure"
    PROVE  LastSays(s \o <<c>>, c.file) /\ ~Unasked(s \o <<c>>)
<1> DEFINE t == <<c>>
           u == s \o t
<1>0. t \in Seq(S) /\ Len(t) = 1 /\ t[1] = c
  OBVIOUS
<1> HIDE DEF t
<1>1. /\ Len(s) \in Nat /\ Len(t) \in Nat
      /\ DOMAIN u = 1 .. Len(s) + Len(t)
      /\ \A i \in 1 .. Len(t) : u[Len(s) + i] = t[i]
  <2>1. t \in Seq(S)
    BY <1>0
  <2> QED BY <2>1, JoinedAt
<1> HIDE DEF u
<1>2. Len(s) + 1 \in DOMAIN u /\ u[Len(s) + 1] = c /\ DOMAIN u = 1 .. Len(s) + 1
  BY <1>0, <1>1
<1>3. ~Unasked(u)
  BY <1>2 DEF Unasked
<1>4. LastSays(u, c.file)
  <2> SUFFICES ASSUME NEW i \in DOMAIN u,
                      \A j \in DOMAIN u : j > i => u[j].verb # "configure"
               PROVE  u[i].file = c.file
    BY DEF LastSays
  <2>1. ~(Len(s) + 1 > i)
    BY <1>2
  <2>2. i = Len(s) + 1
    BY <1>1, <1>2, <2>1
  <2> QED BY <1>2, <2>2
<1> QED BY <1>3, <1>4 DEF u, t

(* The oldest line is taken. *)
LEMMA OneLess ==
    ASSUME NEW S, NEW s \in Seq(S), s # <<>>, NEW file, LastSays(s, file)
    PROVE  /\ LastSays(Tail(s), file)
           /\ Unasked(Tail(s)) => IF Head(s).verb = "configure" THEN Head(s).file = file
                                                                ELSE Unasked(s)
<1> DEFINE u == Tail(s)
<1>1. /\ u \in Seq(S) /\ Len(u) = Len(s)-1
      /\ \A i \in 1 .. Len(u) : u[i] = s[i+1]
      /\ Head(s) = s[1]
  BY HeadTailProperties
<1>2. /\ Len(s) \in Nat /\ DOMAIN s = 1 .. Len(s) /\ Len(s) # 0
      /\ DOMAIN u = 1 .. Len(s) - 1
  BY <1>1, LenProperties
<1> HIDE DEF u
<1>3. \A i \in DOMAIN u : i + 1 \in DOMAIN s /\ u[i] = s[i + 1]
  BY <1>1, <1>2
<1>4. \A j \in DOMAIN s : j > 1 => j - 1 \in DOMAIN u /\ u[j - 1] = s[j] /\ j \in Nat
  <2> SUFFICES ASSUME NEW j \in DOMAIN s, j > 1
               PROVE  j - 1 \in DOMAIN u /\ u[j - 1] = s[j] /\ j \in Nat
    OBVIOUS
  <2>1. j - 1 \in DOMAIN u /\ (j - 1) + 1 = j /\ j \in Nat
    BY <1>2
  <2> QED BY <1>3, <2>1
<1>5. LastSays(u, file)
  <2> SUFFICES ASSUME NEW i \in DOMAIN u, u[i].verb = "configure",
                      \A j \in DOMAIN u : j > i => u[j].verb # "configure"
               PROVE  u[i].file = file
    BY DEF LastSays
  <2>1. i + 1 \in DOMAIN s /\ s[i + 1] = u[i] /\ i \in Nat
    BY <1>2, <1>3
  <2>2. \A j \in DOMAIN s : j > i + 1 => s[j].verb # "configure"
    <3> SUFFICES ASSUME NEW j \in DOMAIN s, j > i + 1  PROVE s[j].verb # "configure"
      OBVIOUS
    <3>1. j > 1 /\ j \in Nat
      BY <1>2, <2>1
    <3>2. j - 1 \in DOMAIN u /\ u[j - 1] = s[j] /\ j - 1 > i
      BY <1>4, <2>1, <3>1
    <3> QED BY <3>2
  <2> QED BY <2>1, <2>2 DEF LastSays
<1>6. ASSUME Unasked(u), Head(s).verb = "configure"  PROVE Head(s).file = file
  <2>1. 1 \in DOMAIN s
    BY <1>2
  <2>2. \A j \in DOMAIN s : j > 1 => s[j].verb # "configure"
    BY <1>4, <1>6 DEF Unasked
  <2> QED BY <1>1, <1>6, <2>1, <2>2 DEF LastSays
<1>7. ASSUME Unasked(u), Head(s).verb # "configure"  PROVE Unasked(s)
  <2> SUFFICES ASSUME NEW j \in DOMAIN s  PROVE s[j].verb # "configure"
    BY DEF Unasked
  <2>1. j = 1 \/ j > 1
    BY <1>2
  <2> QED BY <1>1, <1>4, <1>7, <2>1 DEF Unasked
<1> QED BY <1>5, <1>6, <1>7 DEF u

(* What a step of a panel makes of Follows: other lines behind an unchanged
   memory, or a configure of the new one at the end. *)
LEMMA SayingFollows ==
    ASSUME PanelsTypeOK, NEW p \in Conns, Follows(p),
           NEW m \in Panel, NEW lines \in Seq(Line), NEW a, Says(p, m, lines, a),
           m.life # "absent",
           \/ ~(m.life = "live" /\ m.observed)
           \/ /\ panel[p].life = "live" /\ panel[p].observed
              /\ m.mem = panel[p].mem /\ m.literal = panel[p].literal
              /\ Unasked(lines)
           \/ /\ m.mem = IF m.literal \in Existing THEN m.literal ELSE None
              /\ LastSays(wire[p] \o lines, m.mem) /\ ~Unasked(wire[p] \o lines)
    PROVE  Follows(p)'
<1>1. panel'[p] = m /\ wire'[p] = wire[p] \o lines /\ record' = record
  BY Typed DEF Says, sharing
<1>2. wire[p] \in Seq(Line)
  BY Typed
<1>3. \A file : (LastSays(wire[p], file) /\ Unasked(lines) => LastSays(wire'[p], file))
                /\ (Unasked(wire'[p]) /\ Unasked(lines) => Unasked(wire[p]))
  BY <1>1, <1>2, OtherLines
<1> QED BY <1>1, <1>3 DEF Follows, Live

(* Every step of a panel that changes its memory ends in a configure of it. *)
LEMMA PanelStepsFollow ==
    ASSUME TInv, NEW p \in Conns, Follows(p), PanelSteps(p)
    PROVE  Follows(p)'
<1>0. PanelsTypeOK
  BY DEF TInv
<1>1. /\ panel[p] \in Panel /\ answer[p] \in Reply /\ wire[p] \in Seq(Line)
      /\ None \in Values /\ Published \in Values /\ UserFiles \subseteq Values
      /\ Existing \subseteq UserFiles
  BY <1>0, Typed, Distinct, PanelAssumption
<1>2. ASSUME NEW v \in Values
      PROVE  /\ Configured(v) \in Line /\ Configured(v).verb = "configure" /\ Configured(v).file = v
             /\ <<Configured(v)>> \in Seq(Line) /\ <<Share(v)>> \in Seq(Line)
             /\ Share(v) \in Line /\ Unasked(<<Share(v)>>)
  BY PlainLines, Few DEF Unasked
<1>3. /\ <<Seat>> \in Seq(Line) /\ <<Caps>> \in Seq(Line) /\ <<>> \in Seq(Line)
      /\ Unasked(<<Seat>>) /\ Unasked(<<Caps>>) /\ Unasked(<<>>)
  BY PlainLines, Few DEF Unasked
<1>4. CASE Open(p)
  <2>1. PICK b \in Panel :
          /\ Says(p, Recover(b), <<Seat>>, answer[p])
          /\ panel[p].life = "absent" /\ b.life = "live" /\ b.observed = panel[p].observed
    BY <1>0, <1>4, OpenSays
  <2>2. Recover(b) \in Panel /\ Recover(b).life = "live" /\ ~Recover(b).observed
    BY <2>1, Recovered DEF Follows
  <2> QED BY <1>0, <1>3, <2>1, <2>2, SayingFollows
<1>5. CASE AskAgain(p)
  <2>1. Says(p, panel[p], <<Seat>>, answer[p]) /\ panel[p].life = "live"
    BY <1>0, <1>5, AskAgainSays DEF Live
  <2> QED BY <1>0, <1>1, <1>3, <2>1, SayingFollows
<1>6. CASE HearPublished(p)
  <2> DEFINE m == Recover(panel[p])
  <2>1. /\ m \in Panel /\ m.life = panel[p].life /\ m.observed = panel[p].observed
        /\ m.literal = panel[p].literal
        /\ m.observed => m.mem = panel[p].mem
    BY <1>1, Recovered
  <2>2. Says(p, m, <<Configured(m.mem)>>, Nothing) /\ panel[p].life = "live"
    BY <1>0, <1>6, HearPublishedSays DEF Live
  <2> HIDE DEF m
  <2>3. m.mem \in Values
    BY <1>1, <2>1 DEF Panel
  <2>4. /\ LastSays(wire[p] \o <<Configured(m.mem)>>, m.mem)
        /\ ~Unasked(wire[p] \o <<Configured(m.mem)>>)
    <3>1. /\ Configured(m.mem) \in Line /\ Configured(m.mem).verb = "configure"
          /\ Configured(m.mem).file = m.mem
      BY <1>2, <2>3
    <3> DEFINE c == Configured(m.mem)
    <3> HIDE DEF c
    <3>2. c \in Line /\ c.verb = "configure" /\ c.file = m.mem
      BY <3>1 DEF c
    <3>3. LastSays(wire[p] \o <<c>>, c.file) /\ ~Unasked(wire[p] \o <<c>>)
      BY <1>1, <3>2, OneMore
    <3> QED BY <3>2, <3>3 DEF c
  <2>5. m.observed => m.mem = IF m.literal \in Existing THEN m.literal ELSE None
    BY <2>1, <2>2 DEF Follows, Live
  <2>6. <<Configured(m.mem)>> \in Seq(Line)
    BY <1>2, <2>3
  <2> QED BY <1>0, <2>1, <2>2, <2>4, <2>5, <2>6, SayingFollows
<1>7. CASE HearOwn(p)
  <2>1. PICK m \in Panel :
          /\ Says(p, m, Ahead(p) \o <<Configured(Read(p))>>, Nothing)
          /\ m.life = "live" /\ m.mem = Read(p) /\ m.literal = answer[p].file
    BY <1>0, <1>7, HearOwnSays
  <2>2. Read(p) \in Values
    BY <1>1 DEF Read, Reply
  <2>3. Ahead(p) \in Seq(Line)
    BY <1>1, <1>2, <1>3 DEF Ahead
  <2> DEFINE c == Configured(Read(p))
  <2>4. c \in Line /\ <<c>> \in Seq(Line) /\ c.verb = "configure" /\ c.file = Read(p)
    BY <1>2, <2>2
  <2> HIDE DEF c
  <2>5. Ahead(p) \o <<c>> \in Seq(Line) /\ wire[p] \o Ahead(p) \in Seq(Line)
    BY <1>1, <2>3, <2>4, ConcatProperties
  <2>6. wire[p] \o (Ahead(p) \o <<c>>) = (wire[p] \o Ahead(p)) \o <<c>>
    <3>1. \A s, t, u \in Seq(Line) : (s \o t) \o u = s \o (t \o u)
      BY ConcatAssociative
    <3> QED BY <1>1, <2>3, <2>4, <3>1
  <2>7. /\ LastSays((wire[p] \o Ahead(p)) \o <<c>>, c.file)
        /\ ~Unasked((wire[p] \o Ahead(p)) \o <<c>>)
    BY <2>4, <2>5, OneMore
  <2>8. /\ LastSays(wire[p] \o (Ahead(p) \o <<c>>), m.mem)
        /\ ~Unasked(wire[p] \o (Ahead(p) \o <<c>>))
    BY <2>1, <2>4, <2>6, <2>7
  <2>9. Says(p, m, Ahead(p) \o <<c>>, Nothing)
    BY <2>1 DEF c
  <2>10. m.mem = IF m.literal \in Existing THEN m.literal ELSE None
    BY <2>1 DEF Read
  <2> QED BY <1>0, <2>1, <2>5, <2>8, <2>9, <2>10, SayingFollows
<1>8. ASSUME NEW m, NEW lines, NEW a, GoesOn(p, m, lines, a)  PROVE Follows(p)'
  <2>1. lines \in Seq(Line) /\ Unasked(lines)
    <3>1. CASE lines \in {<<>>, <<Caps>>}
      BY <1>3, <3>1
    <3>2. CASE lines = <<Share(Published)>>
      BY <1>1, <1>2, <3>2
    <3> QED BY <1>8, <3>1, <3>2 DEF GoesOn
  <2>2. /\ m \in Panel /\ Says(p, m, lines, a) /\ m.life = "live" /\ panel[p].life = "live"
        /\ m.mem = panel[p].mem /\ m.observed = panel[p].observed /\ m.literal = panel[p].literal
    BY <1>8 DEF GoesOn, Live
  <2> QED BY <1>0, <2>1, <2>2, SayingFollows
<1>9. CASE Close(p)
  <2>1. PICK m, lines :
             /\ Says(p, m, lines, Nothing) /\ Gone(m)
             /\ lines = <<>> \/ lines = <<Share(GivenBack(p))>>
    BY <1>0, <1>9, CloseSays
  <2>2. GivenBack(p) \in Values
    BY <1>1 DEF GivenBack, Panel
  <2>3. lines \in Seq(Line)
    BY <1>2, <1>3, <2>1, <2>2
  <2>4. m \in Panel /\ m.life \notin {"absent", "live"}
    BY <2>1 DEF Gone
  <2> QED BY <1>0, <2>1, <2>3, <2>4, SayingFollows
<1>10. CASE Die(p)
  <2>1. PICK m : Says(p, m, <<>>, Nothing) /\ Gone(m)
    BY <1>0, <1>10, DieSays
  <2>2. m \in Panel /\ m.life \notin {"absent", "live"}
    BY <2>1 DEF Gone
  <2> QED BY <1>0, <1>3, <2>1, <2>2, SayingFollows
<1> QED BY <1>0, <1>4, <1>5, <1>6, <1>7, <1>8, <1>9, <1>10, HearingGoesOn DEF PanelSteps

(* The line that is run is the last configure, or leaves one behind it. *)
LEMMA DispatchFollows ==
    ASSUME TInv, NEW p \in Conns, Follows(p), Dispatch(p)
    PROVE  Follows(p)'
<1>0. PanelsTypeOK
  BY DEF TInv
<1>1. /\ wire[p] # <<>> /\ wire'[p] = Tail(wire[p]) /\ UNCHANGED panel
      /\ Head(wire[p]) \in Line /\ wire[p] \in Seq(Line)
  BY <1>0, DispatchLeaves, Typed
<1>2. \A file : LastSays(wire[p], file) =>
        /\ LastSays(wire'[p], file)
        /\ Unasked(wire'[p]) => IF Head(wire[p]).verb = "configure"
                                  THEN Head(wire[p]).file = file ELSE Unasked(wire[p])
  BY <1>1, OneLess
<1>3. CASE Head(wire[p]).verb = "configure"
  <2>1. record' = Recorded(Head(wire[p]).file)
    BY <1>3 DEF Dispatch, Configure
  <2>2. \A file \in UserFiles : Head(wire[p]).file = file => record' = file
    BY <2>1, Distinct DEF Recorded
  <2> QED BY <1>1, <1>2, <1>3, <2>2 DEF Follows, Live
<1>4. CASE Head(wire[p]).verb # "configure"
  <2>1. record' = record
    BY <1>1, <1>4 DEF Dispatch, AskSeat, AskShare, sharing, Line
  <2> QED BY <1>1, <1>2, <1>4, <2>1 DEF Follows, Live
<1> QED BY <1>3, <1>4

RInv == TInv /\ OneAtATime /\ \A p \in Conns : Follows(p)

(* Every step keeps the record, or a line on its way to it, at what panels remember. *)
LEMMA RInvStep ==
    ASSUME ~Overlap, RInv, [PanelsNext]_allVars
    PROVE  RInv'
<1>0. TInv /\ PanelsTypeOK /\ TypeOK /\ OneAtATime /\ \A p \in Conns : Follows(p)
  BY DEF RInv, TInv, PanelsTypeOK
<1>1. TInv' /\ OneAtATime'
  BY <1>0, TInvStep, OneAtATimeStep
<1>2. ASSUME NEW q \in Conns, panel'[q] = panel[q], wire'[q] = wire[q], record' = record
      PROVE  Follows(q)'
  BY <1>0, <1>2 DEF Follows, Live
<1>3. ASSUME NEW p \in Conns, PanelSteps(p)  PROVE \A q \in Conns : Follows(q)'
  <2>1. record' = record
    <3>1. PICK m, lines, a : Says(p, m, lines, a)
      BY <1>0, <1>3, PanelStepsSay
    <3> QED BY <3>1 DEF Says, sharing
  <2>2. \A q \in Conns \ {p} : Follows(q)'
    BY <1>0, <1>2, <1>3, <2>1, OthersStay
  <2> QED BY <1>0, <1>3, <2>2, PanelStepsFollow
<1>4. ASSUME NEW p \in Conns, Dispatch(p)  PROVE \A q \in Conns : Follows(q)'
  <2>1. ASSUME NEW q \in Conns, q # p  PROVE Follows(q)'
    <3>1. Busy(p)
      BY <1>0, <1>4 DEF Dispatch, Busy, Quiet
    <3>2. ~Live(q)
      BY <1>0, <2>1, <3>1 DEF OneAtATime, Busy
    <3>3. panel'[q] = panel[q]
      BY <1>0, <1>4, <2>1, OthersStay
    <3> QED BY <1>0, <3>2, <3>3 DEF Follows, Live
  <2> QED BY <1>0, <1>4, <2>1, DispatchFollows
<1>5. ASSUME NEW p \in Conns, WorkerSteps(p)  PROVE \A q \in Conns : Follows(q)'
  <2>1. record' = record /\ UNCHANGED <<panel, wire>>
    BY <1>0, <1>5, WorkShape DEF WorkerSteps
  <2> QED BY <1>2, <2>1
<1>6. ASSUME UNCHANGED <<panel, wire, record>>  PROVE \A q \in Conns : Follows(q)'
  BY <1>2, <1>6
<1>7. ASSUME ShutdownSteps  PROVE \A q \in Conns : Follows(q)'
  BY <1>6, <1>7 DEF ShutdownSteps, BeginStop, Shutdown, WatchdogFires, StopTakesGate, StopLooks,
     StopWrites, StopChecks, StopGivesUp, Exit
<1>8. ASSUME Reload \/ UNCHANGED allVars  PROVE \A q \in Conns : Follows(q)'
  BY <1>6, <1>8 DEF Reload, UserSets, allVars, sharing
<1>9. ASSUME NEW v \in UserFiles \cup {None}, Edit(v)  PROVE \A q \in Conns : Follows(q)'
  BY <1>6, <1>9 DEF Edit, UserSets
<1>10. \A q \in Conns : Follows(q)'
  BY <1>3, <1>4, <1>5, <1>7, <1>8, <1>9 DEF PanelsNext
<1> QED BY <1>1, <1>10 DEF RInv

(* Whatever the user edits, as often as they like: a panel that has read the file
   and whose lines have all been run has it in the record. *)
THEOREM TheRecordFollows ==
    ASSUME ~Overlap
    PROVE  PanelsSpec => []RecordFollowsTheEdit
<1>1. PanelsInit => RInv
  <2> SUFFICES ASSUME PanelsInit PROVE RInv
    OBVIOUS
  <2>1. \A p \in Conns : Follows(p)
    BY DEF PanelsInit, Follows, Live, Absent
  <2> QED BY <2>1, InitTInv, InitOneAtATime DEF RInv
<1>2. RInv /\ [PanelsNext]_allVars => RInv'
  BY RInvStep
<1>3. RInv => RecordFollowsTheEdit
  <2> SUFFICES ASSUME RInv, NEW p \in Conns, Live(p), Quiet(p), panel[p].observed,
                      panel[p].literal = users, users \in Existing
               PROVE  record = users
    BY DEF RecordFollowsTheEdit
  <2>1. Unasked(wire[p])
    BY DEF Quiet, Unasked
  <2> QED BY <2>1, PanelAssumption DEF RInv, Follows
<1> QED BY <1>1, <1>2, <1>3, PTL DEF PanelsSpec

-----------------------------------------------------------------------------
(* The user's setting, where panels follow one another, it is not edited, and an
   absolute path names a file that exists. *)
Successive == ~Overlap /\ MaxEdits = 0 /\ Absolute \subseteq Existing

Kept == record = users
(* What may be found between two transactions. *)
Mine == {users, Published}
(* What a panel makes of a reading of the user's own. *)
OwnFile == IF users \in Existing THEN users ELSE None

(* A panel that would give back the user's own. *)
Knowing(m) == m.observed \/ m.mem = users
Told(p) == Live(p) => Knowing(panel[p])

PanelKnows(p) ==
    /\ panel[p].life = "absent" => Quiet(p)
    /\ panel[p].mem \in {None, users}
    /\ panel[p].observed => panel[p].literal = users /\ panel[p].mem = OwnFile
    /\ panel[p].facts \/ panel[p].shared \/ panel[p].run # "none" => Kept /\ Knowing(panel[p])
    /\ panel[p].life = "absent" =>
         ~panel[p].observed /\ ~panel[p].facts /\ ~panel[p].shared /\ panel[p].run = "none"

(* What the lines under way carry. *)
LineKnows(line) ==
    /\ line.verb = "configure" =>
         /\ lastSeen # Unknown
         /\ line.file = users \/ (line.file = None /\ users \notin Existing)
    /\ line.verb = "share" => Kept /\ line.file \in Mine
    /\ line.verb = "caps" => Kept

WireKnows(p) == \A line \in Lines(p) : LineKnows(line) /\ (line.verb # "seat" => Told(p))

AnswerKnows(p) ==
    /\ answer[p].word = "seat" =>
         /\ lastSeen # Unknown
         /\ answer[p].file \in Mine
         /\ answer[p].file # users => Kept /\ Restorable(users)
    /\ answer[p].word \notin {"none", "seat", "noSeat"} => Kept /\ Told(p)

JobKnows(p) ==
    /\ job[p].at = "observe" =>
         /\ job[p].current \in Mine
         /\ job[p].current # users => Kept /\ Restorable(users)
    /\ job[p].at \notin {"idle", "seat", "observe"} => Kept /\ Told(p) /\ job[p].wanted \in Mine
    /\ job[p].at \in Inside \ {"read"} => job[p].current \in Mine
    /\ job[p].at \in Changing \cup {"confirmed"} => job[p].captured = users /\ Restorable(users)

ConnKnows(p) == PanelKnows(p) /\ WireKnows(p) /\ AnswerKnows(p) /\ JobKnows(p)

HelperKnows ==
    /\ record \in {None, users}
    /\ lastSeen \in Mine \cup {Unknown}
    /\ lastSeen = Published => Kept
    /\ comp # users => Kept /\ Restorable(users)
    /\ comp \in Mine \/ \E p \in Conns : gate = p /\ job[p].at \in Changing
    /\ phase \in {"giveBack", "check"} => Kept /\ Restorable(users)
    /\ outcome \in {"notOurs", "restored"} => comp = users

UInv ==
    /\ TInv /\ IInv /\ OneAtATime
    /\ ~lost => HelperKnows /\ \A p \in Conns : ConnKnows(p)

(* The user's setting is neither the helper's nor a word of the model's. *)
LEMMA UserTypes ==
    ASSUME PanelsTypeOK
    PROVE  /\ users \in UserFiles \cup {None} /\ Existing \subseteq UserFiles
           /\ None \notin UserFiles /\ Published \notin UserFiles /\ Unknown \notin UserFiles
           /\ None # Published /\ None # Unknown /\ Published # Unknown
           /\ users # Published /\ users # Unknown
           /\ Restorable(users) /\ Successive => users \in Existing \/ users = None
  BY FileAssumption, PanelAssumption
     DEF PanelsTypeOK, None, Published, Unknown, Restorable, Successive

(* A connection nothing happens to goes on knowing: the record, once it names the
   user's, goes on naming it. *)
LEMMA StillKnows ==
    ASSUME NEW q \in Conns, ConnKnows(q),
           panel'[q] = panel[q], wire'[q] = wire[q], answer'[q] = answer[q], job'[q] = job[q],
           users' = users, Kept => Kept', lastSeen # Unknown => lastSeen' # Unknown
    PROVE  ConnKnows(q)'
<1>1. PanelKnows(q)'
  BY DEF ConnKnows, PanelKnows, Quiet, At, Knowing, OwnFile
<1>2. Told(q)' <=> Told(q)
  BY DEF Told, Live, Knowing
<1>3. WireKnows(q)'
  BY <1>2 DEF ConnKnows, WireKnows, LineKnows, Lines, Mine
<1>4. AnswerKnows(q)'
  BY <1>2 DEF ConnKnows, AnswerKnows, Mine, Restorable
<1>5. JobKnows(q)'
  BY <1>2 DEF ConnKnows, JobKnows, Mine, Restorable
<1> QED BY <1>1, <1>3, <1>4, <1>5 DEF ConnKnows

(* What a step of a panel makes of what it knows. *)
LEMMA SayingKnows ==
    ASSUME PanelsTypeOK, NEW p \in Conns, ConnKnows(p),
           NEW m \in Panel, NEW lines \in Seq(Line), NEW a \in {answer[p], Nothing},
           Says(p, m, lines, a),
           m.life # "absent", m.mem \in {None, users},
           m.observed => m.literal = users /\ m.mem = OwnFile,
           m.facts \/ m.shared \/ m.run # "none" => Kept /\ Knowing(m),
           Quiet(p) \/ (m.life = "live" /\ Told(p) => Knowing(m)),
           \A line \in Elems(lines) :
              LineKnows(line) /\ (line.verb # "seat" /\ m.life = "live" => Knowing(m))
    PROVE  ConnKnows(p)'
<1>1. /\ panel'[p] = m /\ wire'[p] = wire[p] \o lines /\ answer'[p] = a
      /\ job'[p] = job[p] /\ record' = record /\ lastSeen' = lastSeen /\ users' = users
  BY Typed DEF Says, sharing
<1>2. PanelKnows(p)'
  BY <1>1 DEF PanelKnows, Knowing, Kept, OwnFile
<1>3. Quiet(p) \/ (Told(p) => Told(p)')
  BY <1>1 DEF Told, Live, Knowing
<1>4. Quiet(p) => wire[p] = <<>> /\ job[p].at = "idle" /\ a = Nothing
  BY DEF Quiet, At
<1>5. WireKnows(p)'
  <2> SUFFICES ASSUME NEW line \in Elems(wire[p] \o lines)
               PROVE  LineKnows(line)' /\ (line.verb # "seat" => Told(p)')
    BY <1>1, LinesAreElems DEF WireKnows, Lines, Elems
  <2>1. line \in Elems(wire[p]) \/ line \in Elems(lines)
    BY Typed, Joined
  <2>2. LineKnows(line) => LineKnows(line)'
    BY <1>1 DEF LineKnows, Kept, Mine
  <2>3. CASE line \in Elems(lines)
    BY <1>1, <2>2, <2>3 DEF Told, Live, Knowing
  <2>4. CASE line \in Elems(wire[p])
    <3>1. ~Quiet(p)
      BY <1>4, <2>4, Few
    <3>2. LineKnows(line) /\ (line.verb # "seat" => Told(p))
      BY <2>4, LinesAreElems DEF ConnKnows, WireKnows
    <3> QED BY <1>3, <2>2, <3>1, <3>2
  <2> QED BY <2>1, <2>3, <2>4
<1>6. AnswerKnows(p)'
  <2>1. CASE a = Nothing
    BY <1>1, <2>1, PlainLines DEF AnswerKnows
  <2>2. CASE a = answer[p] /\ a # Nothing
    <3>1. Told(p) => Told(p)'
      BY <1>3, <1>4, <2>2
    <3> QED BY <1>1, <2>2, <3>1 DEF ConnKnows, AnswerKnows, Mine, Kept, Restorable
  <2> QED BY <2>1, <2>2
<1>7. JobKnows(p)'
  <2>1. CASE Quiet(p)
    BY <1>1, <1>4, <2>1 DEF JobKnows, Inside, Changing
  <2>2. CASE ~Quiet(p)
    <3>1. Told(p) => Told(p)'
      BY <1>3, <2>2
    <3> QED BY <1>1, <3>1 DEF ConnKnows, JobKnows, Mine, Kept, Restorable
  <2> QED BY <2>1, <2>2
<1> QED BY <1>2, <1>5, <1>6, <1>7 DEF ConnKnows

(* The single lines a panel writes. *)
LEMMA PlainKnown ==
    /\ <<Seat>> \in Seq(Line) /\ <<Caps>> \in Seq(Line) /\ <<>> \in Seq(Line)
    /\ \A line \in Elems(<<Seat>>) : line.verb = "seat"
    /\ \A line \in Elems(<<Caps>>) : line.verb = "caps"
    /\ Elems(<<>>) = {}
    /\ \A v \in Values :
         /\ <<Configured(v)>> \in Seq(Line)
         /\ \A line \in Elems(<<Configured(v)>>) : line.verb = "configure" /\ line.file = v
         /\ <<Share(v)>> \in Seq(Line)
         /\ \A line \in Elems(<<Share(v)>>) : line.verb = "share" /\ line.file = v
  BY PlainLines, Few

(* Acknowledged, the panel has the user's own, and so has the record. *)
LEMMA AckedKnows ==
    ASSUME NEW p, ConnKnows(p), Acked(p), Live(p)
    PROVE  Kept /\ Knowing(panel[p])
  BY DEF ConnKnows, PanelKnows, AnswerKnows, Acked, Told

(* A reading of the published keymap: the record has the user's own. *)
LEMMA RecoveredIsTheUsers ==
    ASSUME TInv, Successive, HelperKnows, NEW p \in Conns, ConnKnows(p),
           answer[p].word = "seat", answer[p].file = Published
    PROVE  /\ Recover(panel[p]).mem = users
           /\ users \in Existing \cup {None} /\ OwnFile = users
<1>1. /\ Kept /\ Restorable(users) /\ users \in Existing \cup {None} /\ users # Published
      /\ None \notin Existing
  BY UserTypes DEF TInv, ConnKnows, AnswerKnows
<1>2. OwnFile = users
  BY <1>1 DEF OwnFile
<1>3. panel[p] \in Panel
  BY Typed DEF TInv
<1>4. panel[p].mem \in {None, users} /\ (panel[p].observed => panel[p].mem = users)
  BY <1>2 DEF ConnKnows, PanelKnows
<1>5. Recover(panel[p]).mem = IF panel[p].mem = None /\ ~panel[p].observed /\ record \in Existing
                                 THEN record ELSE panel[p].mem
  BY <1>3, Recovered
<1> QED BY <1>1, <1>2, <1>4, <1>5 DEF Kept

(* Every step of a panel leaves it knowing, and what it writes with it. *)
LEMMA PanelStepsKnow ==
    ASSUME TInv, Successive, HelperKnows, NEW p \in Conns, ConnKnows(p), PanelSteps(p)
    PROVE  ConnKnows(p)'
<1>0. PanelsTypeOK /\ PanelKnows(p) /\ AnswerKnows(p)
  BY DEF TInv, ConnKnows
<1>1. /\ panel[p] \in Panel /\ answer[p] \in Reply /\ None \in Values /\ Published \in Values
      /\ UserFiles \subseteq Values /\ users \in Values /\ users # Published
      /\ Published \in Mine /\ users \in Mine
  BY <1>0, Typed, Distinct, UserTypes DEF Mine
<1>2. CASE Open(p)
  <2>1. PICK b \in Panel :
             /\ Says(p, Recover(b), <<Seat>>, answer[p])
             /\ panel[p].life = "absent" /\ b.life = "live"
             /\ b.mem = panel[p].mem /\ b.observed = panel[p].observed
             /\ b.literal = panel[p].literal /\ b.facts = panel[p].facts
             /\ b.shared = panel[p].shared /\ b.run = panel[p].run
    BY <1>0, <1>2, OpenSays
  <2> DEFINE m == Recover(b)
  <2>2. /\ m \in Panel /\ m.life = "live" /\ ~m.observed /\ ~m.facts /\ ~m.shared
        /\ m.run = "none" /\ m.mem \in {record, panel[p].mem}
    BY <1>0, <2>1, Recovered DEF PanelKnows
  <2>3. m.mem \in {None, users}
    BY <1>0, <2>2 DEF HelperKnows, PanelKnows
  <2>4. Quiet(p)
    BY <1>0, <2>1 DEF PanelKnows
  <2>5. Says(p, m, <<Seat>>, answer[p])
    BY <2>1
  <2> HIDE DEF m
  <2>6. \A line \in Elems(<<Seat>>) :
          LineKnows(line) /\ (line.verb # "seat" /\ m.life = "live" => Knowing(m))
    BY PlainKnown DEF LineKnows
  <2> QED BY <1>0, <2>2, <2>3, <2>4, <2>5, <2>6, PlainKnown, SayingKnows
<1>3. CASE AskAgain(p)
  <2>1. Says(p, panel[p], <<Seat>>, answer[p]) /\ panel[p].life = "live"
    BY <1>0, <1>3, AskAgainSays DEF Live
  <2>2. PICK m \in Panel : m = panel[p]
    BY <1>1
  <2>3. /\ Says(p, m, <<Seat>>, answer[p])
        /\ m.life # "absent" /\ m.mem \in {None, users}
        /\ m.observed => m.literal = users /\ m.mem = OwnFile
        /\ m.facts \/ m.shared \/ m.run # "none" => Kept /\ Knowing(m)
        /\ m.life = "live" /\ Told(p) => Knowing(m)
    BY <1>0, <2>1, <2>2 DEF PanelKnows, Told, Live
  <2>4. \A line \in Elems(<<Seat>>) :
          LineKnows(line) /\ (line.verb # "seat" /\ m.life = "live" => Knowing(m))
    BY PlainKnown DEF LineKnows
  <2> QED BY <1>0, <2>3, <2>4, PlainKnown, SayingKnows
<1>4. CASE HearPublished(p)
  <2>1. /\ Says(p, Recover(panel[p]), <<Configured(Recover(panel[p]).mem)>>, Nothing)
        /\ panel[p].life = "live" /\ answer[p].word = "seat" /\ answer[p].file = Published
    BY <1>0, <1>4, HearPublishedSays DEF Live
  <2>2. Recover(panel[p]).mem = users /\ OwnFile = users
    BY <2>1, RecoveredIsTheUsers
  <2>3. PICK m \in Panel : m = Recover(panel[p])
    BY <1>1, Recovered
  <2>4. /\ m.life = "live" /\ m.mem = users /\ Knowing(m)
        /\ m.observed => m.literal = users /\ m.mem = OwnFile
        /\ m.facts \/ m.shared \/ m.run # "none" => Kept
    BY <1>0, <1>1, <2>1, <2>2, <2>3, Recovered DEF PanelKnows, Knowing
  <2>5. Says(p, m, <<Configured(users)>>, Nothing)
    BY <2>1, <2>2, <2>3
  <2>6. lastSeen # Unknown
    BY <1>0, <2>1 DEF AnswerKnows
  <2>7. \A line \in Elems(<<Configured(users)>>) : LineKnows(line)
    BY <1>1, <2>6, PlainKnown DEF LineKnows
  <2>8. <<Configured(users)>> \in Seq(Line)
    BY <1>1, PlainKnown
  <2> QED BY <1>0, <2>4, <2>5, <2>7, <2>8, SayingKnows
<1>5. CASE HearOwn(p)
  <2>1. PICK m \in Panel :
             /\ Says(p, m, Ahead(p) \o <<Configured(Read(p))>>, Nothing)
             /\ Live(p) /\ answer[p].word = "seat" /\ answer[p].file # Published
             /\ m.life = "live" /\ m.mem = Read(p)
             /\ m.observed /\ m.literal = answer[p].file
             /\ m.facts = panel[p].facts /\ m.shared = FALSE
             /\ m.run = IF Again(p) THEN "sent" ELSE panel[p].run
    BY <1>0, <1>5, HearOwnSays
  <2>2. answer[p].file = users /\ lastSeen # Unknown
    BY <1>0, <2>1 DEF AnswerKnows, Mine
  <2>3. Read(p) = OwnFile /\ OwnFile \in {None, users}
    BY <2>2 DEF Read, OwnFile
  <2>4. Read(p) \in Values
    BY <1>1, <2>3
  <2>5. m.facts \/ m.shared \/ m.run # "none" => Kept
    BY <1>0, <2>1 DEF PanelKnows, Again
  <2>6. Again(p) => Kept
    BY <1>0 DEF PanelKnows, Again
  <2>7. Ahead(p) \in Seq(Line) /\ \A line \in Elems(Ahead(p)) : LineKnows(line)
    <3>1. CASE Again(p)
      <4>1. Ahead(p) = <<Share(Published)>>
        BY <3>1 DEF Ahead
      <4>2. <<Share(Published)>> \in Seq(Line)
            /\ \A line \in Elems(<<Share(Published)>>) :
                 line.verb = "share" /\ line.file = Published
        BY <1>1, PlainKnown
      <4>3. \A line \in Elems(Ahead(p)) : line.verb = "share" /\ line.file = Published
        BY <4>1, <4>2
      <4> QED BY <1>1, <2>6, <3>1, <4>1, <4>2, <4>3 DEF LineKnows
    <3>2. CASE ~Again(p)
      BY <3>2, PlainKnown DEF Ahead
    <3> QED BY <3>1, <3>2
  <2> DEFINE c == <<Configured(Read(p))>>
  <2>8. c \in Seq(Line) /\ \A line \in Elems(c) : line.verb = "configure" /\ line.file = Read(p)
    BY <2>4, PlainKnown
  <2>9. \A line \in Elems(c) : LineKnows(line)
    BY <2>2, <2>3, <2>8 DEF LineKnows, OwnFile
  <2> HIDE DEF c
  <2>10. Ahead(p) \o c \in Seq(Line) /\ Elems(Ahead(p) \o c) = Elems(Ahead(p)) \cup Elems(c)
    BY <2>7, <2>8, Joined
  <2>11. /\ Says(p, m, Ahead(p) \o c, Nothing) /\ Knowing(m)
         /\ m.mem \in {None, users} /\ m.literal = users /\ m.mem = OwnFile
    BY <2>1, <2>2, <2>3 DEF c, Knowing
  <2>12. \A line \in Elems(Ahead(p) \o c) : LineKnows(line)
    BY <2>7, <2>9, <2>10
  <2> QED BY <1>0, <2>1, <2>5, <2>10, <2>11, <2>12, SayingKnows
<1>6. ASSUME NEW m, NEW lines, NEW a, GoesOn(p, m, lines, a)  PROVE ConnKnows(p)'
  <2>1. /\ Says(p, m, lines, a) /\ m \in Panel /\ a \in {answer[p], Nothing}
        /\ panel[p].life = "live" /\ Live(p) /\ m.life = "live"
        /\ m.mem = panel[p].mem /\ m.observed = panel[p].observed /\ m.literal = panel[p].literal
        /\ m.facts \/ m.shared \/ m.run # "none" => Acked(p)
        /\ lines \in {<<>>, <<Caps>>, <<Share(Published)>>}
        /\ lines # <<>> => Acked(p)
    BY <1>6 DEF GoesOn, Live
  <2>2. Acked(p) => Kept /\ Knowing(m)
    BY <2>1, AckedKnows DEF Knowing
  <2>3. lines \in Seq(Line) /\ \A line \in Elems(lines) : LineKnows(line) /\ Knowing(m)
    <3>1. CASE lines = <<>>
      BY <3>1, PlainKnown
    <3>2. CASE lines = <<Caps>>
      <4>1. <<Caps>> # <<>>
        OBVIOUS
      <4> QED BY <2>1, <2>2, <3>2, <4>1, PlainKnown DEF LineKnows
    <3>3. CASE lines = <<Share(Published)>>
      <4>1. <<Share(Published)>> # <<>>
        OBVIOUS
      <4>2. <<Share(Published)>> \in Seq(Line)
            /\ \A line \in Elems(<<Share(Published)>>) :
                 line.verb = "share" /\ line.file = Published
        BY <1>1, PlainKnown
      <4> QED BY <1>1, <2>1, <2>2, <3>3, <4>1, <4>2 DEF LineKnows
    <3> QED BY <2>1, <3>1, <3>2, <3>3
  <2>4. /\ m.mem \in {None, users}
        /\ m.observed => m.literal = users /\ m.mem = OwnFile
        /\ m.life = "live" /\ Told(p) => Knowing(m)
    BY <1>0, <2>1 DEF PanelKnows, Told, Live, Knowing
  <2> QED BY <1>0, <2>1, <2>2, <2>3, <2>4, SayingKnows
<1>7. ASSUME NEW m, NEW lines, Says(p, m, lines, Nothing), Gone(m), lines \in Seq(Line),
             \A line \in Elems(lines) : LineKnows(line)
      PROVE  ConnKnows(p)'
  <2>1. /\ m \in Panel /\ m.life \notin {"absent", "live"} /\ m.mem = None
        /\ ~m.observed /\ ~m.facts /\ ~m.shared /\ m.run = "none"
    BY <1>7 DEF Gone
  <2> QED BY <1>0, <1>7, <2>1, SayingKnows
<1>8. CASE Close(p)
  <2>1. PICK m, lines :
             /\ Says(p, m, lines, Nothing) /\ Gone(m) /\ Live(p)
             /\ \/ lines = <<>>
                \/ lines = <<Share(GivenBack(p))>> /\ panel[p].shared
    BY <1>0, <1>8, CloseSays
  <2>2. CASE lines = <<>>
    BY <1>7, <2>1, <2>2, PlainKnown
  <2>3. CASE lines = <<Share(GivenBack(p))>> /\ panel[p].shared
    <3>1. Kept /\ GivenBack(p) = users
      BY <1>0, <2>3 DEF PanelKnows, Knowing, GivenBack
    <3>2. lines \in Seq(Line) /\ \A line \in Elems(lines) : line.verb = "share" /\ line.file = users
      BY <1>1, <2>3, <3>1, PlainKnown
    <3> QED BY <1>1, <1>7, <2>1, <3>1, <3>2 DEF LineKnows
  <2> QED BY <2>1, <2>2, <2>3
<1>9. CASE Die(p)
  <2>1. PICK m : Says(p, m, <<>>, Nothing) /\ Gone(m)
    BY <1>0, <1>9, DieSays
  <2> QED BY <1>7, <2>1, PlainKnown
<1> QED BY <1>0, <1>2, <1>3, <1>4, <1>5, <1>6, <1>8, <1>9, HearingGoesOn DEF PanelSteps

(* A worker going on: what it leaves in the compositor, has seen, and holds. *)
Keeps(p) ==
    /\ comp' \in Mine \/ (gate' = p /\ job'[p].at \in Changing)
    /\ comp' # users => Kept /\ Restorable(users)
    /\ lastSeen' \in Mine \cup {Unknown}
    /\ lastSeen # Unknown => lastSeen' # Unknown
    /\ lastSeen' = Published => Kept
    /\ JobKnows(p)'

(* A worker under way, with nobody else's change in the compositor. *)
OnItsOwn(p) ==
    /\ TInv /\ GateIsHeld /\ HelperKnows /\ JobKnows(p)
    /\ comp \in Mine \/ job[p].at \in Changing
    /\ UNCHANGED <<record, users, panel>>

(* A worker that ends. *)
LEMMA IdleKeeps ==
    ASSUME NEW p \in Conns, OnItsOwn(p), job'[p] = Idle,
           comp' \in Mine, comp' # users => Kept /\ Restorable(users),
           lastSeen' = lastSeen \/ (lastSeen' \in Mine /\ (lastSeen' = Published => Kept))
    PROVE  Keeps(p)
<1>1. JobKnows(p)'
  BY DEF JobKnows, Idle, Inside, Changing
<1>2. Unknown \notin Mine
  BY UserTypes DEF OnItsOwn, TInv, Mine
<1> QED BY <1>1, <1>2 DEF Keeps, OnItsOwn, HelperKnows

(* A worker moved on, what it holds as it was. *)
LEMMA GotoKeeps ==
    ASSUME NEW p \in Conns, OnItsOwn(p), NEW where, Goto(p, where),
           where \in Inside, gate' = p, job[p].at \in Inside \cup {"gate"},
           where = "read" \/ job[p].current \in Mine,
           where \in Changing \cup {"confirmed"} =>
               job[p].captured = users /\ Restorable(users),
           comp' \in Mine \/ where \in Changing, comp' # users => Kept /\ Restorable(users),
           lastSeen' = lastSeen \/ (lastSeen' \in Mine /\ (lastSeen' = Published => Kept))
    PROVE  Keeps(p)
<1>1. /\ job'[p].at = where /\ job'[p].wanted = job[p].wanted
      /\ job'[p].current = job[p].current /\ job'[p].captured = job[p].captured
  BY GotoShape DEF OnItsOwn, TInv, PanelsTypeOK
<1>2. Kept /\ Told(p) /\ job[p].wanted \in Mine
  BY DEF OnItsOwn, JobKnows, Inside, Changing
<1>3. Kept' /\ Told(p)' /\ Mine' = Mine /\ users' = users
  BY <1>2 DEF OnItsOwn, Kept, Told, Live, Knowing, Mine
<1>4. JobKnows(p)'
  BY <1>1, <1>2, <1>3 DEF JobKnows, Restorable, Inside, Changing
<1>5. Unknown \notin Mine
  BY UserTypes DEF OnItsOwn, TInv, Mine
<1> QED BY <1>1, <1>4, <1>5 DEF Keeps, OnItsOwn, HelperKnows

(* What a worker that may have to undo its change holds. *)
LEMMA ChangingHolds ==
    ASSUME NEW p \in Conns, OnItsOwn(p), job[p].at \in Changing
    PROVE  /\ gate = p /\ job[p].captured = users /\ Restorable(users) /\ Kept
           /\ job[p].wanted \in Mine /\ job[p].current \in Mine
  BY DEF OnItsOwn, GateIsHeld, JobKnows, Inside, Changing

(* A worker that goes on with its change, or begins to undo it. *)
LEMMA ChangeKeeps ==
    ASSUME NEW p \in Conns, OnItsOwn(p), ~lost', job[p].at \in Changing,
           NEW where \in {"write", "confirm"}, Proceed(p, where) \/ Undo(p),
           UNCHANGED lastSeen
    PROVE  Keeps(p)
<1>1. CASE Proceed(p, where)
  BY <1>1, ChangingHolds, GotoKeeps DEF Proceed, Inside, Changing
<1>2. CASE Undo(p)
  <2>1. Goto(p, "putBack") /\ UNCHANGED gate
    BY <1>2, ChangingHolds DEF Undo
  <2> QED BY <2>1, ChangingHolds, GotoKeeps DEF Inside, Changing
<1> QED BY <1>1, <1>2

(* Whatever a worker does next, it keeps to the user's own and the helper's. *)
LEMMA WorkKeeps ==
    ASSUME NEW p \in Conns, OnItsOwn(p), Work(p), ~lost'
    PROVE  Keeps(p)
<1>0. /\ TypeOK /\ users # Published /\ JobKnows(p)
      /\ job[p] \in Job /\ DOMAIN job = Conns
      /\ comp # users => Kept /\ Restorable(users)
  BY UserTypes DEF OnItsOwn, TInv, PanelsTypeOK, TypeOK, HelperKnows
<1>1. ASSUME job[p].at \notin Changing, UNCHANGED comp  PROVE comp' \in Mine
  BY <1>1 DEF OnItsOwn, Mine
<1>2. Kept' = Kept /\ Told(p)' = Told(p) /\ Mine' = Mine /\ Restorable(users)' = Restorable(users)
  BY DEF OnItsOwn, Kept, Told, Live, Knowing, Mine, Restorable
<1>3. CASE ReadSeat(p)
  <2>1. job[p].at = "seat" /\ UNCHANGED <<comp, lastSeen, gate>>
    BY <1>3 DEF ReadSeat, At
  <2>2. comp \in Mine /\ comp' \in Mine
    BY <1>1, <2>1 DEF OnItsOwn, Changing
  <2>3. CASE job' = [job EXCEPT ![p].at = "observe", ![p].current = comp]
    <3>1. job' = [job EXCEPT ![p] = [job[p] EXCEPT !.at = "observe", !.current = comp]]
      BY <2>3
    <3>2. job'[p].at = "observe" /\ job'[p].current = comp
      BY <1>0, <3>1 DEF Job
    <3>3. JobKnows(p)'
      BY <1>0, <1>2, <2>2, <3>2 DEF JobKnows, Inside, Changing, OnItsOwn
    <3> QED BY <1>0, <2>1, <2>2, <3>3 DEF Keeps, OnItsOwn, HelperKnows
  <2>4. CASE Answer(p)
    BY <1>0, <2>1, <2>2, <2>4, AnswerShape, IdleKeeps
  <2> QED BY <1>3, <2>3, <2>4 DEF ReadSeat
<1>4. CASE ObserveSeat(p)
  <2>1. /\ job[p].at = "observe" /\ UNCHANGED comp /\ lastSeen' = job[p].current
        /\ Answer(p)
    BY <1>4 DEF ObserveSeat, At
  <2>2. lastSeen' \in Mine /\ (lastSeen' = Published => Kept)
    BY <1>0, <2>1 DEF JobKnows
  <2>3. comp' \in Mine
    BY <1>1, <2>1 DEF Changing
  <2> QED BY <1>0, <2>1, <2>2, <2>3, AnswerShape, IdleKeeps
<1>5. CASE TakeGate(p)
  <2>1. job[p].at = "gate" /\ UNCHANGED <<comp, lastSeen>>
    BY <1>5 DEF TakeGate, At
  <2>2. comp' \in Mine
    BY <1>1, <2>1 DEF Changing
  <2>3. CASE ToldToStop
    BY <1>0, <1>5, <2>1, <2>2, <2>3, AnswerShape, IdleKeeps DEF TakeGate, Enter
  <2>4. CASE ~ToldToStop
    <3>1. Goto(p, "read") /\ gate' = p
      BY <1>5, <2>4 DEF TakeGate, Enter
    <3> QED BY <1>0, <2>1, <2>2, <3>1, GotoKeeps DEF Inside, Changing
  <2> QED BY <2>3, <2>4
<1>6. CASE GateTimesOut(p)
  <2>1. job[p].at = "gate" /\ UNCHANGED <<comp, lastSeen>> /\ Answer(p)
    BY <1>6 DEF GateTimesOut, At
  <2>2. comp' \in Mine
    BY <1>1, <2>1 DEF Changing
  <2> QED BY <1>0, <2>1, <2>2, AnswerShape, IdleKeeps
<1>7. CASE ReadCurrent(p)
  <2>1. job[p].at = "read" /\ UNCHANGED <<comp, lastSeen>>
    BY <1>7 DEF ReadCurrent, At
  <2>2. comp \in Mine /\ comp' \in Mine
    BY <1>1, <2>1 DEF OnItsOwn, Changing
  <2>3. CASE job' = [job EXCEPT ![p].at = "seen", ![p].current = comp]
    <3>1. job' = [job EXCEPT ![p] = [job[p] EXCEPT !.at = "seen", !.current = comp]]
      BY <2>3
    <3>2. job'[p].at = "seen" /\ job'[p].current = comp /\ job'[p].wanted = job[p].wanted
      BY <1>0, <3>1 DEF Job
    <3>3. JobKnows(p)'
      BY <1>0, <1>2, <2>1, <2>2, <3>2 DEF JobKnows, Inside, Changing, OnItsOwn
    <3> QED BY <1>0, <2>1, <2>2, <3>3 DEF Keeps, OnItsOwn, HelperKnows
  <2>4. CASE Leave(p)
    BY <1>0, <2>1, <2>2, <2>4, AnswerShape, IdleKeeps DEF Leave
  <2> QED BY <1>7, <2>3, <2>4 DEF ReadCurrent
<1>8. CASE ObserveCurrent(p)
  <2>1. /\ job[p].at = "seen" /\ UNCHANGED <<comp, gate>> /\ lastSeen' = job[p].current
        /\ Goto(p, "capture")
    BY <1>8 DEF ObserveCurrent, At
  <2>2. job[p].current \in Mine /\ Kept /\ gate = p
    BY <1>0, <2>1 DEF JobKnows, Inside, Changing, OnItsOwn, GateIsHeld
  <2>3. comp' \in Mine
    BY <1>1, <2>1 DEF Changing
  <2> QED BY <1>0, <2>1, <2>2, <2>3, GotoKeeps DEF Inside, Changing
<1>9. CASE CaptureCurrent(p)
  <2>1. job[p].at = "capture" /\ UNCHANGED <<comp, lastSeen>>
    BY <1>9 DEF CaptureCurrent, At
  <2>2. comp' \in Mine
    BY <1>1, <2>1 DEF Changing
  <2>3. CASE MayTakeOver(p) /\ ~ToldToStop
    <3>1. /\ job' = [job EXCEPT ![p] = [job[p] EXCEPT !.at = FirstStep(p),
                                                      !.captured = Capture(job[p].current)]]
          /\ UNCHANGED gate
      BY <1>9, <2>3 DEF CaptureCurrent
    <3>2. /\ job'[p].at = FirstStep(p) /\ job'[p].captured = Capture(job[p].current)
          /\ job'[p].wanted = job[p].wanted /\ job'[p].current = job[p].current
      BY <1>0, <3>1 DEF Job
    <3>3. FirstStep(p) \in {"clear", "write"}
      BY DEF FirstStep
    <3>4. job[p].current \in Mine /\ job[p].wanted \in Mine /\ Kept /\ gate = p
      BY <1>0, <2>1 DEF JobKnows, Inside, Changing, OnItsOwn, GateIsHeld
    <3>5. Capture(job[p].current) = users
      BY <1>0, <3>4 DEF Capture, Mine, Kept
    <3>6. Restorable(users)
      <4>1. CASE job[p].wanted = Published
        BY <2>3, <3>5, <4>1 DEF MayTakeOver
      <4>2. CASE job[p].wanted = users
        BY <1>0, <4>2 DEF Job, Restorable
      <4> QED BY <3>4, <4>1, <4>2 DEF Mine
    <3>7. JobKnows(p)'
      BY <1>0, <1>2, <2>1, <3>2, <3>3, <3>4, <3>5, <3>6
         DEF JobKnows, Inside, Changing, OnItsOwn
    <3> QED BY <1>0, <2>1, <2>2, <3>7 DEF Keeps, OnItsOwn, HelperKnows
  <2>4. CASE ~(MayTakeOver(p) /\ ~ToldToStop)
    BY <1>0, <1>9, <2>1, <2>2, <2>4, AnswerShape, IdleKeeps DEF CaptureCurrent, Leave
  <2> QED BY <2>3, <2>4
<1>10. CASE Clear(p)
  <2>1. job[p].at \in Changing /\ UNCHANGED lastSeen /\ (Proceed(p, "write") \/ Undo(p))
    BY <1>10 DEF Clear, At, Changing
  <2> QED BY <2>1, ChangeKeeps
<1>11. CASE Change(p)
  <2>1. job[p].at \in Changing /\ UNCHANGED lastSeen /\ (Proceed(p, "confirm") \/ Undo(p))
    BY <1>11 DEF Change, At, Changing
  <2> QED BY <2>1, ChangeKeeps
<1>12. CASE Confirm(p)
  <2>1. job[p].at \in Changing /\ UNCHANGED <<comp, lastSeen>>
    BY <1>12 DEF Confirm, At, Changing
  <2>2. CASE Undo(p)
    BY <2>1, <2>2, ChangeKeeps
  <2>3. CASE ReadsBack(p) /\ Proceed(p, "confirmed")
    <3>1. comp' \in Mine
      BY <2>1, <2>3, ChangingHolds DEF ReadsBack
    <3> QED BY <1>0, <2>1, <2>3, <3>1, ChangingHolds, GotoKeeps DEF Proceed, Inside
  <2> QED BY <1>12, <2>2, <2>3 DEF Confirm
<1>13. CASE ShareDone(p)
  <2>1. job[p].at = "confirmed" /\ UNCHANGED comp /\ lastSeen' = job[p].wanted /\ Answer(p)
    BY <1>13 DEF ShareDone, Leave, At
  <2>2. comp' \in Mine
    BY <1>1, <2>1 DEF Changing
  <2>3. job[p].wanted \in Mine /\ Kept
    BY <1>0, <2>1 DEF JobKnows, Inside
  <2> QED BY <1>0, <2>1, <2>2, <2>3, AnswerShape, IdleKeeps
<1>14. CASE PutBack(p)
  <2>1. job[p].at \in Changing /\ UNCHANGED lastSeen /\ Goto(p, "verify") /\ UNCHANGED gate
    BY <1>14 DEF PutBack, At, Changing
  <2> QED BY <2>1, ChangingHolds, GotoKeeps DEF Inside, Changing
<1>15. CASE Verify(p)
  <2>1. /\ job[p].at \in Changing /\ Answer(p)
        /\ comp = job[p].captured /\ comp' = comp /\ lastSeen' = job[p].captured
    BY <1>15 DEF Verify, Leave, At, Changing
  <2>2. comp' = users /\ lastSeen' = users /\ users \in Mine
    BY <2>1, ChangingHolds DEF Mine
  <2> QED BY <1>0, <2>1, <2>2, AnswerShape, IdleKeeps
<1> QED BY <1>3, <1>4, <1>5, <1>6, <1>7, <1>8, <1>9, <1>10, <1>11, <1>12, <1>13, <1>14, <1>15
    DEF Work

(* With one connection at a time, nobody else is changing anything. *)
LEMMA NobodyElse ==
    ASSUME TInv, GateIsHeld, OneAtATime, HelperKnows, NEW p \in Conns, Busy(p)
    PROVE  comp \in Mine \/ job[p].at \in Changing
<1> SUFFICES ASSUME NEW q \in Conns, job[q].at \in Changing  PROVE q = p
  BY DEF HelperKnows
<1>1. Busy(q)
  BY DEF Busy, Quiet, At, Changing
<1> QED BY <1>1 DEF OneAtATime

(* What a worker that ends tells its panel. *)
LEMMA VerdictKnows ==
    ASSUME NEW p \in Conns, OnItsOwn(p), Work(p), answer[p] = Nothing \/ AnswerKnows(p),
           lastSeen # Unknown => lastSeen' # Unknown,
           answer'[p] \in {answer[p], Verdict(p)}
    PROVE  AnswerKnows(p)'
<1>0. users # Unknown /\ Published # Unknown /\ Nothing.word = "none"
  BY UserTypes, PlainLines DEF OnItsOwn, TInv
<1>1. Kept' = Kept /\ Told(p)' = Told(p) /\ Mine' = Mine /\ Restorable(users)' = Restorable(users)
      /\ users' = users
  BY DEF OnItsOwn, Kept, Told, Live, Knowing, Mine, Restorable
<1>2. CASE answer'[p] = answer[p]
  BY <1>0, <1>1, <1>2 DEF AnswerKnows
<1>3. CASE answer'[p] = Verdict(p)
  <2>1. CASE job[p].at = "seat"
    <3>1. answer'[p].word = "noSeat"
      BY <1>3, <2>1 DEF Verdict, At, Nothing
    <3> QED BY <3>1 DEF AnswerKnows
  <2>2. CASE job[p].at = "observe"
    <3>1. answer'[p].word = "seat" /\ answer'[p].file = job[p].current
      BY <1>3, <2>2 DEF Verdict, At
    <3>2. ObserveSeat(p)
      BY <2>2 DEF Work, ReadSeat, TakeGate, GateTimesOut, ReadCurrent, ObserveCurrent,
         CaptureCurrent, Clear, Change, Confirm, ShareDone, PutBack, Verify, At
    <3>3. lastSeen' = job[p].current
      BY <3>2 DEF ObserveSeat
    <3>4. job[p].current \in Mine /\ (job[p].current # users => Kept /\ Restorable(users))
      BY <2>2 DEF OnItsOwn, JobKnows
    <3> QED BY <1>0, <1>1, <3>1, <3>3, <3>4 DEF AnswerKnows, Mine
  <2>3. CASE job[p].at \notin {"seat", "observe"}
    <3>1. Verdict(p).word \in {"ok", "unrestorable", "failed"}
      BY <2>3 DEF Verdict, At, Nothing
    <3>2. job[p].at # "idle"
      BY WorkIsBusy
    <3>3. Kept /\ Told(p)
      BY <2>3, <3>2 DEF OnItsOwn, JobKnows
    <3> QED BY <1>1, <1>3, <3>1, <3>3 DEF AnswerKnows
  <2> QED BY <2>1, <2>2, <2>3
<1> QED BY <1>2, <1>3

(* What the helper knows it goes on knowing, as a worker keeps to the two values. *)
LEMMA WorkerKnows ==
    ASSUME TInv, IInv, OneAtATime, HelperKnows, NEW p \in Conns, ConnKnows(p), ~lost',
           WorkerSteps(p)
    PROVE  /\ HelperKnows' /\ ConnKnows(p)'
           /\ Kept' = Kept /\ (lastSeen # Unknown => lastSeen' # Unknown)
<1>0. /\ PanelsTypeOK /\ TypeOK /\ GateIsHeld /\ RestoreIsFinal /\ JobKnows(p)
      /\ Work(p) /\ UNCHANGED <<panel, wire, users>>
  BY DEF TInv, PanelsTypeOK, IInv, ConnKnows, WorkerSteps
<1>1. UNCHANGED <<record, phase, outcome>>
  BY <1>0, WorkShape
<1>2. Busy(p)
  BY <1>0, WorkIsBusy DEF Busy, Quiet, At
<1>3. OnItsOwn(p)
  BY <1>0, <1>1, <1>2, NobodyElse DEF OnItsOwn
<1>4. Keeps(p)
  BY <1>0, <1>3, WorkKeeps
<1>5. /\ Kept' = Kept /\ Told(p)' = Told(p) /\ Mine' = Mine
      /\ Restorable(users)' = Restorable(users)
  BY <1>0, <1>1 DEF Kept, Told, Live, Knowing, Mine, Restorable
<1>6. comp' = users' \/ outcome' \notin {"notOurs", "restored"}
  <2>1. CASE comp' = comp
    BY <1>0, <1>1, <2>1 DEF HelperKnows
  <2>2. CASE comp' # comp
    BY <1>0, <1>1, <2>2, OnlyInsideWrites DEF RestoreIsFinal, Inside
  <2> QED BY <2>1, <2>2
<1>7. HelperKnows'
  BY <1>0, <1>1, <1>4, <1>5, <1>6 DEF Keeps, HelperKnows
<1>8. answer'[p] \in {answer[p], Verdict(p)}
  BY <1>0, Typed DEF WorkerSteps
<1>9. AnswerKnows(p)'
  BY <1>0, <1>3, <1>4, <1>8, VerdictKnows DEF ConnKnows, Keeps
<1>10. WireKnows(p)'
  BY <1>0, <1>4, <1>5 DEF ConnKnows, WireKnows, LineKnows, Lines, Keeps, Kept, Mine
<1>11. PanelKnows(p)'
  <2>1. panel[p].life # "absent"
    BY <1>0, <1>2 DEF ConnKnows, PanelKnows, Busy, Live
  <2> QED BY <1>0, <1>1, <2>1 DEF ConnKnows, PanelKnows, Knowing, OwnFile, Kept
<1> QED BY <1>4, <1>5, <1>7, <1>9, <1>10, <1>11 DEF ConnKnows, Keeps

(* A configure leaves the user's own in the record, whatever was seen last. *)
LEMMA ConfigureKeeps ==
    ASSUME TInv, HelperKnows, NEW file, lastSeen # Unknown,
           file = users \/ (file = None /\ users \notin Existing)
    PROVE  Recorded(file) = users
<1>1. /\ users \in UserFiles \cup {None} /\ None \notin UserFiles /\ Published \notin UserFiles
      /\ None # Published
  BY UserTypes DEF TInv
<1>2. CASE file \in UserFiles
  BY <1>1, <1>2 DEF Recorded
<1>3. CASE file = None
  <2>1. CASE lastSeen = Published
    BY <1>1, <1>3, <2>1 DEF Recorded, HelperKnows, Kept
  <2>2. CASE lastSeen = users
    <3>1. CASE users \in UserFiles
      BY <1>1, <1>3, <2>2, <3>1 DEF Recorded
    <3>2. CASE users = None
      BY <1>1, <1>3, <2>2, <3>2 DEF Recorded
    <3> QED BY <1>1, <3>1, <3>2
  <2> QED BY <2>1, <2>2 DEF HelperKnows, Mine
<1> QED BY <1>1, <1>2, <1>3

(* The next line run: the configure leaves the record, a share is asked for only
   once it is there. *)
LEMMA DispatchKnows ==
    ASSUME TInv, IInv, HelperKnows, NEW p \in Conns, ConnKnows(p), Dispatch(p)
    PROVE  /\ HelperKnows' /\ ConnKnows(p)' /\ (Kept => Kept') /\ UNCHANGED lastSeen
<1>0. /\ PanelsTypeOK /\ TypeOK
      /\ PanelKnows(p) /\ WireKnows(p) /\ AnswerKnows(p) /\ JobKnows(p)
  BY DEF TInv, PanelsTypeOK, ConnKnows
<1>1. /\ wire[p] # <<>> /\ answer[p] = Nothing
      /\ Head(wire[p]) \in Lines(p) /\ Head(wire[p]) \in Line
      /\ Lines(p)' \subseteq Lines(p) /\ UNCHANGED <<panel, users, edits>>
  BY <1>0, DispatchLeaves
<1>2. PICK word \in {"none", "configured", "refused", "facts"} :
         /\ answer' = [answer EXCEPT ![p] = [Nothing EXCEPT !.word = word]]
         /\ word = "facts" => Head(wire[p]).verb = "caps" /\ Live(p)
         /\ word \in {"configured", "refused"} => Head(wire[p]).verb = "configure" /\ Live(p)
  BY <1>0, DispatchLeaves
<1>3. answer'[p].word = word
  BY <1>0, <1>2, Typed DEF Nothing
<1>4. LineKnows(Head(wire[p])) /\ (Head(wire[p]).verb # "seat" => Told(p))
  BY <1>0, <1>1 DEF WireKnows
<1>5. panel[p].life # "absent"
  BY <1>0, <1>1 DEF PanelKnows, Quiet
<1>6. Told(p)' = Told(p) /\ Mine' = Mine /\ users' = users
      /\ Restorable(users)' = Restorable(users)
  BY <1>1 DEF Told, Live, Knowing, Mine, Restorable
<1>7. UNCHANGED <<comp, lastSeen, gate, phase, outcome>>
  BY <1>1 DEF Dispatch, AskSeat, AskShare, Configure, sharing, Line
<1>8. /\ Kept => Kept' 
      /\ Head(wire[p]).verb \in {"configure", "caps"} => Kept'
      /\ record' \in {None, users}
  <2>1. CASE Head(wire[p]).verb = "configure"
    <3>1. record' = Recorded(Head(wire[p]).file)
      BY <2>1 DEF Dispatch, Configure
    <3>2. record' = users
      BY <1>4, <2>1, <3>1, ConfigureKeeps DEF LineKnows
    <3> QED BY <1>6, <3>2 DEF Kept
  <2>2. CASE Head(wire[p]).verb # "configure"
    <3>1. record' = record
      BY <1>1, <2>2 DEF Dispatch, AskSeat, AskShare, sharing, Line
    <3>2. Kept => Kept'
      BY <1>6, <3>1 DEF Kept
    <3>3. record' \in {None, users}
      BY <3>1 DEF HelperKnows
    <3>4. Head(wire[p]).verb = "caps" => Kept
      BY <1>4 DEF LineKnows
    <3> QED BY <2>2, <3>2, <3>3, <3>4
  <2> QED BY <2>1, <2>2
<1>9. JobKnows(p)' /\ (job[p].at \in Changing => job' = job)
  <2>1. CASE job' = job
    BY <1>0, <1>6, <1>8, <2>1 DEF JobKnows
  <2>2. CASE Head(wire[p]).verb = "seat"
    <3>1. At(p, "idle") /\ Goto(p, "seat")
      BY <2>2 DEF Dispatch, AskSeat
    <3>2. job'[p].at = "seat"
      BY <1>0, <3>1, GotoShape
    <3> QED BY <3>1, <3>2 DEF JobKnows, Inside, Changing, At
  <2>3. CASE Head(wire[p]).verb = "share"
    <3>1. /\ At(p, "idle")
          /\ job' = [job EXCEPT ![p] = [job[p] EXCEPT !.at = "gate",
                                                      !.wanted = Head(wire[p]).file]]
      BY <2>3 DEF Dispatch, AskShare
    <3>2. job'[p].at = "gate" /\ job'[p].wanted = Head(wire[p]).file
      BY <1>0, <3>1 DEF TypeOK, Job
    <3>3. Kept' /\ Told(p)' /\ Head(wire[p]).file \in Mine
      BY <1>4, <1>6, <1>8, <2>3 DEF LineKnows
    <3> QED BY <1>6, <3>1, <3>2, <3>3 DEF JobKnows, Inside, Changing, At
  <2>4. CASE Head(wire[p]).verb \in {"configure", "caps"}
    BY <2>1, <2>4 DEF Dispatch, Configure, sharing
  <2> QED BY <1>1, <2>2, <2>3, <2>4 DEF Line
<1>10. HelperKnows'
  <2>1. \A q \in Conns : gate = q /\ job[q].at \in Changing => job'[q] = job[q]
    BY <1>0, <1>9, DispatchRuns, AskShape DEF Alone, sharing, TInv
  <2>2. comp' \in Mine' \/ \E q \in Conns : gate' = q /\ job'[q].at \in Changing
    BY <1>6, <1>7, <2>1 DEF HelperKnows
  <2> QED BY <1>6, <1>7, <1>8, <2>2 DEF HelperKnows
<1>11. PanelKnows(p)'
  BY <1>0, <1>1, <1>5, <1>8 DEF PanelKnows, Knowing, OwnFile
<1>12. WireKnows(p)'
  <2>1. \A line : LineKnows(line) => LineKnows(line)'
    BY <1>1, <1>6, <1>7, <1>8 DEF LineKnows
  <2> QED BY <1>0, <1>1, <1>6, <2>1 DEF WireKnows
<1>13. AnswerKnows(p)'
  BY <1>2, <1>3, <1>4, <1>6, <1>8 DEF AnswerKnows
<1> QED BY <1>7, <1>8, <1>9, <1>10, <1>11, <1>12, <1>13 DEF ConnKnows

(* The restore: it looks with nobody inside, and gives back what the record has. *)
LEMMA ShutdownKnows ==
    ASSUME TInv, IInv, HelperKnows, ShutdownSteps
    PROVE  HelperKnows' /\ UNCHANGED <<record, lastSeen, job, panel, wire, answer, users>>
<1>0. /\ PanelsTypeOK /\ TypeOK /\ GateIsHeld /\ RestoreIsFinal
      /\ UNCHANGED <<panel, wire, answer, users>>
  BY DEF TInv, PanelsTypeOK, IInv, ShutdownSteps
<1>1. UNCHANGED <<record, lastSeen, job>>
  BY DEF ShutdownSteps, BeginStop, Shutdown, WatchdogFires, StopTakesGate, StopLooks, StopWrites,
     StopChecks, StopGivesUp, Exit
<1> SUFFICES HelperKnows'
  BY <1>0, <1>1
<1>2. Kept' = Kept /\ Mine' = Mine /\ Restorable(users)' = Restorable(users)
  BY <1>0, <1>1 DEF Kept, Mine, Restorable
<1>3. ASSUME UNCHANGED comp, phase' \in {"giveBack", "check"} => phase \in {"giveBack", "check"},
             outcome' \in {outcome, "none", "failed"}, gate' = gate \/ comp \in Mine
      PROVE  HelperKnows'
  BY <1>0, <1>1, <1>2, <1>3 DEF HelperKnows
<1>4. ASSUME gate \in {Free, Stop}  PROVE comp \in Mine
  BY <1>4, Distinct DEF HelperKnows
<1>5. CASE BeginStop \/ WatchdogFires \/ Exit
  BY <1>3, <1>5 DEF BeginStop, WatchdogFires, Exit
<1>6. CASE StopTakesGate
  BY <1>3, <1>4, <1>6 DEF StopTakesGate
<1>7. CASE StopGivesUp
  <2>1. phase = "look" => comp \in Mine
    BY <1>0, <1>4 DEF GateIsHeld, Restoring
  <2> QED BY <1>3, <1>7, <2>1 DEF StopGivesUp
<1>8. ASSUME Kept, Restorable(users), comp' \in Mine,
              outcome' \in {"notOurs", "restored"} => comp' = users
       PROVE  HelperKnows'
  BY <1>0, <1>1, <1>2, <1>8 DEF HelperKnows
<1>9. CASE StopLooks
  <2>1. comp \in Mine /\ phase = "look" /\ UNCHANGED comp
    BY <1>0, <1>4, <1>9 DEF StopLooks, GateIsHeld, Restoring
  <2>2. CASE comp = Published
    <3>1. comp # users
      BY <1>0, <2>2, UserTypes
    <3>2. Kept /\ Restorable(users) /\ outcome \notin {"notOurs", "restored"}
      BY <1>0, <2>1, <3>1 DEF HelperKnows, RestoreIsFinal
    <3>3. outcome' = outcome
      BY <1>9, <2>2 DEF StopLooks
    <3> QED BY <1>8, <2>1, <3>2, <3>3
  <2>3. CASE comp # Published
    <3>1. comp = users
      BY <2>1, <2>3 DEF Mine
    <3> QED BY <1>0, <1>1, <1>2, <1>9, <2>1, <2>3, <3>1 DEF StopLooks, Finish, HelperKnows
  <2> QED BY <2>2, <2>3
<1>10. ASSUME phase \in {"giveBack", "check"}
      PROVE  /\ Kept /\ Restorable(users) /\ ShutdownValue = users /\ comp \in Mine
             /\ users \in Mine /\ outcome \notin {"notOurs", "restored"}
  <2>1. comp \in Mine /\ outcome \notin {"notOurs", "restored"}
    BY <1>0, <1>4, <1>10 DEF GateIsHeld, Restoring, RestoreIsFinal
  <2> QED BY <1>10, <2>1 DEF HelperKnows, ShutdownValue, Kept, Mine
<1>11. CASE StopWrites
  <2>1. phase = "giveBack" /\ comp' \in Mine
    BY <1>10, <1>11 DEF StopWrites, Written
  <2>2. outcome' \notin {"notOurs", "restored"}
    BY <1>10, <1>11 DEF StopWrites, Finish
  <2> QED BY <1>8, <1>10, <2>1, <2>2
<1>12. CASE StopChecks
  <2>1. phase = "check" /\ UNCHANGED comp
    BY <1>12 DEF StopChecks
  <2>2. outcome' \in {"notOurs", "restored"} => comp' = users
    BY <1>10, <1>12 DEF StopChecks, Finish
  <2> QED BY <1>8, <1>10, <2>1, <2>2
<1> QED BY <1>5, <1>6, <1>7, <1>9, <1>11, <1>12 DEF ShutdownSteps, Shutdown

(* A put-back that was lost stays lost: what is claimed is claimed until then. *)
LEMMA LostStaysLost ==
    ASSUME TInv, [PanelsNext]_allVars, lost
    PROVE  lost'
<1>1. ASSUME NEW p \in Conns, Work(p)  PROVE lost'
  BY <1>1 DEF Work, ReadSeat, ObserveSeat, TakeGate, GateTimesOut, ReadCurrent, ObserveCurrent,
     CaptureCurrent, Clear, Change, Confirm, ShareDone, PutBack, Verify, Proceed, Undo, At
<1>2. ASSUME NEW p \in Conns, Ask(p)  PROVE lost'
  BY <1>2 DEF Ask, AskSeat, AskShare, Configure
<1>3. CASE BeginStop \/ Shutdown \/ WatchdogFires
  BY <1>3 DEF BeginStop, Shutdown, WatchdogFires, StopTakesGate, StopLooks, StopWrites,
     StopChecks, StopGivesUp, Exit
<1>4. ASSUME NEW v \in UserFiles \cup {None}, UserSets(v)  PROVE lost'
  BY <1>4 DEF UserSets
<1>5. CASE UNCHANGED vars
  BY <1>5 DEF vars
<1> QED BY <1>1, <1>2, <1>3, <1>4, <1>5, PanelsStep DEF Next

(* Every step keeps what the record, the panels, their lines and the workers know. *)
LEMMA UInvStep ==
    ASSUME Successive, UInv, [PanelsNext]_allVars
    PROVE  UInv'
<1>0. TInv /\ IInv /\ OneAtATime /\ PanelsTypeOK /\ TypeOK /\ ~Overlap /\ MaxEdits = 0
  BY DEF UInv, TInv, PanelsTypeOK, Successive
<1>1. TInv' /\ OneAtATime'
  BY <1>0, TInvStep, OneAtATimeStep
<1>2. IInv'
  BY <1>0, PanelsStep, TypeStep, GateStep, KnowsStep, FinalStep, LeavingStep DEF IInv
<1> SUFFICES ASSUME ~lost'  PROVE HelperKnows' /\ \A q \in Conns : ConnKnows(q)'
  BY <1>1, <1>2 DEF UInv
<1>3. HelperKnows /\ \A q \in Conns : ConnKnows(q)
  BY <1>0, LostStaysLost DEF UInv
<1>4. ASSUME NEW p \in Conns, PanelSteps(p) \/ Dispatch(p) \/ WorkerSteps(p),
             HelperKnows', ConnKnows(p)', Kept => Kept', lastSeen # Unknown => lastSeen' # Unknown
      PROVE  HelperKnows' /\ \A q \in Conns : ConnKnows(q)'
  <2>1. ASSUME NEW q \in Conns, q # p  PROVE ConnKnows(q)'
    BY <1>0, <1>3, <1>4, <2>1, OthersStay, StillKnows
  <2> QED BY <1>4, <2>1
<1>5. ASSUME NEW p \in Conns, PanelSteps(p)
      PROVE  HelperKnows' /\ \A q \in Conns : ConnKnows(q)'
  <2>1. UNCHANGED <<sharing, users>>
    BY <1>0, <1>5, PanelStepsSay DEF Says
  <2>2. HelperKnows' /\ Kept' = Kept /\ UNCHANGED lastSeen
    BY <1>3, <2>1 DEF HelperKnows, sharing, Kept, Mine, Restorable
  <2>3. ConnKnows(p)'
    BY <1>0, <1>3, <1>5, PanelStepsKnow
  <2> QED BY <1>4, <1>5, <2>2, <2>3
<1>6. ASSUME NEW p \in Conns, Dispatch(p)
      PROVE  HelperKnows' /\ \A q \in Conns : ConnKnows(q)'
  BY <1>0, <1>3, <1>4, <1>6, DispatchKnows
<1>7. ASSUME NEW p \in Conns, WorkerSteps(p)
      PROVE  HelperKnows' /\ \A q \in Conns : ConnKnows(q)'
  BY <1>0, <1>3, <1>4, <1>7, WorkerKnows
<1>8. ASSUME HelperKnows', UNCHANGED <<record, lastSeen, job, panel, wire, answer, users>>
      PROVE  HelperKnows' /\ \A q \in Conns : ConnKnows(q)'
  <2>1. ASSUME NEW q \in Conns  PROVE ConnKnows(q)'
    BY <1>3, <1>8, StillKnows DEF Kept
  <2> QED BY <1>8, <2>1
<1>9. CASE ShutdownSteps
  BY <1>0, <1>3, <1>8, <1>9, ShutdownKnows
<1>10. CASE Reload
  <2>1. /\ comp' = users
        /\ UNCHANGED <<record, lastSeen, gate, job, phase, outcome, panel, wire, answer, users>>
    BY <1>10 DEF Reload, UserSets
  <2>2. HelperKnows'
    BY <1>3, <2>1 DEF HelperKnows, Kept, Mine, Restorable
  <2> QED BY <1>8, <2>1, <2>2
<1>11. CASE UNCHANGED allVars
  <2>1. HelperKnows'
    BY <1>3, <1>11 DEF HelperKnows, allVars, sharing, Kept, Mine, Restorable
  <2> QED BY <1>8, <1>11, <2>1 DEF allVars, sharing
<1>12. ASSUME NEW v \in UserFiles \cup {None}, Edit(v)  PROVE FALSE
  BY <1>0, <1>12 DEF Edit, PanelsTypeOK
<1> QED BY <1>5, <1>6, <1>7, <1>9, <1>10, <1>11, <1>12 DEF PanelsNext

(* Nothing is shared yet: there is nothing to know. *)
LEMMA InitUInv == PanelsInit => UInv
<1> SUFFICES ASSUME PanelsInit PROVE UInv
  OBVIOUS
<1>1. TInv /\ IInv /\ OneAtATime
  BY InitTInv, InitIInv, InitOneAtATime DEF PanelsInit
<1>2. HelperKnows
  BY DEF PanelsInit, Init, HelperKnows, Mine, Unknown, Published
<1>3. ASSUME NEW p \in Conns  PROVE ConnKnows(p)
  <2>1. /\ panel[p] = Absent /\ wire[p] = <<>> /\ answer[p] = Nothing /\ job[p] = Idle
    BY <1>3 DEF PanelsInit, Init
  <2>2. PanelKnows(p)
    BY <2>1 DEF PanelKnows, Absent, Quiet, At, Idle
  <2>3. WireKnows(p)
    BY <2>1 DEF WireKnows, Lines
  <2>4. AnswerKnows(p)
    BY <2>1, PlainLines DEF AnswerKnows
  <2>5. JobKnows(p)
    BY <2>1 DEF JobKnows, Idle, Inside, Changing
  <2> QED BY <2>2, <2>3, <2>4, <2>5 DEF ConnKnows
<1> QED BY <1>1, <1>2, <1>3 DEF UInv

(* So it is in every behaviour. *)
LEMMA UsersInvariant ==
    ASSUME Successive
    PROVE  PanelsSpec => []UInv
<1>1. UInv /\ [PanelsNext]_allVars => UInv'
  BY UInvStep
<1> QED BY <1>1, InitUInv, PTL DEF PanelsSpec

(* The user's setting is never lost: whenever the compositor is off it, the record
   names it, however often the shell crashes, the config is reloaded, and a share
   fails.  Successive panels have settings whose absolute paths all name a file. *)
THEOREM TheUsersAreRecorded ==
    ASSUME Successive
    PROVE  PanelsSpec => []RecordKeepsTheUsers
<1>1. UInv => RecordKeepsTheUsers
  BY DEF UInv, HelperKnows, RecordKeepsTheUsers, Kept
<1> QED BY <1>1, UsersInvariant, PTL

(* A helper that leaves in order leaves the user's own setting behind. *)
THEOREM TheUsersAreGivenBack ==
    ASSUME Successive
    PROVE  PanelsSpec => []StopGivesBackTheUsers
<1>1. UInv => StopGivesBackTheUsers
  BY DEF UInv, HelperKnows, StopGivesBackTheUsers
<1> QED BY <1>1, UsersInvariant, PTL

(* With no share under way the compositor is on the user's own or on the published
   keymap: no failure leaves it empty. *)
THEOREM NothingIsHalfShared ==
    ASSUME Successive
    PROVE  PanelsSpec => []NeverHalfShared
<1>1. UInv => NeverHalfShared
  BY Distinct DEF UInv, HelperKnows, NeverHalfShared, Mine
<1> QED BY <1>1, UsersInvariant, PTL

===============================================================================
