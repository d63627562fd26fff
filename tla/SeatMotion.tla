------------------------------ MODULE SeatMotion ------------------------------
(***************************************************************************)
(* SeatMotion.js: which layout event was a keyboard toggled by itself.      *)
(* Ages as in SettleGuard.  A virtual keyboard's events are not modelled:   *)
(* the source drops them first.                                             *)
(***************************************************************************)
EXTENDS LayoutDevices

CONSTANT QuietTicks       \* QUIET_MS

ASSUME MotionAssumption == QuietTicks \in Nat \ {0}

NoReading == [known |-> FALSE, groups |-> [d \in Devices |-> 0]]
NoMotion  == [asked |-> FALSE, base |-> NoReading.groups, candidate |-> NoDevice]

still == [mover |-> NoDevice, last |-> NoDevice, lastAge |-> QuietTicks,
          candidate |-> NoDevice, candidateAge |-> 0, candidateBase |-> NoReading,
          confirming |-> NoDevice, confirmingBase |-> NoReading,
          previous |-> NoReading, gap |-> FALSE]

LaterQ(age) == IF age < QuietTicks THEN age + 1 ELSE age
motionAged(state) == [state EXCEPT !.lastAge = LaterQ(@), !.candidateAge = LaterQ(@)]

DropCandidate(state) ==
    [state EXCEPT !.candidate = NoDevice, !.candidateBase = NoReading, !.candidateAge = 0]
DropConfirming(state) ==
    [state EXCEPT !.confirming = NoDevice, !.confirmingBase = NoReading]

(* Another device within the quiet makes the candidate part of a burst. *)
BurstEnds(state, name) ==
    IF state.candidate \notin {NoDevice, name} /\ state.candidateAge < QuietTicks
    THEN DropCandidate(state) ELSE state
ConfirmEnds(state, name) ==
    IF state.confirming \notin {NoDevice, name} THEN DropConfirming(state) ELSE state

(* Mutant: only what follows a move can make it a burst, not what came before. *)
isolatedAhead(state, name) == TRUE
isolated(state, name) ==
    state.last \in {NoDevice, name} \/ state.lastAge >= QuietTicks

event(state, name, echo) ==
    LET cut  == ConfirmEnds(BurstEnds(state, name), name)
        seen == [cut EXCEPT !.mover = IF name \in Safe THEN name ELSE @,
                            !.last = name, !.lastAge = 0]
    IN  IF isolated(state, name) /\ ~echo /\ name \in Safe
        THEN [seen EXCEPT !.candidate = name, !.candidateAge = 0,
                          !.candidateBase = IF seen.candidate = name THEN @
                                                                     ELSE seen.previous]
        ELSE IF seen.candidate = name THEN DropCandidate(seen) ELSE seen

(* The quiet timer: due once the candidate's quiet held. *)
quietHeld(state) == state.candidate # NoDevice /\ state.candidateAge >= QuietTicks
(* Mutant: judged against the last reading, which already shows the move. *)
quietLate(state) ==
    [DropCandidate(state) EXCEPT !.confirming = state.candidate,
                                 !.confirmingBase = state.previous]
quiet(state) ==
    [DropCandidate(state) EXCEPT !.confirming = state.candidate,
                                 !.confirmingBase = state.candidateBase]

(* The question a reading answers; it is asked once. *)
motionOf(state) ==
    IF state.gap /\ state.previous.known
    THEN [asked |-> TRUE, base |-> state.previous.groups, candidate |-> NoDevice]
    ELSE IF state.confirming # NoDevice /\ state.confirmingBase.known
    THEN [asked |-> TRUE, base |-> state.confirmingBase.groups,
          candidate |-> state.confirming]
    ELSE NoMotion

reading(state, groups) ==
    [DropConfirming(state) EXCEPT !.gap = FALSE,
                                  !.previous = [known |-> TRUE, groups |-> groups]]

reconnected(state) == [still EXCEPT !.previous = state.previous,
                                    !.gap = state.previous.known]

=============================================================================
