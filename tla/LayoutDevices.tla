---------------------------- MODULE LayoutDevices ----------------------------
(***************************************************************************)
(* LayoutDevices.js: which keyboard answers a reading of the seat.          *)
(*                                                                         *)
(* A reading is the group of every device and the device holding `main`.    *)
(* The safe keyboards (typed, identified by the helper) share one layout    *)
(* list; names and lists are otherwise left out.                            *)
(***************************************************************************)
EXTENDS Integers, FiniteSets, FiniteSetsExt

CONSTANTS Safe,           \* keyboards the helper identified
          Others,         \* devices nobody types on: buttons, switches
          NoDevice,       \* the empty name
          LayoutCount     \* groups the layout list carries

ASSUME DevicesAssumption ==
    /\ Safe # {} /\ IsFiniteSet(Safe) /\ IsFiniteSet(Others)
    /\ Safe \cap Others = {} /\ NoDevice \notin Safe \cup Others
    /\ LayoutCount \in Nat \ {0}

Devices == Safe \cup Others
LayoutGroups == 0 .. (LayoutCount - 1)

Diverged(groups) == \E d, e \in Safe : groups[d] # groups[e]

(* The most common group, the lowest of those in a tie. *)
consensusGroup(groups) ==
    LET votes(g) == Cardinality({d \in Safe : groups[d] = g})
    IN  Min({g \in LayoutGroups : \A h \in LayoutGroups : votes(h) <= votes(g)})

Changed(before, after) == {d \in Safe : before[d] # after[d]}

(* The one safe keyboard that changed, if it is the one asked for (or none is). *)
loneMover(before, after, moved) ==
    IF /\ Cardinality(Changed(before, after)) = 1
       /\ moved # NoDevice => moved \in Changed(before, after)
    THEN CHOOSE d \in Changed(before, after) : TRUE
    ELSE NoDevice

Agreeing(groups) == {d \in Safe : groups[d] = consensusGroup(groups)}

(* select: the flag, then the keyboard that moved alone, then the anchor while
   the seat agrees or the anchor is what just moved; else the remembered group. *)
select(groups, main, anchor, remembered, mover, motion) ==
    LET alone == IF motion.asked THEN loneMover(motion.base, groups, motion.candidate)
                                 ELSE NoDevice
        lone  == IF main \in Safe THEN NoDevice ELSE alone
        named == IF lone # NoDevice THEN lone ELSE anchor
        found == IF main \in Safe THEN main
                 ELSE IF named \in Safe THEN named ELSE NoDevice
        trusted == \/ main \in Safe
                   \/ lone # NoDevice
                   \/ mover # NoDevice /\ mover = named
        byMemory == /\ Diverged(groups)
                    /\ found = NoDevice \/ ~trusted
                    /\ remembered \in LayoutGroups
        answers == IF found # NoDevice THEN found
                   ELSE CHOOSE d \in Agreeing(groups) : TRUE
    IN  IF byMemory
        THEN [typing |-> NoDevice, lone |-> NoDevice, movedAlone |-> NoDevice,
              group |-> remembered]
        ELSE [typing |-> IF main \in Safe THEN main ELSE NoDevice,
              lone |-> lone,
              movedAlone |-> IF alone = answers THEN alone ELSE NoDevice,
              group |-> groups[answers]]

anchorAfter(picked, followed, anchor) ==
    IF picked.typing # NoDevice THEN picked.typing
    ELSE IF followed /\ picked.lone # NoDevice THEN picked.lone
    ELSE anchor

loneAnchor(picked, anchor) ==
    picked.movedAlone # NoDevice /\ picked.movedAlone = anchor

=============================================================================
