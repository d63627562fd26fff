-------------------------- MODULE KeyboardSession --------------------------
(***************************************************************************)
(* KeyboardSession.js: what the replies of the helper mean to the panel,   *)
(* as operators on one record.                                             *)
(*                                                                         *)
(* A payload is its identity (a keymap, every field before the group) and  *)
(* its group.  The facts of a group are the keymap they were computed      *)
(* from; which position carries what text is the compiler's business.  The *)
(* stamp of a configure (`seq`, counted by `sends`) matters to the chords  *)
(* of PanelTyping alone and is kept there, beside the queue.               *)
(***************************************************************************)
EXTENDS Naturals, Sequences

CONSTANTS Keymaps,      \* identities a configure can carry
          NoKeymap      \* nothing acknowledged: the empty string

ASSUME NoKeymapAssumption == NoKeymap \notin Keymaps

(* `caps` before the first accepted reply. *)
NoFacts == [gen |-> 0, byGroup |-> <<>>]

initial == [queue |-> <<>>, acked |-> NoKeymap, ackedGen |-> 0, group |-> 0,
            helloOk |-> FALSE, caps |-> NoFacts]

(* The keymap the helper has when the next line reaches it. *)
installed(state) ==
    IF state.queue # <<>> THEN state.queue[Len(state.queue)].keymap ELSE state.acked

hasDrainAhead(state) == \E i \in DOMAIN state.queue : state.queue[i].changed

settled(state) == state.queue = <<>>

capsCurrent(state) ==
    /\ state.caps.gen = state.ackedGen
    /\ state.group \in DOMAIN state.caps.byGroup

(* Groups to ask for: all of the count that are not in hand, and the drawn one
   whatever the count says. *)
missingCapGroups(state, groupCount) ==
    LET have == IF state.caps.gen = state.ackedGen THEN DOMAIN state.caps.byGroup
                                                   ELSE {}
    IN  ((0 .. (groupCount - 1)) \cup {state.group}) \ have

(* Mutant: readiness of the handshake and the facts alone. *)
readyOnFacts(state) == state.helloOk /\ capsCurrent(state)
typingReady(state) == state.helloOk /\ ~hasDrainAhead(state) /\ capsCurrent(state)

-----------------------------------------------------------------------------
(* reduce, one operator per event. *)

configureSent(state, keymap, group) ==
    [state EXCEPT !.queue = Append(@, [keymap  |-> keymap,
                                       changed |-> keymap # installed(state),
                                       group   |-> group])]

configureAck(state, gen) ==
    IF settled(state) THEN state
    ELSE [state EXCEPT !.queue = Tail(@), !.acked = Head(state.queue).keymap,
                       !.ackedGen = gen, !.group = Head(state.queue).group]

(* Every survivor is compared again, with what will then be installed. *)
Rebased(queue, acked) ==
    [i \in DOMAIN queue |->
        [queue[i] EXCEPT !.changed =
            queue[i].keymap # (IF i = 1 THEN acked ELSE queue[i - 1].keymap)]]

(* A refused configure installed nothing. *)
configureFailed(state) ==
    IF settled(state) THEN state
    ELSE [state EXCEPT !.queue = Rebased(Tail(@), state.acked)]

(* Facts are refused unless they are of the acknowledged generation. *)
capsFacts(state, gen, group, keymap) ==
    LET have == IF state.caps.gen = gen THEN state.caps.byGroup ELSE <<>>
    IN  IF gen # state.ackedGen THEN state
        ELSE [state EXCEPT !.caps =
                [gen |-> gen, byGroup |->
                    [g \in DOMAIN have \cup {group} |->
                        IF g = group THEN keymap ELSE have[g]]]]

(* A new connection starts over; the re-hello of a live one keeps everything. *)
helloAcked(state, fresh) ==
    IF fresh THEN [initial EXCEPT !.helloOk = TRUE]
             ELSE [state EXCEPT !.helloOk = TRUE]

connectionDown(state) == [state EXCEPT !.helloOk = FALSE]

=============================================================================
