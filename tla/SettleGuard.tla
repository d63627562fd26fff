----------------------------- MODULE SettleGuard -----------------------------
(***************************************************************************)
(* SettleGuard.js: which readings of the seat's group the panel may follow. *)
(*                                                                         *)
(* `now - at` of the source is kept as the age of the moment, counted in    *)
(* ticks and no further than it matters; -1 is "none", as in the source.    *)
(***************************************************************************)
EXTENDS Integers

CONSTANTS WindowTicks,    \* WINDOW_MS
          QuiesceTicks,   \* QUIESCE_MS
          EchoTicks       \* ECHO_MS

NoGroup == -1

initial == [armed |-> FALSE, openedAge |-> 0, followed |-> NoGroup,
            commanded |-> NoGroup, candidate |-> NoGroup, candidateAge |-> 0,
            echoGroup |-> NoGroup, echoSet |-> {}, echoAge |-> EchoTicks]

Older(age, limit) == IF age < limit THEN age + 1 ELSE age
aged(state) ==
    [state EXCEPT !.openedAge = IF state.armed THEN Older(@, WindowTicks) ELSE @,
                  !.candidateAge = IF state.candidate = NoGroup THEN @
                                                     ELSE Older(@, QuiesceTicks),
                  !.echoAge = Older(@, EchoTicks)]

(* A genuinely new connection.  The echo describes switches already carried out. *)
connected(state) ==
    [initial EXCEPT !.echoGroup = state.echoGroup, !.echoSet = state.echoSet,
                    !.echoAge = state.echoAge]

NoCandidate(state) == [state EXCEPT !.candidate = NoGroup, !.candidateAge = 0]

(* The panel's own click.  Only a click made in the window anchors it anew. *)
commanded(state, group, devices) ==
    [NoCandidate(state) EXCEPT !.commanded = group,
                               !.openedAge = IF state.armed THEN 0 ELSE @,
                               !.echoGroup = group, !.echoSet = devices,
                               !.echoAge = 0]

isEcho(state, device, group) ==
    group = state.echoGroup /\ device \in state.echoSet /\ state.echoAge < EchoTicks

InWindow(state) == state.armed /\ state.openedAge < WindowTicks

Follow(state, group) ==
    [state |-> [NoCandidate(state) EXCEPT !.followed = group],
     follow |-> TRUE, held |-> group]

(* Mutant: the quiesce runs from the first sighting of any flip. *)
PersistedAnyhow(state, observed) ==
    state.candidate # NoGroup
(* The same flip, a full quiesce past its last sighting. *)
Persisted(state, observed) ==
    state.candidate = observed /\ state.candidateAge >= QuiesceTicks

(* The arms of decide, in the order of the source. *)
decide(state, observed, loneAnchor) ==
    CASE state.followed = NoGroup ->
            Follow([state EXCEPT !.commanded = NoGroup, !.armed = TRUE,
                                 !.openedAge = 0], observed)
      [] state.followed # NoGroup /\ observed = state.followed ->
            Follow(state, observed)
      [] state.followed \notin {NoGroup, observed} /\ ~InWindow(state) ->
            Follow([state EXCEPT !.armed = FALSE], observed)
      [] state.followed \notin {NoGroup, observed} /\ InWindow(state) ->
            IF \/ observed = state.commanded
               \/ loneAnchor /\ state.commanded = NoGroup
            THEN Follow(state, observed)
            ELSE IF Persisted(state, observed)
            THEN Follow([state EXCEPT !.armed = FALSE], observed)
            ELSE [state |-> [state EXCEPT !.candidate = observed,
                                          !.candidateAge = 0],
                  follow |-> FALSE, held |-> state.followed]

=============================================================================
