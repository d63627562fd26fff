------------------------------ MODULE ChordAcks ------------------------------
(***************************************************************************)
(* ChordAcks.js: which command a reply answers, and when a paste chord     *)
(* has its verdict.  Every command sent occupies a slot, every reply pops  *)
(* the oldest; the slot of an armed chord's last line is marked, and an    *)
(* error answered to a key line inside the chord's region spoils it.       *)
(*                                                                         *)
(* A ledger is a record [queue, done, from, error]; `done`, the callback   *)
(* of the armed chord, is the number of its paste, or NoChord.             *)
(***************************************************************************)
EXTENDS Integers, Sequences

NoChord == 0
KeyVerbs == {"down", "up", "tap"}

Slot(verb) == [final |-> FALSE, verb |-> verb]
Unmarked(queue) == [i \in DOMAIN queue |-> Slot(queue[i].verb)]

Initial == [queue |-> <<>>, done |-> NoChord, from |-> 0, error |-> FALSE]

Sent(acks, lines) ==
    [queue |-> acks.queue \o [i \in DOMAIN lines |-> Slot(lines[i].verb)],
     done  |-> acks.done, from |-> acks.from, error |-> acks.error]

ChordStart(acks) ==
    [queue |-> acks.queue, done |-> acks.done,
     from  |-> Len(acks.queue), error |-> FALSE]

(* The queue with a mark on one slot and no other. *)
MarkedAt(queue, n) ==
    [i \in DOMAIN queue |-> [final |-> i = n, verb |-> queue[i].verb]]

ChordArmed(acks, paste) ==
    [queue |-> MarkedAt(acks.queue, Len(acks.queue)),
     done  |-> paste, from |-> acks.from, error |-> acks.error]

IsErr(word) == word \in {"err", "notHolding", "refused"}

(* Mutant: an error in the middle of the chord does not count. *)
NeverSpoils(acks, word) == FALSE
(* The reply is an error, inside the region, to one of the chord's key lines. *)
Spoils(acks, word) ==
    acks.from = 0 /\ IsErr(word) /\ Head(acks.queue).verb \in KeyVerbs

ReplyReceived(acks, word) ==
    IF acks.queue = <<>> THEN acks
    ELSE [queue |-> Tail(acks.queue),
          done  |-> IF Head(acks.queue).final THEN NoChord ELSE acks.done,
          from  |-> IF acks.from > 0 THEN acks.from - 1 ELSE 0,
          error |-> acks.error \/ Spoils(acks, word)]

(* The reply settles the armed chord; whether it was a success. *)
Settles(acks) ==
    acks.queue # <<>> /\ Head(acks.queue).final /\ acks.done # NoChord
Succeeds(acks, word) == word = "ok" /\ ~ReplyReceived(acks, word).error

ChordSettled(acks) == [Initial EXCEPT !.queue = Unmarked(acks.queue)]
=============================================================================
