----------------------------- MODULE SharedKeys -----------------------------
(***************************************************************************)
(* What the helper promises of the keyboard its connections share, without *)
(* lists, masks, keymaps, locks or the shutdown's phases: a key is down    *)
(* exactly while somebody claims it, and a claim ends by its owner's hand  *)
(* unless the press is old or the whole keyboard is lifted.  HelperDevice  *)
(* implements it.                                                          *)
(***************************************************************************)
CONSTANTS Conns, Codes

VARIABLES
    claims,  \* code -> the connections that want it down
    old,     \* the codes whose press has outlived the cap
    down     \* the codes the device holds

vars == <<claims, old, down>>

Wanted == {k \in Codes : claims[k] # {}}

Init ==
    /\ claims = [k \in Codes |-> {}]
    /\ old = {}
    /\ down = {}

(* A press that ends takes its age with it, and the device follows the claims. *)
Settle ==
    /\ old' = {k \in old : claims'[k] # {}}
    /\ down' = Wanted'

(* The first claim presses; a later one joins the press. *)
Claim(c, k) ==
    /\ claims' = [claims EXCEPT ![k] = @ \cup {c}]
    /\ old' = IF claims[k] = {} THEN old \ {k} ELSE old
    /\ down' = down \cup {k}

(* The last claim to go lifts the key. *)
Give(c, k) ==
    /\ c \in claims[k]
    /\ claims' = [claims EXCEPT ![k] = @ \ {c}]
    /\ Settle

(* A connection leaves, and takes every claim of its own and no other's. *)
Leave(c) ==
    /\ claims' = [k \in Codes |-> claims[k] \ {c}]
    /\ Settle

Age(k) ==
    /\ claims[k] # {}
    /\ old' = old \cup {k}
    /\ UNCHANGED <<claims, down>>

(* The helper ends presses whole: old ones, or all of them at once. *)
Lift(K) ==
    /\ K = Codes \/ K \subseteq old
    /\ claims' = [k \in Codes |-> IF k \in K THEN {} ELSE claims[k]]
    /\ Settle

Next ==
    \/ \E c \in Conns, k \in Codes : Claim(c, k) \/ Give(c, k)
    \/ \E c \in Conns : Leave(c)
    \/ \E k \in Codes : Age(k)
    \/ \E K \in SUBSET Codes : Lift(K)

Spec == Init /\ [][Next]_vars
=============================================================================
