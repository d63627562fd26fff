---------------------------- MODULE HelperDevice ----------------------------
(***************************************************************************)
(* The helper's one virtual keyboard and the connections that share it:    *)
(* daemon/src/state.rs (`Shared`, `install_config`), daemon/src/apply.rs   *)
(* (every command, and every path that lifts a held key) and the lines of  *)
(* daemon/src/server.rs that call them.                                    *)
(*                                                                         *)
(* Every command runs under one lock, so each is one action.  What is left *)
(* to interleave are the commands of different connections, the hold cap   *)
(* each connection's own thread enforces, departures, and the shutdown     *)
(* thread, which takes the lock twice.                                     *)
(*                                                                         *)
(* Abstractions:                                                           *)
(*   - A key is its evdev code.  A name resolves to a code of the keymap   *)
(*     or is refused with nothing changed, so \E over codes covers both.   *)
(*   - A keymap is its identity (the configure's fields and the bytes of   *)
(*     its kb_file); what the compiler says of it are constants.           *)
(*   - A modifier mask is a set of bits.                                   *)
(*   - A refusal that changes nothing is a stuttering step and has no      *)
(*     action, unless it charges the churn budget.                         *)
(*   - The instants behind a hold and behind the churn window are replaced *)
(*     by "the cap has passed" (due) and by the attempts still inside the  *)
(*     window (uploads).                                                   *)
(*   - The device is what the requests on the Wayland connection have made *)
(*     of it; they are delivered in order.                                 *)
(***************************************************************************)
EXTENDS Integers, Sequences, FiniteSets

CONSTANTS
    Conns,      \* connection ids: handed out once and never reused
    Codes,      \* evdev codes
    Bits,       \* the bits of a modifier mask
    Keymaps,    \* the keymaps a configure can name
    DefaultMap, \* XkbConfig::default(), installed before the socket exists
    Groups,     \* how many groups a keymap has facts for
    ModBits,    \* keymap -> code -> the bits it carries per group, <<>> if none
    Typable,    \* the keymaps whose text parses to at least one keycode
    MaxUploads, \* changed configures admitted within one churn window
    MaxGen      \* bound: keymap installs explored

ASSUME MapAssumption ==
    /\ DefaultMap \in Keymaps
    /\ Groups \in [Keymaps -> Nat]
    /\ ModBits \in [Keymaps -> [Codes -> Seq(SUBSET Bits)]]
    /\ Typable \subseteq Keymaps
    /\ DefaultMap \in Typable

ASSUME BoundAssumption ==
    /\ MaxUploads \in Nat
    /\ MaxGen \in Nat \ {0}

VARIABLES
    held,     \* code -> the connections claiming it; {} is "no entry"
    due,      \* the codes whose press is older than the hold cap
    list,     \* connection -> the codes its thread believes it holds
    status,   \* connection -> "absent", "open" or "gone"
    config,   \* the keymap installed
    group,    \* the active group
    ready,    \* the device has a keymap keys can be typed with
    capsGen,  \* keymap installs performed
    uploads,  \* changed configures inside the churn window
    phase,    \* "running", "gated" (shutting_down), "released" or "exited"
    device,   \* what the compositor was told: keys down, mask and group
    manual    \* history: the mask was last set by a client's `mods`

helper == <<held, due, list, status, config, group, ready, capsGen, uploads, phase>>
vars == <<held, due, list, status, config, group, ready, capsGen, uploads,
          phase, device, manual>>

(* The ceiling a group must stay under, even for a map with no facts. *)
Ceiling(m) == IF Groups[m] = 0 THEN 1 ELSE Groups[m]

IsModifier(m, k) == ModBits[m][k] # <<>>

(* The bits code k carries in group g of map m: the first group's beyond the count. *)
BitsOf(m, k, g) ==
    IF IsModifier(m, k)
      THEN ModBits[m][k][IF g < Len(ModBits[m][k]) THEN g + 1 ELSE 1]
      ELSE {}

(* Shared::modifier_mask over the claims h. *)
ModifierMask(h, m, g) == UNION {BitsOf(m, k, g) : k \in {x \in Codes : h[x] # {}}}

HeldCodes == {k \in Codes : held[k] # {}}
Claims(c) == {k \in Codes : c \in held[k]}

(* Mutant: the commands do not look at shutting_down. *)
AcceptingAfterTheGate == ready
(* What every typing command needs. *)
Accepting == phase = "running" /\ ready

TypeOK ==
    /\ held \in [Codes -> SUBSET Conns]
    /\ due \in SUBSET Codes
    /\ list \in [Conns -> SUBSET Codes]
    /\ status \in [Conns -> {"absent", "open", "gone"}]
    /\ config \in Keymaps
    /\ group \in Nat
    /\ ready \in BOOLEAN
    /\ capsGen \in 1..MaxGen
    /\ uploads \in 0..MaxUploads
    /\ phase \in {"running", "gated", "released", "exited"}
    /\ device \in [down : SUBSET Codes, mask : SUBSET Bits, group : Nat]
    /\ manual \in BOOLEAN

(* After ensure_keyboard and the readiness wait of run_main. *)
Init ==
    /\ held = [k \in Codes |-> {}]
    /\ due = {}
    /\ list = [c \in Conns |-> {}]
    /\ status = [c \in Conns |-> "absent"]
    /\ config = DefaultMap
    /\ group = 0
    /\ ready = TRUE
    /\ capsGen = 1
    /\ uploads = 0
    /\ phase = "running"
    /\ device = [down |-> {}, mask |-> {}, group |-> 0]
    /\ manual = FALSE

-----------------------------------------------------------------------------
(* Connections.  The accept loop outlives the gate: only commands are refused. *)

Connect(c) ==
    /\ status[c] = "absent"
    /\ phase # "exited"
    /\ status' = [status EXCEPT ![c] = "open"]
    /\ UNCHANGED <<held, due, list, config, group, ready, capsGen, uploads,
                   phase, device, manual>>

(* release_all feeds every code of the list to `up`.  One the connection claims
   loses the claim; one nothing holds is forwarded; one only others hold is
   refused.  A modifier code that got through re-asserts the mask. *)
Touched(c) == {k \in list[c] : held[k] = {} \/ c \in held[k]}

Depart(c) ==
    LET left  == [k \in Codes |-> IF k \in list[c] THEN held[k] \ {c} ELSE held[k]]
        mask  == ModifierMask(left, config, group)
        asserts == \E k \in Touched(c) : IsModifier(config, k)
        zeroes  == /\ \E k \in list[c] : held[k] # {}
                   /\ \A k \in Codes : left[k] = {}
    IN  /\ status[c] = "open"
        /\ phase # "exited"
        /\ status' = [status EXCEPT ![c] = "gone"]
        /\ list' = [list EXCEPT ![c] = {}]
        /\ IF Accepting
             THEN /\ held' = left
                  /\ due' = {k \in due : left[k] # {}}
                  /\ device' =
                       [down  |-> device.down \ {k \in Touched(c) : left[k] = {}},
                        mask  |-> IF zeroes THEN {} ELSE IF asserts THEN mask
                                                               ELSE device.mask,
                        group |-> IF zeroes \/ asserts THEN group ELSE device.group]
                  /\ manual' = (manual /\ ~asserts /\ ~zeroes)
             ELSE UNCHANGED <<held, due, device, manual>>
        /\ UNCHANGED <<config, group, ready, capsGen, uploads, phase>>

-----------------------------------------------------------------------------
(* Typing commands of an open connection. *)

(* The press would be dropped and the release would lift someone else's hold. *)
CanTap(k) == held[k] = {}

Tap(c, k) ==
    /\ status[c] = "open"
    /\ Accepting
    /\ CanTap(k)
    /\ device' = [device EXCEPT !.down = (@ \cup {k}) \ {k}]
    /\ UNCHANGED helper
    /\ UNCHANGED manual

(* Mutant: the mask is always read in the first group. *)
AssertedInFirstGroup(d, h) ==
    [d EXCEPT !.mask = ModifierMask(h, config, 0), !.group = group]
(* `modifiers` with the mask the claims h imply. *)
Asserted(d, h) == [d EXCEPT !.mask = ModifierMask(h, config, group), !.group = group]

Remembers(c, k) == [list EXCEPT ![c] = @ \cup {k}]

Down(c, k) ==
    LET now   == [held EXCEPT ![k] = @ \cup {c}]
        press == IF held[k] = {} THEN [device EXCEPT !.down = @ \cup {k}] ELSE device
    IN  /\ status[c] = "open"
        /\ Accepting
        /\ held' = now
        /\ due' = IF held[k] = {} THEN due \ {k} ELSE due
        /\ list' = Remembers(c, k)
        /\ device' = IF IsModifier(config, k) THEN Asserted(press, now) ELSE press
        /\ manual' = (manual /\ ~IsModifier(config, k))
        /\ UNCHANGED <<status, config, group, ready, capsGen, uploads, phase>>

(* Mutant: the first `up` ends the press for everyone. *)
EndsEveryClaim(c, k) == [held EXCEPT ![k] = {}]
EndsOwnClaim(c, k) == [held EXCEPT ![k] = @ \ {c}]

(* A claim authorizes a release; a code nothing holds is forwarded all the same. *)
Up(c, k) ==
    LET now  == EndsOwnClaim(c, k)
        lift == IF now[k] = {} THEN [device EXCEPT !.down = @ \ {k}] ELSE device
    IN  /\ status[c] = "open"
        /\ Accepting
        /\ held[k] = {} \/ c \in held[k]
        /\ held' = now
        /\ due' = {x \in due : now[x] # {}}
        /\ list' = [list EXCEPT ![c] = @ \ {k}]
        /\ device' = IF IsModifier(config, k) THEN Asserted(lift, now) ELSE lift
        /\ manual' = (manual /\ ~IsModifier(config, k))
        /\ UNCHANGED <<status, config, group, ready, capsGen, uploads, phase>>

(* `mods` carries no claim: the raw mask goes out as it came. *)
Mods(c, mask) ==
    /\ status[c] = "open"
    /\ Accepting
    /\ device' = [device EXCEPT !.mask = mask, !.group = group]
    /\ manual' = TRUE
    /\ UNCHANGED helper

Group(c, g) ==
    /\ status[c] = "open"
    /\ Accepting
    /\ g < Groups[config]
    /\ group' = g
    /\ device' = [device EXCEPT !.mask = ModifierMask(held, config, g), !.group = g]
    /\ manual' = FALSE
    /\ UNCHANGED <<held, due, list, status, config, ready, capsGen, uploads, phase>>

-----------------------------------------------------------------------------
(* Configure.  It does not need a ready device, only an open gate. *)

(* The installed map again: only ever a group change, and nothing is released. *)
ConfigureSame(c, g) ==
    /\ status[c] = "open"
    /\ phase = "running"
    /\ g < Ceiling(config)
    /\ g # group
    /\ group' = g
    /\ device' = [device EXCEPT !.mask = ModifierMask(held, config, g), !.group = g]
    /\ manual' = FALSE
    /\ UNCHANGED <<held, due, list, status, config, ready, capsGen, uploads, phase>>

(* The churn gate every changed configure pays before its compile. *)
PaysForChange(c, m) ==
    /\ status[c] = "open"
    /\ phase = "running"
    /\ m # config
    /\ uploads < MaxUploads
    /\ uploads' = uploads + 1

(* The map does not compile, or cannot carry the group asked for. *)
ConfigureRefused(c, m) ==
    /\ PaysForChange(c, m)
    /\ UNCHANGED <<held, due, list, status, config, group, ready, capsGen, phase,
                   device, manual>>

(* Every claim is dropped before the upload, whether or not it then succeeds. *)
DrainClaims ==
    IF ready
      THEN /\ held' = [k \in Codes |-> {}]
           /\ due' = {}
      ELSE UNCHANGED <<held, due>>

ConfigureUploadFails(c, m, g) ==
    /\ PaysForChange(c, m)
    /\ g < Ceiling(m)
    /\ DrainClaims
    /\ IF ready
         THEN /\ device' = [down |-> device.down \ HeldCodes, mask |-> {}, group |-> group]
              /\ manual' = FALSE
         ELSE UNCHANGED <<device, manual>>
    /\ UNCHANGED <<list, status, config, group, ready, capsGen, phase>>

ConfigureInstalls(c, m, g) ==
    /\ PaysForChange(c, m)
    /\ g < Ceiling(m)
    /\ capsGen < MaxGen
    /\ DrainClaims
    /\ config' = m
    /\ group' = g
    /\ ready' = (m \in Typable)
    /\ capsGen' = capsGen + 1
    /\ device' = [down  |-> IF ready THEN device.down \ HeldCodes ELSE device.down,
                  mask  |-> {},
                  group |-> g]
    /\ manual' = FALSE
    /\ UNCHANGED <<list, status, phase>>

(* The oldest attempt leaves the churn window. *)
WindowPasses ==
    /\ uploads > 0
    /\ uploads' = uploads - 1
    /\ UNCHANGED <<held, due, list, status, config, group, ready, capsGen, phase,
                   device, manual>>

-----------------------------------------------------------------------------
(* The hold cap. *)

CapElapses(k) ==
    /\ held[k] # {}
    /\ k \notin due
    /\ due' = due \cup {k}
    /\ UNCHANGED <<held, list, status, config, group, ready, capsGen, uploads, phase,
                   device, manual>>

Expired == {k \in HeldCodes \cap due : ~IsModifier(config, k)}

(* The deadline c's thread armed: a claim of its own that came due, or one it
   had when it armed the wait and that was lifted behind its back. *)
OwnClaimDue(c) == Expired \cap Claims(c) # {}
StaleDeadline(c) == list[c] \ Claims(c) # {}

ForgetsExpired(c) == [list EXCEPT ![c] = @ \ Expired]

(* Mutant: the cap ends the claim of the thread that noticed, not the press. *)
LapsesOwnClaim(c) == [k \in Codes |-> IF k \in Expired THEN held[k] \ {c} ELSE held[k]]
Lapses(c) == [k \in Codes |-> IF k \in Expired THEN {} ELSE held[k]]

(* The thread of c lifts whatever is due; only its own list forgets it. *)
ExpireStuckKeys(c) ==
    /\ status[c] = "open"
    /\ phase # "exited"
    /\ OwnClaimDue(c) \/ StaleDeadline(c)
    /\ Expired # {}
    /\ held' = Lapses(c)
    /\ due' = {k \in due : held'[k] # {}}
    /\ list' = ForgetsExpired(c)
    /\ device' = [device EXCEPT !.down = @ \ {k \in Expired : held'[k] = {}}]
    /\ UNCHANGED <<status, config, group, ready, capsGen, uploads, phase, manual>>

-----------------------------------------------------------------------------
(* Shutdown: the gate first, then the release, then the process leaves. *)

CloseGate ==
    /\ phase = "running"
    /\ phase' = "gated"
    /\ UNCHANGED <<held, due, list, status, config, group, ready, capsGen, uploads,
                   device, manual>>

ReleaseEverything ==
    /\ phase = "gated"
    /\ phase' = "released"
    /\ held' = [k \in Codes |-> {}]
    /\ due' = {}
    /\ device' = [down |-> device.down \ HeldCodes, mask |-> {}, group |-> group]
    /\ manual' = FALSE
    /\ UNCHANGED <<list, status, config, group, ready, capsGen, uploads>>

Exit ==
    /\ phase = "released"
    /\ phase' = "exited"
    /\ UNCHANGED <<held, due, list, status, config, group, ready, capsGen, uploads,
                   device, manual>>

-----------------------------------------------------------------------------
(* A group beyond every ceiling is refused, so these are all that can matter. *)
GroupRange == UNION {0..Ceiling(m) : m \in Keymaps}

Command(c) ==
    \/ \E k \in Codes : Tap(c, k) \/ Down(c, k) \/ Up(c, k)
    \/ \E mask \in SUBSET Bits : Mods(c, mask)
    \/ \E g \in GroupRange : Group(c, g) \/ ConfigureSame(c, g)
    \/ \E m \in Keymaps : ConfigureRefused(c, m)
    \/ \E m \in Keymaps, g \in GroupRange :
          ConfigureUploadFails(c, m, g) \/ ConfigureInstalls(c, m, g)

Next ==
    \/ \E c \in Conns : Connect(c) \/ Depart(c) \/ Command(c) \/ ExpireStuckKeys(c)
    \/ \E k \in Codes : CapElapses(k)
    \/ WindowPasses
    \/ CloseGate \/ ReleaseEverything \/ Exit

(* Time passes, a started shutdown finishes, and a thread whose claim is due
   looks at the deadline before each line it dispatches and on each wakeup, so
   a claim cannot be due over and over without its thread acting on it. *)
Fairness ==
    /\ \A k \in Codes : WF_vars(CapElapses(k))
    /\ \A c \in Conns : SF_vars(ExpireStuckKeys(c) /\ OwnClaimDue(c))
    /\ WF_vars(ReleaseEverything)
    /\ WF_vars(Exit)

Spec == Init /\ [][Next]_vars
FairSpec == Spec /\ Fairness

-----------------------------------------------------------------------------
(* Safety *)

(* The device holds a key exactly while some connection claims it: no order of
   taps, overlapping presses, swaps, caps and departures leaves a key stuck
   down or lifts one that is still wanted. *)
DownIffHeld == device.down = HeldCodes

(* Unless a client's raw `mods` was the last word, the compositor's mask is the
   one the held keys imply in the active group, across language switches. *)
MaskFollowsHeld ==
    ~manual => device.mask = ModifierMask(held, config, group)

(* The group the compositor types in is the one the helper reports facts for
   and one the installed map can carry. *)
GroupAgrees == device.group = group /\ group < Ceiling(config)

(* A departed connection leaves no claim behind: what its thread remembers
   covers everything it claims, whatever lifted or re-pressed keys meanwhile. *)
NoOrphanClaims ==
    phase = "running" => \A c \in Conns : status[c] = "gone" => Claims(c) = {}

(* Every claim is on its owner's list, and only an open connection, or one that
   left after the gate closed, has any: the strengthening of NoOrphanClaims. *)
ClaimsListed ==
    \A c \in Conns :
        /\ status[c] = "open" => Claims(c) \subseteq list[c]
        /\ status[c] = "absent" => Claims(c) = {}

(* Once the release ran nothing is pressed and no mask is left, and nothing a
   connection still buffers can change that. *)
ReleaseIsLast == phase \in {"released", "exited"} => device.down = {} /\ device.mask = {}

(* A device without a usable keymap is never left holding a key. *)
HoldsNeedAKeymap == ~ready => HeldCodes = {}

(* A claim ends by its owner's own release, by the cap, by a changed configure
   or by the shutdown, and by nothing another connection types. *)
ClaimsAreNotStolen ==
    [][\A c \in Conns, k \in Codes :
          c \in held[k] /\ c \notin held'[k] =>
             \/ k \notin list'[c]
             \/ k \in due /\ ~IsModifier(config, k)
             \/ uploads' = uploads + 1
             \/ phase' = "released"]_vars

(* A new keymap starts from a lifted keyboard under a new generation; the same
   keymap keeps every hold and the generation. *)
SwapLiftsEverything ==
    [][IF config' # config
         THEN HeldCodes' = {} /\ device'.down = {} /\ capsGen' = capsGen + 1
         ELSE capsGen' = capsGen]_vars

-----------------------------------------------------------------------------
(* Liveness, under FairSpec *)

(* A key that is not a modifier does not stay down for ever, even when two
   connections hand its claim back and forth. *)
HoldsAreCapped ==
    \A k \in Codes : (k \in device.down /\ ~IsModifier(config, k)) ~> (k \notin device.down)

(* A shutdown that began ends with every key up. *)
StopLiftsEverything == (phase = "gated") ~> (phase = "exited" /\ device.down = {})

-----------------------------------------------------------------------------
(* The helper's locking, lists, caps and swaps implement the plain sharing of
   keys: nobody's claim is lost or kept but by the steps SharedKeys names. *)
Sharing == INSTANCE SharedKeys WITH claims <- held, old <- due, down <- device.down
SharesKeys == Sharing!Spec

-----------------------------------------------------------------------------
(* What the comment in release_all says of a manual mask: a connection that
   held nothing does not change it by leaving (apply.rs, "must not wipe a
   survivor's mask"), and here somebody does survive it. *)
DepartureKeepsManualMask ==
    [][\A c \in Conns :
          (/\ status[c] = "open" /\ status'[c] = "gone"
           /\ Claims(c) = {}
           /\ \E d \in Conns \ {c} : status[d] = "open")
          => device'.mask = device.mask]_vars
=============================================================================
