------------------------ MODULE HelperDevice_proofs ------------------------
(***************************************************************************)
(* Proofs about HelperDevice, for every set of connections, codes and      *)
(* keymaps.  The inductive invariant is the conjunction of the state       *)
(* properties the runs check: a departure keeps NoOrphanClaims only        *)
(* because of ClaimsListed, the device follows the claims across a swap    *)
(* only because of HoldsNeedAKeymap, and the mask needs DownIffHeld's own  *)
(* bookkeeping and TypeOK.                                                 *)
(***************************************************************************)
EXTENDS HelperDevice, TLAPS

IInv ==
    /\ TypeOK
    /\ DownIffHeld
    /\ MaskFollowsHeld
    /\ GroupAgrees
    /\ ClaimsListed
    /\ NoOrphanClaims
    /\ HoldsNeedAKeymap
    /\ ReleaseIsLast

-----------------------------------------------------------------------------
(* The derived modifier mask. *)

(* The bits of a code are bits, whatever the group (state.rs, modifier_mask). *)
LEMMA BitsOfType ==
    ASSUME NEW m \in Keymaps, NEW k \in Codes, NEW g \in Nat
    PROVE  BitsOf(m, k, g) \subseteq Bits
<1> DEFINE s == ModBits[m][k]
<1>1. s \in Seq(SUBSET Bits)
  BY MapAssumption
<1>2. CASE s = <<>>
  BY <1>2 DEF BitsOf, IsModifier
<1>3. CASE s # <<>>
  <2>1. Len(s) \in Nat /\ Len(s) >= 1
    BY <1>1, <1>3
  <2>2. (IF g < Len(s) THEN g + 1 ELSE 1) \in 1..Len(s)
    BY <2>1
  <2>3. s[IF g < Len(s) THEN g + 1 ELSE 1] \in SUBSET Bits
    BY <1>1, <2>2
  <2>4. QED
    BY <2>3, <1>3 DEF BitsOf, IsModifier
<1>4. QED
  BY <1>2, <1>3

(* So is the mask the helper asserts. *)
LEMMA MaskType ==
    ASSUME NEW h, NEW m \in Keymaps, NEW g \in Nat
    PROVE  ModifierMask(h, m, g) \in SUBSET Bits
BY BitsOfType DEF ModifierMask

(* With nothing held the mask is empty: what release_all zeroes it to. *)
LEMMA MaskOfNothing ==
    ASSUME NEW h, NEW m, NEW g, \A k \in Codes : h[k] = {}
    PROVE  ModifierMask(h, m, g) = {}
BY DEF ModifierMask

(* Only modifier codes matter to the mask: a cap or an `up` that lifts letters
   may leave the compositor's mask alone (apply.rs, expire_stuck_keys). *)
LEMMA MaskOfSameModifiers ==
    ASSUME NEW h1, NEW h2, NEW m, NEW g,
           \A k \in Codes : IsModifier(m, k) => (h1[k] = {} <=> h2[k] = {})
    PROVE  ModifierMask(h1, m, g) = ModifierMask(h2, m, g)
<1>1. \A h : ModifierMask(h, m, g) =
               UNION {BitsOf(m, k, g) : k \in {x \in Codes : h[x] # {} /\ IsModifier(m, x)}}
  BY DEF ModifierMask, BitsOf
<1>2. {x \in Codes : h1[x] # {} /\ IsModifier(m, x)}
        = {x \in Codes : h2[x] # {} /\ IsModifier(m, x)}
  OBVIOUS
<1>3. QED
  BY <1>1, <1>2

-----------------------------------------------------------------------------
(* The invariant, action by action. *)

(* The initial states satisfy the inductive invariant: nothing is down, claimed or
   listed. *)
LEMMA InitIInv == Init => IInv
<1> SUFFICES ASSUME Init PROVE IInv
  OBVIOUS
<1>2. ModifierMask(held, config, group) = {}
  BY MaskOfNothing DEF Init
<1>3. TypeOK
  <2>1. capsGen \in 1..MaxGen /\ uploads \in 0..MaxUploads
    BY BoundAssumption DEF Init
  <2>2. device \in [down : SUBSET Codes, mask : SUBSET Bits, group : Nat]
    BY DEF Init
  <2>3. QED
    BY <2>1, <2>2, MapAssumption DEF Init, TypeOK
<1>4. group < Ceiling(config)
  BY MapAssumption DEF Init, Ceiling
<1>5. QED
  BY <1>2, <1>3, <1>4 DEF Init, IInv, DownIffHeld, HeldCodes, MaskFollowsHeld, GroupAgrees,
     ClaimsListed, Claims, NoOrphanClaims, HoldsNeedAKeymap, ReleaseIsLast

(* A connection is born with nothing claimed. *)
LEMMA ConnectKeeps ==
    ASSUME IInv, NEW c \in Conns, Connect(c)
    PROVE  IInv'
<1>1. /\ UNCHANGED <<held, due, list, config, group, ready, capsGen, uploads, phase,
                     device, manual>>
      /\ status[c] = "absent"
      /\ status' = [status EXCEPT ![c] = "open"]
  BY DEF Connect
<1>2. TypeOK'
  BY <1>1 DEF IInv, TypeOK
<1>3. ClaimsListed' /\ NoOrphanClaims'
  BY <1>1 DEF IInv, TypeOK, ClaimsListed, NoOrphanClaims, Claims
<1>4. (DownIffHeld /\ MaskFollowsHeld /\ GroupAgrees /\ HoldsNeedAKeymap /\ ReleaseIsLast)'
  BY <1>1 DEF IInv, DownIffHeld, HeldCodes, MaskFollowsHeld, ModifierMask, GroupAgrees,
     HoldsNeedAKeymap, ReleaseIsLast
<1>5. QED
  BY <1>2, <1>3, <1>4 DEF IInv

(* Everything but the mask and the keys down is left alone by these. *)
LEMMA TapKeeps ==
    ASSUME IInv, NEW c \in Conns, NEW k \in Codes, Tap(c, k)
    PROVE  IInv'
<1>1. UNCHANGED vars
  <2>1. k \notin device.down
    BY DEF IInv, Tap, CanTap, DownIffHeld, HeldCodes
  <2>2. device' = device
    BY <2>1 DEF IInv, TypeOK, Tap
  <2>3. QED
    BY <2>2 DEF Tap, vars, helper
<1>2. QED
  BY <1>1 DEF vars, IInv, TypeOK, DownIffHeld, HeldCodes, MaskFollowsHeld, ModifierMask,
     GroupAgrees, ClaimsListed, Claims, NoOrphanClaims, HoldsNeedAKeymap, ReleaseIsLast

(* A key-down keeps it: a refused one changes nothing, an accepted one is both
   down and claimed (state.rs, apply.rs Command::Down). *)
LEMMA DownKeeps ==
    ASSUME IInv, NEW c \in Conns, NEW k \in Codes, Down(c, k)
    PROVE  IInv'
<1> DEFINE press == IF held[k] = {} THEN [device EXCEPT !.down = @ \cup {k}] ELSE device
<1> USE DEF IInv
<1>a. /\ status[c] = "open" /\ phase = "running" /\ ready
      /\ UNCHANGED <<status, config, group, ready, capsGen, uploads, phase>>
  BY DEF Down, Accepting
<1>b. held' = [held EXCEPT ![k] = @ \cup {c}]
  BY DEF Down
<1>c. list' = [list EXCEPT ![c] = @ \cup {k}]
  BY DEF Down, Remembers
<1>d. due' = IF held[k] = {} THEN due \ {k} ELSE due
  BY DEF Down
<1>e. manual' = (manual /\ ~IsModifier(config, k))
  BY DEF Down
<1>f. device' = IF IsModifier(config, k) THEN Asserted(press, held') ELSE press
  BY DEF Down
<1>1. press \in [down : SUBSET Codes, mask : SUBSET Bits, group : Nat]
  BY DEF TypeOK
<1>2. press.mask = device.mask /\ press.group = device.group
  BY DEF TypeOK
<1>3. press.down = device.down \cup {k}
  BY DEF TypeOK, DownIffHeld, HeldCodes
<1>4. ModifierMask(held', config, group) \in SUBSET Bits
  BY MaskType DEF TypeOK
<1>5. /\ device' \in [down : SUBSET Codes, mask : SUBSET Bits, group : Nat]
      /\ device'.down = device.down \cup {k}
      /\ IsModifier(config, k) => device'.mask = ModifierMask(held', config, group)
      /\ ~IsModifier(config, k) => device'.mask = device.mask
      /\ device'.group \in {group, device.group}
  BY <1>f, <1>1, <1>2, <1>3, <1>4 DEF TypeOK, Asserted
<1>6. TypeOK'
  BY <1>a, <1>b, <1>c, <1>d, <1>e, <1>5 DEF TypeOK
<1>7. DownIffHeld'
  BY <1>b, <1>5 DEF TypeOK, DownIffHeld, HeldCodes
<1>8. MaskFollowsHeld'
  <2>1. CASE IsModifier(config, k)
    BY <2>1, <1>a, <1>5 DEF MaskFollowsHeld
  <2>2. CASE ~IsModifier(config, k)
    <3>0. \A x \in Codes : IsModifier(config, x) => (held'[x] = {} <=> held[x] = {})
      BY <2>2, <1>b DEF TypeOK
    <3>1. ModifierMask(held', config, group) = ModifierMask(held, config, group)
      BY ONLY <3>0, MaskOfSameModifiers
    <3>2. manual' <=> manual
      BY <2>2, <1>e
    <3>3. QED
      BY <3>1, <3>2, <2>2, <1>a, <1>5 DEF MaskFollowsHeld
  <2>3. QED
    BY <2>1, <2>2
<1>9. ClaimsListed' /\ NoOrphanClaims'
  BY <1>a, <1>b, <1>c DEF TypeOK, ClaimsListed, NoOrphanClaims, Claims
<1>10. (GroupAgrees /\ HoldsNeedAKeymap /\ ReleaseIsLast)'
  BY <1>a, <1>5 DEF GroupAgrees, HoldsNeedAKeymap, ReleaseIsLast
<1>11. QED
  BY <1>6, <1>7, <1>8, <1>9, <1>10

(* A key-up keeps it: the key comes up with its last claim and not before. *)
LEMMA UpKeeps ==
    ASSUME IInv, NEW c \in Conns, NEW k \in Codes, Up(c, k)
    PROVE  IInv'
<1> DEFINE now == [held EXCEPT ![k] = @ \ {c}]
<1> DEFINE lift == IF now[k] = {} THEN [device EXCEPT !.down = @ \ {k}] ELSE device
<1> USE DEF IInv
<1>a. /\ status[c] = "open" /\ phase = "running" /\ ready
      /\ UNCHANGED <<status, config, group, ready, capsGen, uploads, phase>>
  BY DEF Up, Accepting
<1>b. held' = now /\ (held[k] = {} \/ c \in held[k])
  BY DEF Up, EndsOwnClaim
<1>c. list' = [list EXCEPT ![c] = @ \ {k}]
  BY DEF Up
<1>d. due' = {x \in due : now[x] # {}}
  BY DEF Up, EndsOwnClaim
<1>e. manual' = (manual /\ ~IsModifier(config, k))
  BY DEF Up
<1>f. device' = IF IsModifier(config, k) THEN Asserted(lift, held') ELSE lift
  BY DEF Up, EndsOwnClaim
<1>1. lift \in [down : SUBSET Codes, mask : SUBSET Bits, group : Nat]
  BY DEF TypeOK
<1>2. lift.mask = device.mask /\ lift.group = device.group
  BY DEF TypeOK
<1>3. lift.down = IF held'[k] = {} THEN device.down \ {k} ELSE device.down
  BY <1>b DEF TypeOK
<1>4. ModifierMask(held', config, group) \in SUBSET Bits
  BY MaskType DEF TypeOK
<1>5. /\ device' \in [down : SUBSET Codes, mask : SUBSET Bits, group : Nat]
      /\ device'.down = lift.down
      /\ IsModifier(config, k) => device'.mask = ModifierMask(held', config, group)
      /\ ~IsModifier(config, k) => device'.mask = device.mask
      /\ device'.group \in {group, device.group}
  BY <1>f, <1>1, <1>2, <1>4 DEF TypeOK, Asserted
<1>6. TypeOK'
  BY <1>a, <1>b, <1>c, <1>d, <1>e, <1>5 DEF TypeOK
<1>7. DownIffHeld'
  BY <1>b, <1>3, <1>5 DEF TypeOK, DownIffHeld, HeldCodes
<1>8. MaskFollowsHeld'
  <2>1. CASE IsModifier(config, k)
    BY <2>1, <1>a, <1>5 DEF MaskFollowsHeld
  <2>2. CASE ~IsModifier(config, k)
    <3>1. \A x \in Codes : IsModifier(config, x) => (held'[x] = {} <=> held[x] = {})
      BY <2>2, <1>b DEF TypeOK
    <3>2. ModifierMask(held', config, group) = ModifierMask(held, config, group)
      BY ONLY <3>1, MaskOfSameModifiers
    <3>3. manual' <=> manual
      BY <2>2, <1>e
    <3>4. QED
      BY <3>2, <3>3, <2>2, <1>a, <1>5 DEF MaskFollowsHeld
  <2>3. QED
    BY <2>1, <2>2
<1>9. ClaimsListed' /\ NoOrphanClaims'
  BY <1>a, <1>b, <1>c DEF TypeOK, ClaimsListed, NoOrphanClaims, Claims
<1>10. (GroupAgrees /\ HoldsNeedAKeymap /\ ReleaseIsLast)'
  BY <1>a, <1>5 DEF GroupAgrees, HoldsNeedAKeymap, ReleaseIsLast
<1>11. QED
  BY <1>6, <1>7, <1>8, <1>9, <1>10

(* A `mods` command only counts as a manual mask; the held keys stay asserted. *)
LEMMA ModsKeeps ==
    ASSUME IInv, NEW c \in Conns, NEW mask \in SUBSET Bits, Mods(c, mask)
    PROVE  IInv'
<1> USE DEF IInv
<1>1. /\ device' \in [down : SUBSET Codes, mask : SUBSET Bits, group : Nat]
      /\ device'.down = device.down
      /\ device'.group = group
  BY DEF TypeOK, Mods
<1>2. /\ UNCHANGED <<held, due, list, status, config, group, ready, capsGen, uploads, phase>>
      /\ manual' = TRUE
      /\ phase = "running"
  BY DEF Mods, helper, Accepting
<1>3. TypeOK'
  BY <1>1, <1>2 DEF TypeOK
<1>4. QED
  BY <1>1, <1>2, <1>3 DEF DownIffHeld, HeldCodes, MaskFollowsHeld, GroupAgrees,
     ClaimsListed, Claims, NoOrphanClaims, HoldsNeedAKeymap, ReleaseIsLast

(* A group change keeps every claim and re-derives the mask in the new group. *)
LEMMA RegroupKeeps ==
    ASSUME IInv, NEW g \in Nat, g < Ceiling(config), phase = "running",
           group' = g, manual' = FALSE,
           device' = [device EXCEPT !.mask = ModifierMask(held, config, g), !.group = g],
           UNCHANGED <<held, due, list, status, config, ready, capsGen, uploads, phase>>
    PROVE  IInv'
<1> USE DEF IInv
<1>1. ModifierMask(held, config, g) \in SUBSET Bits
  BY MaskType DEF TypeOK
<1>2. /\ device' \in [down : SUBSET Codes, mask : SUBSET Bits, group : Nat]
      /\ device'.down = device.down
      /\ device'.mask = ModifierMask(held, config, g)
      /\ device'.group = g
  BY <1>1 DEF TypeOK
<1>3. TypeOK'
  BY <1>2 DEF TypeOK
<1>4. QED
  BY <1>2, <1>3 DEF DownIffHeld, HeldCodes, MaskFollowsHeld, GroupAgrees,
     ClaimsListed, Claims, NoOrphanClaims, HoldsNeedAKeymap, ReleaseIsLast

(* A `group` command keeps it, by RegroupKeeps. *)
LEMMA GroupKeeps ==
    ASSUME IInv, NEW c \in Conns, NEW g \in Nat, Group(c, g) \/ ConfigureSame(c, g)
    PROVE  IInv'
<1>1. g < Ceiling(config)
  BY MapAssumption DEF Group, ConfigureSame, Ceiling, IInv, TypeOK
<1>2. phase = "running"
  BY DEF Group, ConfigureSame, Accepting
<1>3. QED
  BY <1>1, <1>2, RegroupKeeps DEF Group, ConfigureSame

(* Steps that only count: a refused configure, the window, the clock. *)
LEMMA CountingKeeps ==
    ASSUME IInv, uploads' \in 0..MaxUploads, due' \in SUBSET Codes,
           UNCHANGED <<held, list, status, config, group, ready, capsGen, phase,
                       device, manual>>
    PROVE  IInv'
<1> USE DEF IInv
<1>1. TypeOK'
  BY DEF TypeOK
<1>2. QED
  BY <1>1 DEF DownIffHeld, HeldCodes, MaskFollowsHeld, GroupAgrees,
     ClaimsListed, Claims, NoOrphanClaims, HoldsNeedAKeymap, ReleaseIsLast

(* Once nothing is claimed, down or reported, only the frame is left to check. *)
LEMMA LiftedKeeps ==
    ASSUME TypeOK', ClaimsListed, HeldCodes' = {}, device'.down = {}, device'.mask = {},
           device'.group = group', group' < Ceiling(config'), UNCHANGED <<list, status>>
    PROVE  IInv'
<1>1. \A k \in Codes : held'[k] = {}
  BY DEF HeldCodes
<1>2. ModifierMask(held', config', group') = {}
  BY ONLY <1>1, MaskOfNothing
<1>3. MaskFollowsHeld'
  BY <1>2 DEF MaskFollowsHeld
<1>4. ClaimsListed' /\ NoOrphanClaims'
  BY <1>1 DEF ClaimsListed, NoOrphanClaims, Claims
<1>5. QED
  BY <1>3, <1>4 DEF IInv, DownIffHeld, GroupAgrees, HoldsNeedAKeymap, ReleaseIsLast, HeldCodes

(* What draining leaves of the claims and of the keys down. *)
LEMMA DrainLifts ==
    ASSUME IInv, DrainClaims
    PROVE  /\ HeldCodes' = {} /\ held' \in [Codes -> SUBSET Conns] /\ due' \in SUBSET Codes
           /\ device.down \ HeldCodes = {}
           /\ ~ready => device.down = {}
<1> USE DEF IInv
<1>1. CASE ready
  BY <1>1 DEF DrainClaims, HeldCodes, TypeOK, DownIffHeld
<1>2. CASE ~ready
  BY <1>2 DEF DrainClaims, HeldCodes, TypeOK, DownIffHeld, HoldsNeedAKeymap
<1>3. QED
  BY <1>1, <1>2 DEF TypeOK

(* An upload that fails after the drain leaves a device with nothing held. *)
LEMMA UploadFailsKeeps ==
    ASSUME IInv, NEW c \in Conns, NEW m \in Keymaps, NEW g \in Nat,
           ConfigureUploadFails(c, m, g)
    PROVE  IInv'
<1> USE DEF IInv
<1>1. /\ UNCHANGED <<list, status, config, group, ready, capsGen, phase>>
      /\ uploads' \in 0..MaxUploads
      /\ DrainClaims
  BY BoundAssumption DEF ConfigureUploadFails, PaysForChange, TypeOK
<1>2. /\ HeldCodes' = {} /\ held' \in [Codes -> SUBSET Conns] /\ due' \in SUBSET Codes
      /\ device.down \ HeldCodes = {}
  BY <1>1, DrainLifts
<1>3. CASE ready
  <2>1. device' = [down |-> {}, mask |-> {}, group |-> group] /\ manual' = FALSE
    BY <1>2, <1>3 DEF ConfigureUploadFails
  <2>2. TypeOK'
    BY <1>1, <1>2, <2>1 DEF TypeOK
  <2>3. QED
    BY <1>1, <1>2, <2>1, <2>2, LiftedKeeps DEF GroupAgrees
<1>4. CASE ~ready
  <2>1. UNCHANGED <<held, due, device, manual>>
    BY <1>4 DEF ConfigureUploadFails, DrainClaims
  <2>2. QED
    BY <1>1, <1>2, <2>1, CountingKeeps
<1>5. QED
  BY <1>3, <1>4

(* So does one that succeeds, in the new keymap. *)
LEMMA InstallsKeeps ==
    ASSUME IInv, NEW c \in Conns, NEW m \in Keymaps, NEW g \in Nat,
           ConfigureInstalls(c, m, g)
    PROVE  IInv'
<1> USE DEF IInv
<1>1. /\ UNCHANGED <<list, status, phase>>
      /\ uploads' \in 0..MaxUploads /\ capsGen' \in 1..MaxGen
      /\ config' = m /\ group' = g /\ ready' \in BOOLEAN /\ manual' = FALSE
      /\ g < Ceiling(m)
      /\ DrainClaims
  BY BoundAssumption DEF ConfigureInstalls, PaysForChange, TypeOK
<1>2. /\ HeldCodes' = {} /\ held' \in [Codes -> SUBSET Conns] /\ due' \in SUBSET Codes
      /\ device.down \ HeldCodes = {}
      /\ ~ready => device.down = {}
  BY <1>1, DrainLifts
<1>3. device' = [down |-> {}, mask |-> {}, group |-> g]
  BY <1>2 DEF ConfigureInstalls
<1>4. TypeOK'
  BY <1>1, <1>2, <1>3 DEF TypeOK
<1>5. QED
  BY <1>1, <1>2, <1>3, <1>4, LiftedKeeps

(* The shutdown lifts everything and leaves nothing to strand. *)
LEMMA ReleaseKeeps ==
    ASSUME IInv, ReleaseEverything
    PROVE  IInv'
<1> USE DEF IInv
<1>1. /\ UNCHANGED <<list, status, config, group, ready, capsGen, uploads>>
      /\ held' = [k \in Codes |-> {}] /\ due' = {}
      /\ phase' = "released" /\ manual' = FALSE
  BY DEF ReleaseEverything
<1>2. HeldCodes' = {}
  BY <1>1 DEF HeldCodes
<1>3. device' = [down |-> {}, mask |-> {}, group |-> group]
  BY DEF ReleaseEverything, DownIffHeld
<1>4. TypeOK'
  BY <1>1, <1>3 DEF TypeOK
<1>5. QED
  BY <1>1, <1>2, <1>3, <1>4, LiftedKeeps DEF GroupAgrees

(* The gate closes with claims still out, and the process leaves with none. *)
LEMMA PhaseKeeps ==
    ASSUME IInv, CloseGate \/ Exit
    PROVE  IInv'
<1> USE DEF IInv
<1>1. /\ UNCHANGED <<held, due, list, status, config, group, ready, capsGen, uploads,
                     device, manual>>
      /\ phase' = "gated" \/ (phase = "released" /\ phase' = "exited")
  BY DEF CloseGate, Exit
<1>2. TypeOK'
  BY <1>1 DEF TypeOK
<1>3. QED
  BY <1>1, <1>2 DEF DownIffHeld, HeldCodes, MaskFollowsHeld, GroupAgrees,
     ClaimsListed, Claims, NoOrphanClaims, HoldsNeedAKeymap, ReleaseIsLast

(* The cap lifts letters only, so the mask the compositor has stays right. *)
LEMMA ExpireKeeps ==
    ASSUME IInv, NEW c \in Conns, ExpireStuckKeys(c)
    PROVE  IInv'
<1> USE DEF IInv
<1>1. UNCHANGED <<status, config, group, ready, capsGen, uploads, phase, manual>>
  BY DEF ExpireStuckKeys
<1>2. held' = [k \in Codes |-> IF k \in Expired THEN {} ELSE held[k]]
  BY DEF ExpireStuckKeys, Lapses
<1>3. list' = [list EXCEPT ![c] = @ \ Expired] /\ due' \in SUBSET Codes
  BY DEF ExpireStuckKeys, ForgetsExpired, TypeOK
<1>4. device' = [device EXCEPT !.down = @ \ Expired]
  <2>1. {k \in Expired : held'[k] = {}} = Expired
    BY <1>2 DEF Expired, HeldCodes
  <2>2. QED
    BY <2>1 DEF ExpireStuckKeys
<1>5. /\ device' \in [down : SUBSET Codes, mask : SUBSET Bits, group : Nat]
      /\ device'.down = device.down \ Expired
      /\ device'.mask = device.mask /\ device'.group = device.group
  BY <1>4 DEF TypeOK
<1>6. TypeOK'
  BY <1>1, <1>2, <1>3, <1>5 DEF TypeOK
<1>7. DownIffHeld'
  BY <1>2, <1>5 DEF DownIffHeld, HeldCodes
<1>8. MaskFollowsHeld'
  <2>1. \A k \in Codes : IsModifier(config, k) => (held'[k] = {} <=> held[k] = {})
    BY <1>2 DEF Expired
  <2>2. ModifierMask(held', config, group) = ModifierMask(held, config, group)
    BY ONLY <2>1, MaskOfSameModifiers
  <2>3. QED
    BY <2>2, <1>1, <1>5 DEF MaskFollowsHeld
<1>9. ClaimsListed' /\ NoOrphanClaims'
  BY <1>1, <1>2, <1>3 DEF TypeOK, ClaimsListed, NoOrphanClaims, Claims
<1>10. (GroupAgrees /\ HoldsNeedAKeymap /\ ReleaseIsLast)'
  BY <1>1, <1>2, <1>5 DEF GroupAgrees, HoldsNeedAKeymap, HeldCodes, ReleaseIsLast
<1>11. QED
  BY <1>6, <1>7, <1>8, <1>9, <1>10

(* What a departure takes: every claim of its own, because they are all on its
   list, and no claim of another connection (apply.rs, release_all). *)
LEMMA DepartureTakesItsClaims ==
    ASSUME TypeOK, ClaimsListed, NEW c \in Conns, status[c] = "open", NEW k \in Codes
    PROVE  (IF k \in list[c] THEN held[k] \ {c} ELSE held[k]) = held[k] \ {c}
BY DEF TypeOK, ClaimsListed, Claims

(* A departure keeps it: it lifts what was its alone and asserts the rest. *)
LEMMA DepartKeeps ==
    ASSUME IInv, NEW c \in Conns, Depart(c)
    PROVE  IInv'
<1> DEFINE left == [k \in Codes |-> IF k \in list[c] THEN held[k] \ {c} ELSE held[k]]
<1> DEFINE asserts == \E k \in Touched(c) : IsModifier(config, k)
<1> DEFINE zeroes == /\ \E k \in list[c] : held[k] # {}
                     /\ \A k \in Codes : left[k] = {}
<1> USE DEF IInv
<1>1. /\ UNCHANGED <<config, group, ready, capsGen, uploads, phase>>
      /\ status[c] = "open" /\ status' = [status EXCEPT ![c] = "gone"]
      /\ list' = [list EXCEPT ![c] = {}]
  BY DEF Depart
<1>2. CASE ~Accepting
  <2>1. UNCHANGED <<held, due, device, manual>>
    BY <1>2 DEF Depart
  <2>2. TypeOK'
    BY <1>1, <2>1 DEF TypeOK
  <2>3. NoOrphanClaims'
    <3>1. phase = "running" => \A x \in Codes : held[x] = {}
      BY <1>2 DEF Accepting, HoldsNeedAKeymap, HeldCodes
    <3>2. QED
      BY <3>1, <1>1, <2>1 DEF NoOrphanClaims, Claims
  <2>4. ClaimsListed'
    BY <1>1, <2>1 DEF TypeOK, ClaimsListed, Claims
  <2>5. (DownIffHeld /\ MaskFollowsHeld /\ GroupAgrees /\ HoldsNeedAKeymap /\ ReleaseIsLast)'
    BY <1>1, <2>1 DEF DownIffHeld, HeldCodes, MaskFollowsHeld, GroupAgrees,
       HoldsNeedAKeymap, ReleaseIsLast
  <2>6. QED
    BY <2>2, <2>3, <2>4, <2>5
<1>3. CASE Accepting
  <2>1. /\ held' = left /\ due' \in SUBSET Codes
        /\ device' = [down  |-> device.down \ {k \in Touched(c) : left[k] = {}},
                      mask  |-> IF zeroes THEN {}
                                ELSE IF asserts THEN ModifierMask(left, config, group)
                                                ELSE device.mask,
                      group |-> IF zeroes \/ asserts THEN group ELSE device.group]
        /\ manual' = (manual /\ ~asserts /\ ~zeroes)
    BY <1>3 DEF Depart, TypeOK
  <2>2. \A k \in Codes : held'[k] = held[k] \ {c}
    BY <1>1, <2>1, DepartureTakesItsClaims
  <2>3. /\ device'.down = device.down \ {k \in Touched(c) : held'[k] = {}}
        /\ zeroes => device'.mask = {}
        /\ ~zeroes /\ asserts => device'.mask = ModifierMask(held', config, group)
        /\ ~zeroes /\ ~asserts => device'.mask = device.mask
        /\ device'.group \in {group, device.group}
    BY <2>1
  <2>4. ModifierMask(left, config, group) \in SUBSET Bits
    BY MaskType DEF TypeOK
  <2>5. device' \in [down : SUBSET Codes, mask : SUBSET Bits, group : Nat]
    BY <2>1, <2>4 DEF TypeOK
  <2>6. TypeOK'
    <3>1. left \in [Codes -> SUBSET Conns]
      BY DEF TypeOK
    <3>2. manual' \in BOOLEAN
      BY <2>1
    <3>3. QED
      BY <1>1, <2>1, <2>5, <3>1, <3>2 DEF TypeOK
  <2>7. DownIffHeld'
    <3>1. \A k \in Codes : held[k] # {} /\ held'[k] = {} => k \in Touched(c)
      BY <1>1, <2>2 DEF Touched, TypeOK, ClaimsListed, Claims
    <3>2. QED
      BY <2>2, <2>3, <3>1 DEF DownIffHeld, HeldCodes
  <2>8. MaskFollowsHeld'
    <3>1. CASE zeroes
      <4>1. ModifierMask(held', config, group) = {}
        BY <2>1, <3>1, MaskOfNothing
      <4>2. QED
        BY <1>1, <2>3, <3>1, <4>1 DEF MaskFollowsHeld
    <3>2. CASE ~zeroes /\ asserts
      BY <1>1, <2>3, <3>2 DEF MaskFollowsHeld
    <3>3. CASE ~zeroes /\ ~asserts
      <4>1. \A k \in Codes : IsModifier(config, k) => (held'[k] = {} <=> held[k] = {})
        BY <1>1, <2>2, <3>3 DEF Touched, TypeOK, ClaimsListed, Claims
      <4>2. ModifierMask(held', config, group) = ModifierMask(held, config, group)
        BY ONLY <4>1, MaskOfSameModifiers
      <4>3. manual' <=> manual
        BY <2>1, <3>3
      <4>4. QED
        BY <1>1, <2>3, <3>3, <4>2, <4>3 DEF MaskFollowsHeld
    <3>4. QED
      BY <3>1, <3>2, <3>3
  <2>9. ClaimsListed' /\ NoOrphanClaims'
    BY <1>1, <2>2 DEF TypeOK, ClaimsListed, NoOrphanClaims, Claims
  <2>10. (GroupAgrees /\ HoldsNeedAKeymap /\ ReleaseIsLast)'
    BY <1>1, <1>3, <2>3 DEF Accepting, GroupAgrees, HoldsNeedAKeymap, ReleaseIsLast
  <2>11. QED
    BY <2>6, <2>7, <2>8, <2>9, <2>10
<1>4. QED
  BY <1>2, <1>3

(* A group index is a number. *)
LEMMA GroupRangeType == ASSUME NEW g \in GroupRange PROVE g \in Nat
BY MapAssumption DEF GroupRange, Ceiling

(* Every command of a connection keeps it. *)
LEMMA CommandKeeps ==
    ASSUME IInv, NEW c \in Conns, Command(c)
    PROVE  IInv'
<1>1. CASE \E k \in Codes : Tap(c, k) \/ Down(c, k) \/ Up(c, k)
  BY <1>1, TapKeeps, DownKeeps, UpKeeps
<1>2. CASE \E mask \in SUBSET Bits : Mods(c, mask)
  BY <1>2, ModsKeeps
<1>3. CASE \E g \in GroupRange : Group(c, g) \/ ConfigureSame(c, g)
  BY <1>3, GroupRangeType, GroupKeeps
<1>4. CASE \E m \in Keymaps : ConfigureRefused(c, m)
  <2>1. uploads' \in 0..MaxUploads /\ due' \in SUBSET Codes
    BY <1>4, BoundAssumption DEF ConfigureRefused, PaysForChange, IInv, TypeOK
  <2>2. UNCHANGED <<held, list, status, config, group, ready, capsGen, phase, device, manual>>
    BY <1>4 DEF ConfigureRefused
  <2>3. QED
    BY <2>1, <2>2, CountingKeeps
<1>5. CASE \E m \in Keymaps, g \in GroupRange : ConfigureUploadFails(c, m, g)
  BY <1>5, GroupRangeType, UploadFailsKeeps
<1>6. CASE \E m \in Keymaps, g \in GroupRange : ConfigureInstalls(c, m, g)
  BY <1>6, GroupRangeType, InstallsKeeps
<1>7. QED
  BY <1>1, <1>2, <1>3, <1>4, <1>5, <1>6 DEF Command

(* Every step keeps it. *)
LEMMA NextKeeps == IInv /\ [Next]_vars => IInv'
<1> SUFFICES ASSUME IInv, [Next]_vars PROVE IInv'
  OBVIOUS
<1>1. CASE \E c \in Conns : Connect(c) \/ Depart(c) \/ Command(c) \/ ExpireStuckKeys(c)
  BY <1>1, ConnectKeeps, DepartKeeps, CommandKeeps, ExpireKeeps
<1>2. CASE \E k \in Codes : CapElapses(k)
  <2>1. uploads' \in 0..MaxUploads /\ due' \in SUBSET Codes
    BY <1>2 DEF CapElapses, IInv, TypeOK
  <2>2. UNCHANGED <<held, list, status, config, group, ready, capsGen, phase, device, manual>>
    BY <1>2 DEF CapElapses
  <2>3. QED
    BY <2>1, <2>2, CountingKeeps
<1>3. CASE WindowPasses
  <2>1. uploads' \in 0..MaxUploads /\ due' \in SUBSET Codes
    BY <1>3, BoundAssumption DEF WindowPasses, IInv, TypeOK
  <2>2. UNCHANGED <<held, list, status, config, group, ready, capsGen, phase, device, manual>>
    BY <1>3 DEF WindowPasses
  <2>3. QED
    BY <2>1, <2>2, CountingKeeps
<1>4. CASE CloseGate \/ Exit
  BY <1>4, PhaseKeeps
<1>5. CASE ReleaseEverything
  BY <1>5, ReleaseKeeps
<1>6. CASE UNCHANGED vars
  <2>1. uploads' \in 0..MaxUploads /\ due' \in SUBSET Codes
    BY <1>6 DEF vars, IInv, TypeOK
  <2>2. QED
    BY <2>1, <1>6, CountingKeeps DEF vars
<1>7. QED
  BY <1>1, <1>2, <1>3, <1>4, <1>5, <1>6 DEF Next

(* The inductive invariant holds of every behaviour of the helper. *)
THEOREM Invariant == Spec => []IInv
<1>1. Init => IInv
  BY InitIInv
<1>2. IInv /\ [Next]_vars => IInv'
  BY NextKeeps
<1>3. QED
  BY <1>1, <1>2, PTL DEF Spec

(* The variables keep their types (Shared's fields and the device's state). *)
THEOREM TypeCorrect == Spec => []TypeOK
<1>1. IInv => TypeOK
  BY DEF IInv
<1>2. QED
  BY <1>1, Invariant, PTL

(* No key is stuck down and none is lifted while somebody still claims it. *)
THEOREM KeysFollowClaims == Spec => []DownIffHeld
<1>1. IInv => DownIffHeld
  BY DEF IInv
<1>2. QED
  BY <1>1, Invariant, PTL

(* The compositor's mask is the held keys' own, in the group it types in. *)
THEOREM MaskIsDerived == Spec => [](MaskFollowsHeld /\ GroupAgrees)
<1>1. IInv => MaskFollowsHeld /\ GroupAgrees
  BY DEF IInv
<1>2. QED
  BY <1>1, Invariant, PTL

(* A departed connection strands no key (release_all). *)
THEOREM DeparturesStrandNothing == Spec => []NoOrphanClaims
<1>1. IInv => NoOrphanClaims
  BY DEF IInv
<1>2. QED
  BY <1>1, Invariant, PTL

(* The shutdown's release is the device's last writer (release_everything). *)
THEOREM NothingAfterTheRelease == Spec => []ReleaseIsLast
<1>1. IInv => ReleaseIsLast
  BY DEF IInv
<1>2. QED
  BY <1>1, Invariant, PTL

-----------------------------------------------------------------------------
(* Steps: what one may never do. *)

(* One connection's command or departure ends no claim but its own. *)
LEMMA OwnClaimsOnly ==
    ASSUME IInv, NEW d \in Conns, NEW c \in Conns, NEW k \in Codes,
           Connect(d) \/ Depart(d) \/ Command(d) \/ ExpireStuckKeys(d),
           c \in held[k], c \notin held'[k]
    PROVE  \/ k \notin list'[c]
           \/ k \in due /\ ~IsModifier(config, k)
           \/ uploads' = uploads + 1
<1> USE DEF IInv
<1>1. CASE Depart(d)
  <2>1. held' # held
    OBVIOUS
  <2>2. Accepting /\ list' = [list EXCEPT ![d] = {}]
    BY <1>1, <2>1 DEF Depart
  <2>3. held'[k] = IF k \in list[d] THEN held[k] \ {d} ELSE held[k]
    BY <1>1, <2>2 DEF Depart
  <2>4. QED
    BY <2>2, <2>3 DEF TypeOK
<1>2. CASE ExpireStuckKeys(d)
  BY <1>2 DEF ExpireStuckKeys, Lapses, Expired
<1>3. CASE Connect(d)
  BY <1>3 DEF Connect
<1>4. CASE \E x \in Codes : Up(d, x)
  <2>1. PICK x \in Codes : Up(d, x)
    BY <1>4
  <2>2. held' = [held EXCEPT ![x] = @ \ {d}] /\ list' = [list EXCEPT ![d] = @ \ {x}]
    BY <2>1 DEF Up, EndsOwnClaim
  <2>3. c = d /\ x = k
    BY <2>2 DEF TypeOK
  <2>4. QED
    BY <2>2, <2>3 DEF TypeOK
<1>5. CASE \E x \in Codes : Tap(d, x) \/ Down(d, x)
  <2>1. PICK x \in Codes : held' = held \/ held' = [held EXCEPT ![x] = @ \cup {d}]
    BY <1>5 DEF Tap, Down, helper
  <2>2. QED
    BY <2>1 DEF TypeOK
<1>6. CASE \E mask \in SUBSET Bits : Mods(d, mask)
  BY <1>6 DEF Mods, helper
<1>7. CASE \E g \in GroupRange : Group(d, g) \/ ConfigureSame(d, g)
  BY <1>7 DEF Group, ConfigureSame
<1>8. CASE \E m \in Keymaps : PaysForChange(d, m)
  BY <1>8 DEF PaysForChange
<1>9. QED
  BY <1>1, <1>2, <1>3, <1>4, <1>5, <1>6, <1>7, <1>8
     DEF Command, ConfigureRefused, ConfigureUploadFails, ConfigureInstalls

(* Nothing another connection types ends a claim (apply.rs, "A connection that
   never claimed the code cannot end another connection's hold"). *)
THEOREM NoClaimIsStolen == Spec => ClaimsAreNotStolen
<1> DEFINE Fair == \A c \in Conns, k \in Codes :
                     c \in held[k] /\ c \notin held'[k] =>
                       \/ k \notin list'[c]
                       \/ k \in due /\ ~IsModifier(config, k)
                       \/ uploads' = uploads + 1
                       \/ phase' = "released"
<1>1. IInv /\ [Next]_vars => [Fair]_vars
  <2> SUFFICES ASSUME IInv, Next PROVE Fair
    OBVIOUS
  <2> SUFFICES ASSUME NEW c \in Conns, NEW k \in Codes, c \in held[k], c \notin held'[k]
               PROVE  \/ k \notin list'[c]
                      \/ k \in due /\ ~IsModifier(config, k)
                      \/ uploads' = uploads + 1
                      \/ phase' = "released"
    OBVIOUS
  <2>1. CASE \E d \in Conns : Connect(d) \/ Depart(d) \/ Command(d) \/ ExpireStuckKeys(d)
    BY <2>1, OwnClaimsOnly
  <2>2. CASE \E x \in Codes : CapElapses(x)
    BY <2>2 DEF CapElapses
  <2>3. CASE WindowPasses \/ CloseGate \/ Exit
    BY <2>3 DEF WindowPasses, CloseGate, Exit
  <2>4. CASE ReleaseEverything
    BY <2>4 DEF ReleaseEverything
  <2>5. QED
    BY <2>1, <2>2, <2>3, <2>4 DEF Next
<1>2. QED
  BY <1>1, Invariant, PTL DEF Spec, ClaimsAreNotStolen

-----------------------------------------------------------------------------
(* The helper implements SharedKeys. *)

(* Lifting a set of claims is a step of the shared keyboard. *)
LEMMA LiftingShares ==
    ASSUME TypeOK, DownIffHeld', held' = [k \in Codes |-> {}], due' = {}
    PROVE  Sharing!Next
<1>1. held' = [k \in Codes |-> IF k \in Codes THEN {} ELSE held[k]]
  OBVIOUS
<1>2. due' = {k \in due : held'[k] # {}}
  BY DEF TypeOK
<1>3. device.down' = Sharing!Wanted'
  BY DEF DownIffHeld, HeldCodes, Sharing!Wanted
<1>4. QED
  BY <1>1, <1>2, <1>3 DEF Sharing!Next, Sharing!Lift, Sharing!Settle

(* A departure is the abstract keyboard's departure. *)
LEMMA DepartShares ==
    ASSUME IInv, IInv', NEW c \in Conns, Depart(c)
    PROVE  Sharing!Leave(c) \/ UNCHANGED <<held, due, device.down>>
<1> USE DEF IInv
<1>1. CASE ~Accepting
  BY <1>1 DEF Depart
<1>2. CASE Accepting
  <2> DEFINE left == [k \in Codes |-> IF k \in list[c] THEN held[k] \ {c} ELSE held[k]]
  <2>1. held' = left /\ due' = {k \in due : left[k] # {}} /\ status[c] = "open"
    BY <1>2 DEF Depart
  <2>2. \A k \in Codes : left[k] = held[k] \ {c}
    BY <2>1, DepartureTakesItsClaims
  <2>3. held' = [k \in Codes |-> held[k] \ {c}]
    BY <2>1, <2>2
  <2>4. QED
    BY <2>1, <2>3 DEF Sharing!Leave, Sharing!Settle, Sharing!Wanted, DownIffHeld, HeldCodes
<1>3. QED
  BY <1>1, <1>2

(* A command is an abstract press, release or nothing. *)
LEMMA CommandShares ==
    ASSUME IInv, IInv', NEW c \in Conns, Command(c)
    PROVE  Sharing!Next \/ UNCHANGED <<held, due, device.down>>
<1> USE DEF IInv
<1>1. CASE \E k \in Codes : Down(c, k)
  <2>1. PICK k \in Codes : Down(c, k)
    BY <1>1
  <2>2. /\ held' = [held EXCEPT ![k] = @ \cup {c}]
        /\ due' = IF held[k] = {} THEN due \ {k} ELSE due
    BY <2>1 DEF Down
  <2>3. device'.down = device.down \cup {k}
    BY <2>2 DEF DownIffHeld, HeldCodes, TypeOK
  <2>4. QED
    BY <2>2, <2>3 DEF Sharing!Next, Sharing!Claim
<1>2. CASE \E k \in Codes : Up(c, k)
  <2>1. PICK k \in Codes : Up(c, k)
    BY <1>2
  <2>2. /\ held' = [held EXCEPT ![k] = @ \ {c}]
        /\ due' = {x \in due : held'[x] # {}}
        /\ held[k] = {} \/ c \in held[k]
    BY <2>1 DEF Up, EndsOwnClaim
  <2>3. held' = [x \in Codes |-> IF x = k THEN held[k] \ {c} ELSE held[x]]
    BY <2>2 DEF TypeOK
  <2>4. CASE c \in held[k]
    BY <2>2, <2>4 DEF Sharing!Next, Sharing!Give, Sharing!Settle, Sharing!Wanted,
       DownIffHeld, HeldCodes
  <2>5. CASE held[k] = {}
    <3>1. held' = [x \in Codes |-> IF x \in {} THEN {} ELSE held[x]]
      BY <2>3, <2>5
    <3>2. Sharing!Lift({})
      BY <2>2, <3>1 DEF Sharing!Lift, Sharing!Settle, Sharing!Wanted, DownIffHeld, HeldCodes
    <3>3. QED
      BY <3>2 DEF Sharing!Next
  <2>6. QED
    BY <2>2, <2>4, <2>5
<1>3. CASE \E k \in Codes : Tap(c, k)
  BY <1>3 DEF Tap, helper, DownIffHeld, HeldCodes
<1>4. CASE \E mask \in SUBSET Bits : Mods(c, mask)
  BY <1>4 DEF Mods, helper, DownIffHeld, HeldCodes
<1>5. CASE \E g \in GroupRange : Group(c, g) \/ ConfigureSame(c, g)
  BY <1>5 DEF Group, ConfigureSame, DownIffHeld, HeldCodes
<1>6. CASE \E m \in Keymaps : ConfigureRefused(c, m)
  BY <1>6 DEF ConfigureRefused
<1>7. CASE DrainClaims
  <2>1. CASE ready
    <3>1. held' = [k \in Codes |-> {}] /\ due' = {}
      BY <1>7, <2>1 DEF DrainClaims
    <3>2. QED
      BY <3>1, LiftingShares
  <2>2. CASE ~ready
    BY <1>7, <2>2 DEF DrainClaims, DownIffHeld, HeldCodes
  <2>3. QED
    BY <2>1, <2>2
<1>8. QED
  BY <1>1, <1>2, <1>3, <1>4, <1>5, <1>6, <1>7
     DEF Command, ConfigureUploadFails, ConfigureInstalls

(* Every step of the helper is a step of the abstract keyboard or moves nothing
   there, and it starts where the abstract one does. *)
THEOREM Refinement == Spec => SharesKeys
<1>1. Init => Sharing!Init
  BY DEF Init, Sharing!Init
<1>2. IInv /\ IInv' /\ [Next]_vars => [Sharing!Next]_Sharing!vars
  <2> SUFFICES ASSUME IInv, IInv', Next
               PROVE  Sharing!Next \/ UNCHANGED <<held, due, device.down>>
    BY DEF vars, Sharing!vars
  <2> USE DEF IInv
  <2>1. CASE \E c \in Conns : Connect(c) \/ Command(c) \/ Depart(c)
    BY <2>1, CommandShares, DepartShares DEF Connect, Sharing!Next
  <2>2. CASE \E c \in Conns : ExpireStuckKeys(c)
    <3>1. /\ held' = [k \in Codes |-> IF k \in Expired THEN {} ELSE held[k]]
          /\ due' = {k \in due : held'[k] # {}}
      BY <2>2 DEF ExpireStuckKeys, Lapses
    <3>2. Expired \in SUBSET Codes /\ Expired \subseteq due
      BY DEF Expired, HeldCodes
    <3>3. Sharing!Lift(Expired)
      BY <3>1, <3>2 DEF Sharing!Lift, Sharing!Settle, Sharing!Wanted, DownIffHeld, HeldCodes
    <3>4. QED
      BY <3>2, <3>3 DEF Sharing!Next
  <2>3. CASE \E k \in Codes : CapElapses(k)
    BY <2>3 DEF CapElapses, Sharing!Next, Sharing!Age
  <2>4. CASE WindowPasses \/ CloseGate \/ Exit
    BY <2>4 DEF WindowPasses, CloseGate, Exit
  <2>5. CASE ReleaseEverything
    <3>1. held' = [k \in Codes |-> {}] /\ due' = {}
      BY <2>5 DEF ReleaseEverything
    <3>2. QED
      BY <3>1, LiftingShares
  <2>6. QED
    BY <2>1, <2>2, <2>3, <2>4, <2>5 DEF Next
<1>3. QED
  BY <1>1, <1>2, Invariant, PTL DEF Spec, SharesKeys, Sharing!Spec
=============================================================================
