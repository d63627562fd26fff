------------------------- MODULE SessionLink_proofs -------------------------
(***************************************************************************)
(* The typing gate of SessionLink is honest, no drain is missed, and the   *)
(* keycaps of an open gate are those of the helper's keymap, for any       *)
(* keymaps, group counts and bounds.                                       *)
(*                                                                         *)
(* GateIsHonest alone is not inductive: a refused configure has the flags  *)
(* of those behind it computed anew while the gate stays as it is, so IInv *)
(* says as well what the flags stand for.  The other two relate the panel  *)
(* to the helper across the wire, so LInv adds what the wire carries:      *)
(* Linked (a new connection has its hello and nothing else), Owed (each    *)
(* entry of the queue has its configure on the wire, in order) and Dated   *)
(* (generations rise along the wire as keys are lifted, and one of the     *)
(* helper's generation is of the helper's keymap).                         *)
(***************************************************************************)
EXTENDS SessionLink, FiniteSetTheorems, SequenceTheorems, WellFoundedInduction, TLAPS

(* A session by its fields. *)
Rec(q, a, n, g, h, c) ==
    [queue |-> q, acked |-> a, ackedGen |-> n, group |-> g, helloOk |-> h, caps |-> c]

Entries(K, G) == [keymap : K, changed : BOOLEAN, group : G]

Shape(s) ==
    \E q, a, n, g, h, c, K, G :
        s = Rec(q, a, n, g, h, c) /\ q \in Seq(Entries(K, G))

(* The keymap installed when the i-th configure of q runs. *)
Under(q, a, i) == IF i = 1 THEN a ELSE q[i - 1].keymap

(* A configure owed is marked as changing the keymap exactly when it differs *)
(* from what is installed when it runs.                                      *)
FlagsHold(q, a) ==
    \A i \in 1 .. Len(q) : q[i].changed = (q[i].keymap # Under(q, a, i))

Sound(s) == Shape(s) /\ FlagsHold(s.queue, s.acked)

IInv ==
    /\ Sound(session)
    /\ inputReady \in BOOLEAN
    /\ GateIsHonest

-----------------------------------------------------------------------------
LEMMA Fields ==
  ASSUME NEW q, NEW a, NEW n, NEW g, NEW h, NEW c, NEW s, s = Rec(q, a, n, g, h, c)
  PROVE  /\ s.queue = q /\ s.acked = a /\ s.ackedGen = n
         /\ s.group = g /\ s.helloOk = h /\ s.caps = c
  BY DEF Rec

(* What typingReady looks at. *)
LEMMA Ready ==
  ASSUME NEW q, NEW a, NEW n, NEW g, NEW h, NEW c
  PROVE  typingReady(Rec(q, a, n, g, h, c)) <=>
            /\ h
            /\ ~\E i \in DOMAIN q : q[i].changed
            /\ c.gen = n /\ g \in DOMAIN c.byGroup
  BY Fields DEF typingReady, hasDrainAhead, capsCurrent

(* Sequences with elements of a set that grows. *)
LEMMA SeqGrows ==
  ASSUME NEW S, NEW T, S \subseteq T, NEW q \in Seq(S)
  PROVE  q \in Seq(T)
  OBVIOUS

LEMMA SoundRec ==
  ASSUME NEW q, NEW a, NEW n, NEW g, NEW h, NEW c, NEW K, NEW G,
         q \in Seq(Entries(K, G)), FlagsHold(q, a)
  PROVE  Sound(Rec(q, a, n, g, h, c))
  BY Fields DEF Sound, Shape

(* The handshake changes helloOk alone. *)
LEMMA HelloKeepsSound ==
  ASSUME NEW s, Sound(s), NEW b
  PROVE  Sound([s EXCEPT !.helloOk = b])
<1>1. PICK q, a, n, g, h, c, K, G :
        s = Rec(q, a, n, g, h, c) /\ q \in Seq(Entries(K, G))
  BY DEF Sound, Shape
<1>2. [s EXCEPT !.helloOk = b] = Rec(q, a, n, g, b, c)
  BY <1>1 DEF Rec
<1>3. FlagsHold(q, a)
  BY <1>1, Fields DEF Sound
<1> QED  BY <1>1, <1>2, <1>3, SoundRec

LEMMA InitialIsSound == Sound(initial)
<1>1. initial = Rec(<<>>, NoKeymap, 0, 0, FALSE, NoFacts)
  BY DEF initial, Rec
<1>2. <<>> \in Seq(Entries({}, {})) /\ FlagsHold(<<>>, NoKeymap)
  BY DEF FlagsHold
<1>3. \A h : Sound(Rec(<<>>, NoKeymap, 0, 0, h, NoFacts))
  BY <1>2, SoundRec
<1> QED  BY <1>1, <1>3

(* A configure is appended with the flag it stands for; one that changes     *)
(* nothing leaves the session as ready as it was.                            *)
LEMMA SentIsSound ==
  ASSUME NEW s, Sound(s), NEW k, NEW x
  PROVE  /\ Sound(configureSent(s, k, x))
         /\ typingReady(s) /\ k = installed(s) => typingReady(configureSent(s, k, x))
<1>1. PICK q, a, n, g, h, c, K, G :
        s = Rec(q, a, n, g, h, c) /\ q \in Seq(Entries(K, G))
  BY DEF Sound, Shape
<1> DEFINE e == [keymap |-> k, changed |-> k # installed(s), group |-> x]
           p == Append(q, e)
<1>2. configureSent(s, k, x) = Rec(p, a, n, g, h, c)
  <2>1. configureSent(s, k, x) = [s EXCEPT !.queue = p]
    BY <1>1, Fields DEF configureSent
  <2> HIDE DEF p
  <2> QED  BY <1>1, <2>1 DEF Rec
<1>3. e.keymap = k /\ e.changed = (k # installed(s)) /\ e.group = x
  OBVIOUS
<1>4. p \in Seq(Entries(K \cup {k}, G \cup {x}))
  <2>1. q \in Seq(Entries(K \cup {k}, G \cup {x}))
    <3>1. Entries(K, G) \subseteq Entries(K \cup {k}, G \cup {x})
      BY DEF Entries
    <3> QED  BY <1>1, <3>1, SeqGrows
  <2>2. e \in Entries(K \cup {k}, G \cup {x})
    BY DEF Entries
  <2> HIDE DEF e
  <2> QED  BY <2>1, <2>2
<1> HIDE DEF e
<1>5. /\ Len(q) \in Nat /\ Len(p) = Len(q) + 1 /\ p[Len(q) + 1] = e
      /\ DOMAIN p = 1 .. (Len(q) + 1) /\ DOMAIN q = 1 .. Len(q)
      /\ \A i \in 1 .. Len(q) : p[i] = q[i]
  BY <1>1
<1> HIDE DEF p
<1>6. installed(s) = Under(p, a, Len(q) + 1)
  <2>1. CASE Len(q) = 0
    BY <2>1, <1>1, Fields DEF installed, Under
  <2>2. CASE Len(q) # 0
    <3>1. q # <<>> /\ Len(q) + 1 # 1 /\ p[(Len(q) + 1) - 1] = q[Len(q)]
      BY <2>2, <1>5
    <3> QED  BY <3>1, <1>1, Fields DEF installed, Under
  <2> QED  BY <2>1, <2>2
<1>7. FlagsHold(p, a)
  <2> SUFFICES ASSUME NEW i \in 1 .. (Len(q) + 1)
               PROVE  p[i].changed = (p[i].keymap # Under(p, a, i))
    BY <1>5 DEF FlagsHold
  <2>1. CASE i \in 1 .. Len(q)
    <3>1. q[i].changed = (q[i].keymap # Under(q, a, i))
      BY <2>1, <1>1, Fields DEF Sound, FlagsHold
    <3>2. Under(p, a, i) = Under(q, a, i)
      BY <2>1, <1>5 DEF Under
    <3> QED  BY <3>1, <3>2, <2>1, <1>5
  <2>2. CASE i = Len(q) + 1
    BY <2>2, <1>3, <1>5, <1>6
  <2> QED  BY <2>1, <2>2, <1>5
<1>8. ASSUME typingReady(s), k = installed(s)
      PROVE  typingReady(Rec(p, a, n, g, h, c))
  <2>1. ~e.changed
    BY <1>3, <1>8
  <2>2. \A i \in DOMAIN q : ~q[i].changed
    BY <1>1, <1>8, Ready
  <2>3. \A i \in DOMAIN p : ~p[i].changed
    BY <2>1, <2>2, <1>5
  <2> QED  BY <1>1, <1>8, <2>3, Ready
<1> QED  BY <1>2, <1>4, <1>7, <1>8, SoundRec

(* The first of the queue is answered and what it asked for is installed. *)
LEMMA AckIsSound ==
  ASSUME NEW s, Sound(s), NEW gen
  PROVE  Sound(configureAck(s, gen))
<1>1. PICK q, a, n, g, h, c, K, G :
        s = Rec(q, a, n, g, h, c) /\ q \in Seq(Entries(K, G))
  BY DEF Sound, Shape
<1>2. CASE q = <<>>
  <2>1. s.queue = <<>>
    BY <1>1, <1>2, Fields
  <2> QED  BY <2>1 DEF configureAck, settled
<1>3. CASE q # <<>>
  <2> DEFINE p == Tail(q)
             b == Head(q).keymap
  <2>1. configureAck(s, gen) = Rec(p, b, gen, Head(q).group, h, c)
    BY <1>1, <1>3 DEF Rec, configureAck, settled
  <2>2. /\ p \in Seq(Entries(K, G)) /\ Len(q) \in Nat \ {0} /\ Len(p) = Len(q) - 1
        /\ \A i \in 1 .. Len(p) : p[i] = q[i + 1]
        /\ b = q[1].keymap
    BY <1>1, <1>3
  <2> HIDE DEF p, b
  <2>3. FlagsHold(p, b)
    <3> SUFFICES ASSUME NEW i \in 1 .. Len(p)
                 PROVE  p[i].changed = (p[i].keymap # Under(p, b, i))
      BY DEF FlagsHold
    <3>1. i + 1 \in 1 .. Len(q)
      BY <2>2
    <3>2. q[i + 1].changed = (q[i + 1].keymap # Under(q, a, i + 1))
      BY <3>1, <1>1, Fields DEF Sound, FlagsHold
    <3>3. Under(q, a, i + 1) = Under(p, b, i)
      <4>1. i + 1 # 1 /\ (i + 1) - 1 = i
        BY <2>2
      <4>2. CASE i = 1
        BY <4>1, <4>2, <2>2 DEF Under
      <4>3. CASE i # 1
        <5>1. i - 1 \in 1 .. Len(p) /\ (i - 1) + 1 = i
          BY <4>3, <2>2
        <5>2. p[i - 1] = q[i]
          BY <5>1, <2>2
        <5> QED  BY <4>1, <4>3, <5>2 DEF Under
      <4> QED  BY <4>2, <4>3
    <3> QED  BY <3>2, <3>3, <2>2
  <2> QED  BY <2>1, <2>2, <2>3, SoundRec
<1> QED  BY <1>2, <1>3

(* A refused configure leaves the ones behind it to be compared again.  If   *)
(* none of them was to change the keymap, none is after.                     *)
LEMMA FailedIsSound ==
  ASSUME NEW s, Sound(s)
  PROVE  /\ Sound(configureFailed(s))
         /\ typingReady(s) => typingReady(configureFailed(s))
<1>1. PICK q, a, n, g, h, c, K, G :
        s = Rec(q, a, n, g, h, c) /\ q \in Seq(Entries(K, G))
  BY DEF Sound, Shape
<1>2. CASE q = <<>>
  <2>1. s.queue = <<>>
    BY <1>1, <1>2, Fields
  <2> QED  BY <2>1 DEF configureFailed, settled
<1>3. CASE q # <<>>
  <2> DEFINE p == Tail(q)
             r == Rebased(p, a)
  <2>1. configureFailed(s) = Rec(r, a, n, g, h, c)
    BY <1>1, <1>3 DEF Rec, configureFailed, settled
  <2>2. /\ p \in Seq(Entries(K, G)) /\ Len(q) \in Nat \ {0} /\ Len(p) = Len(q) - 1
        /\ Len(p) \in Nat /\ DOMAIN p = 1 .. Len(p) /\ DOMAIN q = 1 .. Len(q)
        /\ \A i \in 1 .. Len(p) : p[i] = q[i + 1]
    BY <1>1, <1>3
  <2> HIDE DEF p
  <2>3. ASSUME NEW i \in 1 .. Len(p)
        PROVE  /\ r[i].keymap = p[i].keymap
               /\ r[i].changed = (p[i].keymap # Under(p, a, i))
               /\ r[i] \in Entries(K, G)
    <3>1. r[i] = [p[i] EXCEPT !.changed = p[i].keymap # Under(p, a, i)]
      BY <2>2 DEF Rebased, Under
    <3>2. p[i] \in Entries(K, G)
      BY <2>2
    <3> DEFINE f == p[i].keymap # Under(p, a, i)
    <3>3. f \in BOOLEAN
      OBVIOUS
    <3> HIDE DEF f, r
    <3>4. r[i] = [p[i] EXCEPT !.changed = f]
      BY <3>1 DEF f
    <3>5. r[i].keymap = p[i].keymap /\ r[i].changed = f /\ r[i] \in Entries(K, G)
      BY <3>2, <3>3, <3>4 DEF Entries
    <3> QED  BY <3>5 DEF f
  <2>4. r = [i \in 1 .. Len(p) |-> r[i]]
    BY <2>2 DEF Rebased
  <2> HIDE DEF r
  <2>5. r \in Seq(Entries(K, G)) /\ Len(r) = Len(p) /\ DOMAIN r = 1 .. Len(p)
    <3>1. \A i \in 1 .. Len(p) : r[i] \in Entries(K, G)
      BY <2>3
    <3> QED  BY <3>1, <2>4, <2>2
  <2>6. FlagsHold(r, a)
    <3> SUFFICES ASSUME NEW i \in 1 .. Len(p)
                 PROVE  r[i].changed = (r[i].keymap # Under(r, a, i))
      BY <2>5 DEF FlagsHold
    <3>1. Under(r, a, i) = Under(p, a, i)
      BY <2>2, <2>3 DEF Under
    <3> QED  BY <3>1, <2>3
  <2>7. ASSUME typingReady(s)  PROVE typingReady(Rec(r, a, n, g, h, c))
    <3>1. \A i \in 1 .. Len(q) : ~q[i].changed
      BY <1>1, <2>2, <2>7, Ready
    <3>2. \A i \in 1 .. Len(q) : q[i].keymap = Under(q, a, i)
      <4>1. FlagsHold(q, a)
        BY <1>1, Fields DEF Sound
      <4> QED  BY <3>1, <4>1 DEF FlagsHold
    <3>3. q[1].keymap = a
      BY <3>2, <2>2 DEF Under
    <3>4. ASSUME NEW i \in 1 .. Len(p)  PROVE ~r[i].changed
      <4>1. i + 1 \in 1 .. Len(q) /\ i + 1 # 1 /\ (i + 1) - 1 = i
        BY <2>2
      <4>2. p[i].keymap = q[i].keymap
        BY <3>2, <4>1, <2>2 DEF Under
      <4>3. q[i].keymap = Under(p, a, i)
        BY <3>3, <2>2 DEF Under
      <4> QED  BY <4>2, <4>3, <2>3
    <3> QED  BY <1>1, <2>5, <2>7, <3>4, Ready
  <2> QED  BY <2>1, <2>5, <2>6, <2>7, SoundRec
<1> QED  BY <1>2, <1>3

(* Facts of the acknowledged generation add to what is drawn. *)
LEMMA FactsAreSound ==
  ASSUME NEW s, Sound(s), NEW gen, NEW x, NEW k
  PROVE  /\ Sound(capsFacts(s, gen, x, k))
         /\ typingReady(s) => typingReady(capsFacts(s, gen, x, k))
<1>1. CASE gen # s.ackedGen
  BY <1>1 DEF capsFacts
<1>2. CASE gen = s.ackedGen
  <2>1. PICK q, a, n, g, h, c, K, G :
          s = Rec(q, a, n, g, h, c) /\ q \in Seq(Entries(K, G))
    BY DEF Sound, Shape
  <2> DEFINE have == IF c.gen = gen THEN c.byGroup ELSE <<>>
             facts == [y \in DOMAIN have \cup {x} |-> IF y = x THEN k ELSE have[y]]
             d == [gen |-> gen, byGroup |-> facts]
  <2>2. DOMAIN facts = DOMAIN have \cup {x} /\ d.gen = gen /\ d.byGroup = facts
    OBVIOUS
  <2>3. capsFacts(s, gen, x, k) = Rec(q, a, n, g, h, d)
    <3>1. capsFacts(s, gen, x, k) = [s EXCEPT !.caps = d]
      BY <1>2, <2>1, Fields DEF capsFacts
    <3> HIDE DEF d
    <3> QED  BY <2>1, <3>1 DEF Rec
  <2> HIDE DEF d, facts
  <2>4. ASSUME typingReady(s)  PROVE typingReady(Rec(q, a, n, g, h, d))
    <3>1. c.gen = n /\ g \in DOMAIN c.byGroup /\ n = gen
      BY <1>2, <2>1, <2>4, Ready, Fields
    <3>2. d.gen = n /\ g \in DOMAIN d.byGroup
      BY <3>1, <2>2
    <3> QED  BY <2>1, <2>4, <3>2, Ready
  <2>5. FlagsHold(q, a)
    BY <2>1, Fields DEF Sound
  <2> QED  BY <2>1, <2>3, <2>4, <2>5, SoundRec
<1> QED  BY <1>1, <1>2

(* The handshake and its loss keep the session, or start it over. *)
LEMMA HandshakeIsSound ==
  ASSUME NEW s, Sound(s), NEW fresh
  PROVE  Sound(helloAcked(s, fresh)) /\ Sound(connectionDown(s))
  BY HelloKeepsSound, InitialIsSound DEF helloAcked, connectionDown

-----------------------------------------------------------------------------
(* An action that leaves the session and the gate alone. *)
LEMMA Untouched ==
  ASSUME IInv, UNCHANGED <<session, inputReady>>
  PROVE  IInv'
  BY DEF IInv, GateIsHonest

LEMMA IngestKeepsIInv ==
  ASSUME IInv, NEW k, NEW x, NEW displacedNow, Ingest(k, x, displacedNow)
  PROVE  IInv'
<1>1. /\ session' = configureSent(session, k, x)
      /\ inputReady' = (inputReady /\ k = installed(session))
  BY DEF Ingest, GateBefore
<1>2. Sound(session)'
  BY <1>1, SentIsSound DEF IInv
<1>3. inputReady' => typingReady(session')
  BY <1>1, SentIsSound DEF IInv, GateIsHonest
<1> QED  BY <1>1, <1>2, <1>3 DEF IInv, GateIsHonest

LEMMA DropKeepsIInv ==
  ASSUME IInv, NEW restarted, NEW gaveBack, Drop(restarted, gaveBack)
  PROVE  IInv'
  BY HandshakeIsSound DEF IInv, GateIsHonest, Drop

LEMMA PanelKeepsIInv ==
  ASSUME IInv, PanelHears
  PROVE  IInv'
<1>1. CASE HearHello
  BY <1>1, HandshakeIsSound DEF IInv, GateIsHonest, HearHello
<1>2. CASE HearEvent
  BY <1>2, Untouched DEF HearEvent
<1>3. CASE HearSeat
  BY <1>3, IngestKeepsIInv DEF HearSeat
<1>4. CASE HearSeatRefused
  BY <1>4, Untouched DEF HearSeatRefused
<1>5. CASE HearConfigured
  <2>1. /\ session' = configureAck(session, Heard.gen)
        /\ inputReady' = typingReady(session')
    BY <1>5 DEF HearConfigured
  <2>2. Sound(session)'
    BY <2>1, AckIsSound DEF IInv
  <2>3. inputReady' \in BOOLEAN
    BY <2>1 DEF typingReady
  <2> QED  BY <2>1, <2>2, <2>3 DEF IInv, GateIsHonest
<1>6. CASE HearCaps
  <2>1. CASE Heard.gen = session.ackedGen
    <3> DEFINE next == capsFacts(session, Heard.gen, Heard.group, Heard.keymap)
    <3>1. session' = next /\ inputReady' = (inputReady \/ typingReady(next))
      BY <1>6, <2>1 DEF HearCaps
    <3>2. Sound(next) /\ (typingReady(session) => typingReady(next))
      BY FactsAreSound DEF IInv
    <3> HIDE DEF next
    <3> QED  BY <3>1, <3>2 DEF IInv, GateIsHonest
  <2>2. CASE Heard.gen # session.ackedGen
    BY <1>6, <2>2, Untouched DEF HearCaps
  <2> QED  BY <2>1, <2>2
<1>7. CASE HearBadGroup
  <2>1. CASE Heard.verb = "configure"
    <3>1. session' = configureFailed(session) /\ inputReady' = inputReady
      BY <1>7, <2>1 DEF HearBadGroup, BadGroupSettles
    <3> QED  BY <3>1, FailedIsSound DEF IInv, GateIsHonest
  <2>2. CASE Heard.verb # "configure"
    <3>1. session' = session /\ inputReady' = (inputReady /\ capsCurrent(session))
      BY <1>7, <2>2 DEF HearBadGroup
    <3> QED  BY <3>1 DEF IInv, GateIsHonest
  <2> QED  BY <2>1, <2>2
<1>8. CASE HearCannotConfigure
  BY <1>8, FailedIsSound DEF IInv, GateIsHonest, HearCannotConfigure
<1>9. CASE HearShare
  BY <1>9, Untouched DEF HearShare
<1> QED  BY <1>1, <1>2, <1>3, <1>4, <1>5, <1>6, <1>7, <1>8, <1>9 DEF PanelHears

LEMMA HelperKeepsIInv ==
  ASSUME IInv, HelperRuns
  PROVE  IInv'
<1>1. UNCHANGED <<session, inputReady>>
  BY DEF HelperRuns, RunHello, RunEvents, RunSeat, RunSeatFails, RunConfigure,
         RunConfigureFails, RunCaps, RunBadGroup, RunShare, RunShareFails, Reply, panel
<1> QED  BY <1>1, Untouched

LEMMA NextKeepsIInv ==
  ASSUME IInv, [Next]_vars
  PROVE  IInv'
<1>1. ASSUME NEW g \in Groups, UserSwitches(g)  PROVE IInv'
  BY <1>1, Untouched DEF UserSwitches, panel
<1>2. ASSUME NEW k \in Keymaps, UserReloads(k) \/ AnotherClientConfigures(k)  PROVE IInv'
  BY <1>2, Untouched DEF UserReloads, AnotherClientConfigures, panel
<1>3. CASE Connect \/ RepairTick \/ ShareRetry
  BY <1>3, Untouched DEF Connect, RepairTick, ShareRetry, panel
<1>4. CASE UNCHANGED vars
  BY <1>4, Untouched DEF vars, panel
<1> QED  BY <1>1, <1>2, <1>3, <1>4, HelperKeepsIInv, PanelKeepsIInv, DropKeepsIInv DEF Next

(* The gate of the panel is never open over a keymap about to change, over   *)
(* facts of another generation or group, or before the handshake             *)
(* (applyReady and its callers, HelperReplies.js), whatever the user, other  *)
(* clients and the connection do.                                            *)
THEOREM GateStaysHonest == Spec => []GateIsHonest
<1>1. Init => IInv
  BY InitialIsSound DEF Init, IInv, GateIsHonest
<1>2. IInv /\ [Next]_vars => IInv'
  BY NextKeepsIInv
<1>3. IInv => GateIsHonest
  BY DEF IInv
<1> QED  BY <1>1, <1>2, <1>3, PTL DEF Spec

-----------------------------------------------------------------------------
(* Sequences, whatever they hold.                                           *)

IsSeq(s) == \E S : s \in Seq(S)

LEMMA Appended ==
  ASSUME NEW s, IsSeq(s), NEW e
  PROVE  /\ IsSeq(Append(s, e)) /\ Len(s) \in Nat /\ Len(Append(s, e)) = Len(s) + 1
         /\ \A i \in 1 .. Len(s) : Append(s, e)[i] = s[i]
         /\ Append(s, e)[Len(s) + 1] = e
<1>1. PICK S : s \in Seq(S)
  BY DEF IsSeq
<1>2. s \in Seq(S \cup {e})
  BY <1>1, SeqGrows
<1>3. Append(s, e) \in Seq(S \cup {e})
  BY <1>2
<1> QED  BY <1>2, <1>3 DEF IsSeq

LEMMA Tailed ==
  ASSUME NEW s, IsSeq(s), s # <<>>
  PROVE  /\ IsSeq(Tail(s)) /\ Len(s) \in Nat \ {0} /\ Len(Tail(s)) = Len(s) - 1
         /\ \A i \in 1 .. (Len(s) - 1) : Tail(s)[i] = s[i + 1]
         /\ Head(s) = s[1]
<1>1. PICK S : s \in Seq(S)
  BY DEF IsSeq
<1> QED  BY <1>1 DEF IsSeq

LEMMA Joined ==
  ASSUME NEW s, IsSeq(s), NEW t, IsSeq(t)
  PROVE  /\ IsSeq(s \o t) /\ Len(s) \in Nat /\ Len(t) \in Nat
         /\ Len(s \o t) = Len(s) + Len(t)
         /\ \A i \in 1 .. Len(s) : (s \o t)[i] = s[i]
         /\ \A i \in 1 .. Len(t) : (s \o t)[Len(s) + i] = t[i]
<1>1. PICK S : s \in Seq(S)
  BY DEF IsSeq
<1>2. PICK T : t \in Seq(T)
  BY DEF IsSeq
<1>3. s \in Seq(S \cup T) /\ t \in Seq(S \cup T)
  BY <1>1, <1>2, SeqGrows
<1>4. s \o t \in Seq(S \cup T)
  BY <1>3
<1> QED  BY <1>3, <1>4 DEF IsSeq

LEMMA Short ==
  /\ IsSeq(<<>>) /\ Len(<<>>) = 0
  /\ \A e : IsSeq(<<e>>) /\ Len(<<e>>) = 1 /\ <<e>>[1] = e
<1>1. <<>> \in Seq({})
  OBVIOUS
<1>2. \A e : <<e>> \in Seq({e})
  OBVIOUS
<1> QED  BY <1>1, <1>2 DEF IsSeq

LEMMA Empty ==
  ASSUME NEW s, IsSeq(s)
  PROVE  Len(s) \in Nat /\ (s = <<>> <=> Len(s) = 0)
  BY DEF IsSeq

-----------------------------------------------------------------------------
(* The entries of a queue are owed by the configures of a wire, the unread  *)
(* replies and the lines not run yet: one for each, in order, and no other. *)
Matches(c, q, w) ==
    /\ c \in [1 .. Len(q) -> 1 .. Len(w)]
    /\ \A k \in 1 .. Len(q) : w[c[k]].verb = "configure" /\ w[c[k]].keymap = q[k].keymap
    /\ \A k, l \in 1 .. Len(q) : k < l => c[k] < c[l]
    /\ \A i \in 1 .. Len(w) : w[i].verb = "configure" => \E k \in 1 .. Len(q) : c[k] = i

Owes(q, w) == \E c : Matches(c, q, w)

(* The wire may change as long as its configures stand for the same.        *)
LEMMA OwesAlike ==
  ASSUME NEW q, NEW w, Owes(q, w), NEW p, NEW v, Len(p) = Len(q), Len(v) = Len(w),
         \A k \in 1 .. Len(q) : p[k].keymap = q[k].keymap,
         \A i \in 1 .. Len(w) :
            /\ v[i].verb = "configure" <=> w[i].verb = "configure"
            /\ w[i].verb = "configure" => v[i].keymap = w[i].keymap
  PROVE  Owes(p, v)
<1>0. PICK c : Matches(c, q, w)
  BY DEF Owes
<1>1. /\ c \in [1 .. Len(q) -> 1 .. Len(w)]
      /\ \A k \in 1 .. Len(q) : w[c[k]].verb = "configure" /\ w[c[k]].keymap = q[k].keymap
      /\ \A k, l \in 1 .. Len(q) : k < l => c[k] < c[l]
      /\ \A i \in 1 .. Len(w) : w[i].verb = "configure" => \E k \in 1 .. Len(q) : c[k] = i
  BY <1>0 DEF Matches
<1>2. c \in [1 .. Len(p) -> 1 .. Len(v)]
  BY <1>1
<1>3. \A k \in 1 .. Len(p) : v[c[k]].verb = "configure" /\ v[c[k]].keymap = p[k].keymap
  BY <1>1
<1>4. \A i \in 1 .. Len(v) : v[i].verb = "configure" => \E k \in 1 .. Len(p) : c[k] = i
  BY <1>1
<1>5. Matches(c, p, v)
  BY <1>1, <1>2, <1>3, <1>4 DEF Matches
<1> QED  BY <1>5 DEF Owes

(* A line that is no configure comes in, or goes.                           *)
LEMMA OwesInserted ==
  ASSUME NEW q, NEW w, Owes(q, w), NEW v, Len(q) \in Nat, Len(w) \in Nat,
         NEW p \in 1 .. (Len(w) + 1),
         Len(v) = Len(w) + 1, v[p].verb # "configure",
         \A i \in 1 .. Len(w) : v[IF i < p THEN i ELSE i + 1] = w[i]
  PROVE  Owes(q, v)
<1>0. PICK c : Matches(c, q, w)
  BY DEF Owes
<1>1. /\ c \in [1 .. Len(q) -> 1 .. Len(w)]
      /\ \A k \in 1 .. Len(q) : w[c[k]].verb = "configure" /\ w[c[k]].keymap = q[k].keymap
      /\ \A k, l \in 1 .. Len(q) : k < l => c[k] < c[l]
      /\ \A i \in 1 .. Len(w) : w[i].verb = "configure" => \E k \in 1 .. Len(q) : c[k] = i
  BY <1>0 DEF Matches
<1> DEFINE d == [k \in 1 .. Len(q) |-> IF c[k] < p THEN c[k] ELSE c[k] + 1]
<1>2. \A k \in 1 .. Len(q) : c[k] \in 1 .. Len(w) /\ c[k] \in Nat
  BY <1>1
<1>3. d \in [1 .. Len(q) -> 1 .. Len(v)]
  BY <1>2
<1>4. \A k \in 1 .. Len(q) : d[k] = IF c[k] < p THEN c[k] ELSE c[k] + 1
  OBVIOUS
<1> HIDE DEF d
<1>5. \A k \in 1 .. Len(q) : v[d[k]] = w[c[k]]
  BY <1>2, <1>4
<1>6. \A k, l \in 1 .. Len(q) : k < l => d[k] < d[l]
  BY <1>1, <1>2, <1>4
<1>7. ASSUME NEW i \in 1 .. Len(v), v[i].verb = "configure"
      PROVE  \E k \in 1 .. Len(q) : d[k] = i
  <2> DEFINE j == IF i < p THEN i ELSE i - 1
  <2>1. i # p
    BY <1>7
  <2>2. j \in 1 .. Len(w) /\ i = IF j < p THEN j ELSE j + 1
    <3>1. i \in Nat /\ 1 <= i /\ i <= Len(w) + 1
      OBVIOUS
    <3>2. CASE i < p
      BY <3>1, <3>2
    <3>3. CASE i > p
      BY <3>1, <3>3
    <3> QED  BY <2>1, <3>1, <3>2, <3>3
  <2>3. w[j].verb = "configure"
    BY <2>2, <1>7
  <2> HIDE DEF j
  <2> QED  BY <1>1, <1>4, <2>2, <2>3
<1>8. Matches(d, q, v)
  BY <1>1, <1>3, <1>5, <1>6, <1>7 DEF Matches
<1> QED  BY <1>8 DEF Owes

LEMMA OwesRemoved ==
  ASSUME NEW q, NEW w, Owes(q, w), NEW v, Len(q) \in Nat, Len(v) \in Nat,
         Len(w) = Len(v) + 1, NEW p \in 1 .. Len(w), w[p].verb # "configure",
         \A i \in 1 .. Len(v) : v[i] = w[IF i < p THEN i ELSE i + 1]
  PROVE  Owes(q, v)
<1>0. PICK c : Matches(c, q, w)
  BY DEF Owes
<1>1. /\ c \in [1 .. Len(q) -> 1 .. Len(w)]
      /\ \A k \in 1 .. Len(q) : w[c[k]].verb = "configure" /\ w[c[k]].keymap = q[k].keymap
      /\ \A k, l \in 1 .. Len(q) : k < l => c[k] < c[l]
      /\ \A i \in 1 .. Len(w) : w[i].verb = "configure" => \E k \in 1 .. Len(q) : c[k] = i
  BY <1>0 DEF Matches
<1> DEFINE d == [k \in 1 .. Len(q) |-> IF c[k] < p THEN c[k] ELSE c[k] - 1]
<1>2. \A k \in 1 .. Len(q) : c[k] \in 1 .. Len(w) /\ c[k] \in Nat /\ c[k] # p
  BY <1>1
<1>3. d \in [1 .. Len(q) -> 1 .. Len(v)]
  <2> SUFFICES ASSUME NEW k \in 1 .. Len(q)
               PROVE  (IF c[k] < p THEN c[k] ELSE c[k] - 1) \in 1 .. Len(v)
    OBVIOUS
  <2> QED  BY <1>2
<1>4. \A k \in 1 .. Len(q) : d[k] = IF c[k] < p THEN c[k] ELSE c[k] - 1
  OBVIOUS
<1>8. \A k \in 1 .. Len(q) : d[k] \in 1 .. Len(v)
  BY <1>3
<1> HIDE DEF d
<1>5. \A k \in 1 .. Len(q) : v[d[k]] = w[c[k]]
  <2> TAKE k \in 1 .. Len(q)
  <2>1. v[d[k]] = w[IF d[k] < p THEN d[k] ELSE d[k] + 1]
    BY <1>8
  <2>2. c[k] = IF d[k] < p THEN d[k] ELSE d[k] + 1
    BY <1>2, <1>4
  <2> QED  BY <2>1, <2>2
<1>6. \A k, l \in 1 .. Len(q) : k < l => d[k] < d[l]
  BY <1>1, <1>2, <1>4
<1>7. ASSUME NEW i \in 1 .. Len(v), v[i].verb = "configure"
      PROVE  \E k \in 1 .. Len(q) : d[k] = i
  <2> DEFINE j == IF i < p THEN i ELSE i + 1
  <2>2. j \in 1 .. Len(w) /\ i = (IF j < p THEN j ELSE j - 1) /\ v[i] = w[j]
    BY <1>7
  <2> HIDE DEF j
  <2> QED  BY <1>1, <1>4, <1>7, <2>2
<1>9. Matches(d, q, v)
  BY <1>1, <1>3, <1>5, <1>6, <1>7 DEF Matches
<1> QED  BY <1>9 DEF Owes

(* Lines behind the others that are no configures.                          *)
LEMMA OwesExtended ==
  ASSUME NEW q, NEW w, Owes(q, w), NEW v, Len(w) \in Nat, Len(v) \in Nat, Len(w) <= Len(v),
         \A i \in 1 .. Len(w) : v[i] = w[i],
         \A i \in 1 .. Len(v) : i > Len(w) => v[i].verb # "configure"
  PROVE  Owes(q, v)
<1>0. PICK c : Matches(c, q, w)
  BY DEF Owes
<1>1. /\ c \in [1 .. Len(q) -> 1 .. Len(w)]
      /\ \A k \in 1 .. Len(q) : w[c[k]].verb = "configure" /\ w[c[k]].keymap = q[k].keymap
      /\ \A k, l \in 1 .. Len(q) : k < l => c[k] < c[l]
      /\ \A i \in 1 .. Len(w) : w[i].verb = "configure" => \E k \in 1 .. Len(q) : c[k] = i
  BY <1>0 DEF Matches
<1>2. c \in [1 .. Len(q) -> 1 .. Len(v)]
  BY <1>1
<1>3. \A k \in 1 .. Len(q) : c[k] \in 1 .. Len(w)
  BY <1>1
<1>4. \A i \in 1 .. Len(v) : v[i].verb = "configure" => i \in 1 .. Len(w)
  OBVIOUS
<1>5. \A k \in 1 .. Len(q) : v[c[k]] = w[c[k]]
  BY <1>3
<1>6. \A i \in 1 .. Len(v) : v[i].verb = "configure" => \E k \in 1 .. Len(q) : c[k] = i
  BY <1>1, <1>4
<1>7. Matches(c, q, v)
  BY <1>1, <1>2, <1>5, <1>6 DEF Matches
<1> QED  BY <1>7 DEF Owes

(* A configure sent is owed behind the others.                              *)
LEMMA OwesSent ==
  ASSUME NEW q, NEW w, Owes(q, w), NEW p, NEW v, Len(q) \in Nat, Len(w) \in Nat,
         Len(p) = Len(q) + 1, Len(v) = Len(w) + 1,
         \A k \in 1 .. Len(q) : p[k] = q[k], \A i \in 1 .. Len(w) : v[i] = w[i],
         v[Len(v)].verb = "configure", v[Len(v)].keymap = p[Len(p)].keymap
  PROVE  Owes(p, v)
<1>0. PICK c : Matches(c, q, w)
  BY DEF Owes
<1>1. /\ c \in [1 .. Len(q) -> 1 .. Len(w)]
      /\ \A k \in 1 .. Len(q) : w[c[k]].verb = "configure" /\ w[c[k]].keymap = q[k].keymap
      /\ \A k, l \in 1 .. Len(q) : k < l => c[k] < c[l]
      /\ \A i \in 1 .. Len(w) : w[i].verb = "configure" => \E k \in 1 .. Len(q) : c[k] = i
  BY <1>0 DEF Matches
<1> DEFINE d == [k \in 1 .. Len(p) |-> IF k = Len(p) THEN Len(v) ELSE c[k]]
<1>2. \A k \in 1 .. Len(q) : c[k] \in 1 .. Len(w)
  BY <1>1
<1>3. d \in [1 .. Len(p) -> 1 .. Len(v)]
  <2> SUFFICES ASSUME NEW k \in 1 .. Len(p)
               PROVE  (IF k = Len(p) THEN Len(v) ELSE c[k]) \in 1 .. Len(v)
    OBVIOUS
  <2>1. k = Len(p) \/ k \in 1 .. Len(q)
    OBVIOUS
  <2> QED  BY <1>2, <2>1
<1>4. /\ d[Len(p)] = Len(v)
      /\ \A k \in 1 .. Len(q) : d[k] = c[k]
  OBVIOUS
<1> HIDE DEF d
<1>5. \A k \in 1 .. Len(p) : v[d[k]].verb = "configure" /\ v[d[k]].keymap = p[k].keymap
  <2> TAKE k \in 1 .. Len(p)
  <2>1. CASE k = Len(p)
    BY <1>4, <2>1
  <2>2. CASE k \in 1 .. Len(q)
    <3>1. d[k] = c[k] /\ v[c[k]] = w[c[k]] /\ p[k] = q[k]
      BY <1>2, <1>4, <2>2
    <3> QED  BY <1>1, <2>2, <3>1
  <2> QED  BY <2>1, <2>2
<1>6. \A k, l \in 1 .. Len(p) : k < l => d[k] < d[l]
  <2> SUFFICES ASSUME NEW k \in 1 .. Len(p), NEW l \in 1 .. Len(p), k < l
               PROVE  d[k] < d[l]
    OBVIOUS
  <2>1. k \in 1 .. Len(q) /\ (l = Len(p) \/ l \in 1 .. Len(q))
    OBVIOUS
  <2>2. d[k] = c[k] /\ c[k] \in 1 .. Len(w)
    BY <1>2, <1>4, <2>1
  <2>3. CASE l = Len(p)
    <3>1. d[l] = Len(v)
      BY <1>4, <2>3
    <3> QED  BY <2>2, <3>1
  <2>4. CASE l \in 1 .. Len(q)
    <3>1. d[l] = c[l]
      BY <1>4, <2>4
    <3>2. c[k] < c[l]
      BY <1>1, <2>1, <2>4
    <3> QED  BY ONLY <2>2, <3>1, <3>2
  <2> QED  BY <2>1, <2>3, <2>4
<1>7. ASSUME NEW i \in 1 .. Len(v), v[i].verb = "configure"
      PROVE  \E k \in 1 .. Len(p) : d[k] = i
  <2>1. CASE i = Len(v)
    BY <1>4, <2>1
  <2>2. CASE i \in 1 .. Len(w)
    <3>1. w[i].verb = "configure"
      BY <1>7, <2>2
    <3>2. PICK k \in 1 .. Len(q) : c[k] = i
      BY <1>1, <2>2, <3>1
    <3>3. k \in 1 .. Len(p) /\ d[k] = i
      BY <1>4, <3>2
    <3> QED  BY ONLY <3>3
  <2> QED  BY <2>1, <2>2
<1>8. Matches(d, p, v)
  BY <1>3, <1>5, <1>6, <1>7 DEF Matches
<1> QED  BY <1>8 DEF Owes

(* The answer read first settles the entry first sent.                      *)
LEMMA OwesSettled ==
  ASSUME NEW q, NEW w, Owes(q, w), NEW p, NEW v, Len(q) \in Nat, Len(v) \in Nat,
         Len(w) = Len(v) + 1, \A i \in 1 .. Len(v) : v[i] = w[i + 1],
         w[1].verb = "configure"
  PROVE  /\ Len(q) > 0 /\ q[1].keymap = w[1].keymap
         /\ Len(p) = Len(q) - 1 /\ (\A k \in 1 .. (Len(q) - 1) : p[k] = q[k + 1]) =>
                Owes(p, v)
<1>0. PICK c : Matches(c, q, w)
  BY DEF Owes
<1>1. /\ c \in [1 .. Len(q) -> 1 .. Len(w)]
      /\ \A k \in 1 .. Len(q) : w[c[k]].verb = "configure" /\ w[c[k]].keymap = q[k].keymap
      /\ \A k, l \in 1 .. Len(q) : k < l => c[k] < c[l]
      /\ \A i \in 1 .. Len(w) : w[i].verb = "configure" => \E k \in 1 .. Len(q) : c[k] = i
  BY <1>0 DEF Matches
<1>2. \A k \in 1 .. Len(q) : c[k] \in 1 .. Len(w) /\ c[k] \in Nat
  BY <1>1
<1>3. PICK f \in 1 .. Len(q) : c[f] = 1
  BY <1>1
<1>4. f = 1
  <2>1. f > 1 => c[1] < c[f]
    BY <1>1
  <2> QED  BY <1>2, <1>3, <2>1
<1>5. Len(q) > 0 /\ q[1].keymap = w[1].keymap
  BY <1>1, <1>3, <1>4
<1>6. ASSUME Len(p) = Len(q) - 1, \A k \in 1 .. (Len(q) - 1) : p[k] = q[k + 1]
      PROVE  Owes(p, v)
  <2> DEFINE d == [k \in 1 .. Len(p) |-> c[k + 1] - 1]
  <2>1. \A k \in 1 .. Len(p) : k + 1 \in 1 .. Len(q) /\ c[k + 1] > 1 /\ c[k + 1] \in 1 .. Len(w)
    <3> TAKE k \in 1 .. Len(p)
    <3>1. k + 1 \in 1 .. Len(q) /\ 1 \in 1 .. Len(q) /\ 1 < k + 1
      BY <1>5, <1>6
    <3>2. c[1] < c[k + 1]
      BY <1>1, <3>1
    <3> QED  BY <1>2, <1>3, <1>4, <3>1, <3>2
  <2>2. d \in [1 .. Len(p) -> 1 .. Len(v)]
    <3> SUFFICES ASSUME NEW k \in 1 .. Len(p)
                 PROVE  c[k + 1] - 1 \in 1 .. Len(v)
      OBVIOUS
    <3> QED  BY <2>1
  <2>3. \A k \in 1 .. Len(p) : d[k] = c[k + 1] - 1 /\ d[k] \in 1 .. Len(v)
    BY <2>2
  <2> HIDE DEF d
  <2>4. \A k \in 1 .. Len(p) : v[d[k]].verb = "configure" /\ v[d[k]].keymap = p[k].keymap
    <3> TAKE k \in 1 .. Len(p)
    <3>1. v[d[k]] = w[c[k + 1]]
      BY <2>1, <2>3
    <3>2. p[k] = q[k + 1] /\ k + 1 \in 1 .. Len(q)
      BY <1>6, <2>1
    <3>3. w[c[k + 1]].verb = "configure" /\ w[c[k + 1]].keymap = q[k + 1].keymap
      BY ONLY <1>1, <3>2
    <3> QED  BY ONLY <3>1, <3>2, <3>3
  <2>5. \A k, l \in 1 .. Len(p) : k < l => d[k] < d[l]
    <3> SUFFICES ASSUME NEW k \in 1 .. Len(p), NEW l \in 1 .. Len(p), k < l
                 PROVE  d[k] < d[l]
      OBVIOUS
    <3>1. c[k + 1] < c[l + 1]
      BY <1>1, <2>1
    <3> QED  BY <2>1, <2>3, <3>1
  <2>6. ASSUME NEW i \in 1 .. Len(v), v[i].verb = "configure"
        PROVE  \E k \in 1 .. Len(p) : d[k] = i
    <3>1. i + 1 \in 1 .. Len(w) /\ w[i + 1].verb = "configure"
      BY <2>6
    <3>2. PICK l \in 1 .. Len(q) : c[l] = i + 1
      BY <1>1, <3>1
    <3>3. l # 1
      BY <1>3, <1>4, <3>2
    <3>4. l - 1 \in 1 .. Len(p) /\ (l - 1) + 1 = l
      BY <1>6, <3>3
    <3>5. l - 1 \in 1 .. Len(p) /\ c[(l - 1) + 1] = i + 1
      BY <3>2, <3>4
    <3>6. d[l - 1] = c[(l - 1) + 1] - 1
      BY ONLY <2>3, <3>5
    <3>7. l - 1 \in 1 .. Len(p)
      BY ONLY <3>5
    <3> WITNESS l - 1 \in 1 .. Len(p)
    <3> QED  BY <3>5, <3>6
  <2>7. Matches(d, p, v)
    BY <2>2, <2>4, <2>5, <2>6 DEF Matches
  <2> QED  BY <2>7 DEF Owes
<1> QED  BY <1>5, <1>6

-----------------------------------------------------------------------------
(* The wire: the replies not read yet, and behind them the lines not run.   *)

Wire == down \o up

Quiet(x) == IsSeq(x) /\ \A i \in 1 .. Len(x) : x[i].verb # "configure"

LEMMA WireIs ==
  ASSUME NEW d, NEW u, IsSeq(d), IsSeq(u)
  PROVE  /\ IsSeq(d \o u) /\ Len(d) \in Nat /\ Len(u) \in Nat
         /\ Len(d \o u) = Len(d) + Len(u)
         /\ \A i \in 1 .. (Len(d) + Len(u)) :
                (d \o u)[i] = IF i <= Len(d) THEN d[i] ELSE u[i - Len(d)]
<1>1. /\ Len(d) \in Nat /\ Len(u) \in Nat
      /\ \A i \in 1 .. Len(d) : (d \o u)[i] = d[i]
      /\ \A i \in 1 .. Len(u) : (d \o u)[Len(d) + i] = u[i]
  BY Joined
<1>2. ASSUME NEW i \in 1 .. (Len(d) + Len(u))
      PROVE  (d \o u)[i] = IF i <= Len(d) THEN d[i] ELSE u[i - Len(d)]
  <2>1. CASE i <= Len(d)
    BY <1>1, <2>1
  <2>2. CASE ~(i <= Len(d))
    <3>1. i - Len(d) \in 1 .. Len(u) /\ Len(d) + (i - Len(d)) = i
      BY <1>1, <2>2
    <3>2. (d \o u)[Len(d) + (i - Len(d))] = u[i - Len(d)]
      BY <1>1, <3>1
    <3> QED  BY <2>2, <3>1, <3>2
  <2> QED  BY <2>1, <2>2
<1> QED  BY <1>1, <1>2, Joined

(* Lines that are no configures are sent.                                   *)
LEMMA OwesMore ==
  ASSUME NEW q, NEW d, NEW u, NEW x, IsSeq(q), IsSeq(d), IsSeq(u), Quiet(x),
         Owes(q, d \o u)
  PROVE  IsSeq(u \o x) /\ Owes(q, d \o (u \o x))
<1> DEFINE v == u \o x
<1>1. /\ IsSeq(v) /\ Len(u) \in Nat /\ Len(x) \in Nat /\ Len(v) = Len(u) + Len(x)
      /\ \A i \in 1 .. (Len(u) + Len(x)) : v[i] = IF i <= Len(u) THEN u[i] ELSE x[i - Len(u)]
  BY WireIs DEF Quiet
<1> HIDE DEF v
<1> DEFINE w == d \o u
           y == d \o v
<1>2. /\ IsSeq(w) /\ Len(d) \in Nat /\ Len(w) = Len(d) + Len(u)
      /\ \A i \in 1 .. (Len(d) + Len(u)) : w[i] = IF i <= Len(d) THEN d[i] ELSE u[i - Len(d)]
  BY WireIs
<1>3. /\ IsSeq(y) /\ Len(y) = Len(d) + Len(v)
      /\ \A i \in 1 .. (Len(d) + Len(v)) : y[i] = IF i <= Len(d) THEN d[i] ELSE v[i - Len(d)]
  BY <1>1, WireIs
<1>4. Owes(q, w) /\ Len(q) \in Nat
  BY Empty
<1> HIDE DEF w, y
<1>5. \A i \in 1 .. Len(w) : y[i] = w[i]
  <2> TAKE i \in 1 .. Len(w)
  <2>1. CASE i <= Len(d)
    BY <1>1, <1>2, <1>3, <2>1
  <2>2. CASE ~(i <= Len(d))
    <3>1. i - Len(d) \in 1 .. Len(u) /\ i - Len(d) <= Len(u)
      BY <1>1, <1>2, <2>2
    <3>2. v[i - Len(d)] = u[i - Len(d)]
      BY <1>1, <3>1
    <3>3. w[i] = u[i - Len(d)]
      BY <1>2, <2>2
    <3>4. i \in 1 .. (Len(d) + Len(v))
      BY <1>1, <1>2
    <3>5. y[i] = v[i - Len(d)]
      BY <1>3, <2>2, <3>4
    <3> QED  BY ONLY <3>2, <3>3, <3>5
  <2> QED  BY <2>1, <2>2
<1>6. \A i \in 1 .. Len(y) : i > Len(w) => y[i].verb # "configure"
  <2> SUFFICES ASSUME NEW i \in 1 .. Len(y), i > Len(w)
               PROVE  y[i].verb # "configure"
    OBVIOUS
  <2>1. (i - Len(d)) - Len(u) \in 1 .. Len(x) /\ i - Len(d) \in 1 .. (Len(u) + Len(x))
    BY <1>1, <1>2, <1>3
  <2>2. y[i] = x[(i - Len(d)) - Len(u)]
    BY <1>1, <1>2, <1>3, <2>1
  <2> QED  BY <2>1, <2>2 DEF Quiet
<1>7. Owes(q, y)
  <2>1. Len(w) \in Nat /\ Len(y) \in Nat /\ Len(w) <= Len(y)
    BY <1>1, <1>2, <1>3
  <2> QED  BY <1>4, <1>5, <1>6, <2>1, OwesExtended
<1> QED  BY <1>1, <1>7 DEF v, y

(* A configure is sent.                                                     *)
LEMMA OwesConfigure ==
  ASSUME NEW q, NEW d, NEW u, NEW e, NEW l, IsSeq(q), IsSeq(d), IsSeq(u),
         Owes(q, d \o u), l.verb = "configure", l.keymap = e.keymap
  PROVE  IsSeq(u \o <<l>>) /\ Owes(Append(q, e), d \o (u \o <<l>>))
<1> DEFINE v == u \o <<l>>
           p == Append(q, e)
<1>1. /\ IsSeq(v) /\ Len(u) \in Nat /\ Len(v) = Len(u) + 1 /\ v[Len(u) + 1] = l
      /\ \A i \in 1 .. Len(u) : v[i] = u[i]
  <2>1. IsSeq(<<l>>) /\ Len(<<l>>) = 1 /\ <<l>>[1] = l
    BY Short
  <2>2. 1 \in 1 .. Len(<<l>>)
    BY <2>1
  <2> QED  BY <2>1, <2>2, Joined
<1> HIDE DEF v
<1> DEFINE w == d \o u
           y == d \o v
<1>2. /\ Len(d) \in Nat /\ Len(w) = Len(d) + Len(u)
      /\ \A i \in 1 .. (Len(d) + Len(u)) : w[i] = IF i <= Len(d) THEN d[i] ELSE u[i - Len(d)]
  BY WireIs
<1>3. /\ Len(y) = Len(d) + Len(v)
      /\ \A i \in 1 .. (Len(d) + Len(v)) : y[i] = IF i <= Len(d) THEN d[i] ELSE v[i - Len(d)]
  BY <1>1, WireIs
<1>4. /\ Owes(q, w) /\ Len(q) \in Nat /\ Len(p) = Len(q) + 1 /\ p[Len(q) + 1] = e
      /\ \A k \in 1 .. Len(q) : p[k] = q[k]
  BY Empty, Appended
<1> HIDE DEF w, y, p
<1>5. \A i \in 1 .. Len(w) : y[i] = w[i]
  <2> TAKE i \in 1 .. Len(w)
  <2>1. CASE i <= Len(d)
    BY <1>1, <1>2, <1>3, <2>1
  <2>2. CASE ~(i <= Len(d))
    <3>1. i - Len(d) \in 1 .. Len(u)
      BY <1>1, <1>2, <2>2
    <3> QED  BY <1>1, <1>2, <1>3, <2>2, <3>1
  <2> QED  BY <2>1, <2>2
<1>6. Len(y) = Len(w) + 1 /\ y[Len(y)] = l /\ p[Len(p)] = e /\ Len(w) \in Nat
  <2>1. Len(y) \in 1 .. (Len(d) + Len(v)) /\ ~(Len(y) <= Len(d)) /\ Len(y) - Len(d) = Len(u) + 1
    BY <1>1, <1>2, <1>3
  <2> QED  BY <1>1, <1>2, <1>3, <1>4, <2>1
<1>7. Owes(p, y)
  BY <1>4, <1>5, <1>6, OwesSent
<1> QED  BY <1>1, <1>7 DEF v, y, p

(* A reply is read.                                                         *)
LEMMA OwesRead ==
  ASSUME NEW q, NEW d, NEW u, IsSeq(q), IsSeq(d), IsSeq(u), d # <<>>, Owes(q, d \o u)
  PROVE  /\ d[1].verb # "configure" => Owes(q, Tail(d) \o u)
         /\ d[1].verb = "configure" =>
              /\ Len(q) > 0 /\ q[1].keymap = d[1].keymap
              /\ \A p : Len(p) = Len(q) - 1
                        /\ (\A k \in 1 .. (Len(q) - 1) : p[k] = q[k + 1]) =>
                            Owes(p, Tail(d) \o u)
<1> DEFINE t == Tail(d)
           w == d \o u
           v == t \o u
<1>1. /\ IsSeq(t) /\ Len(d) \in Nat \ {0} /\ Len(t) = Len(d) - 1
      /\ \A i \in 1 .. (Len(d) - 1) : t[i] = d[i + 1]
  BY Tailed
<1> HIDE DEF t
<1>2. /\ Len(u) \in Nat /\ Len(w) = Len(d) + Len(u)
      /\ \A i \in 1 .. (Len(d) + Len(u)) : w[i] = IF i <= Len(d) THEN d[i] ELSE u[i - Len(d)]
  BY WireIs
<1>3. /\ Len(v) = Len(t) + Len(u)
      /\ \A i \in 1 .. (Len(t) + Len(u)) : v[i] = IF i <= Len(t) THEN t[i] ELSE u[i - Len(t)]
  BY <1>1, WireIs
<1>4. Owes(q, w) /\ Len(q) \in Nat
  BY Empty
<1> HIDE DEF w, v
<1>5. \A i \in 1 .. Len(v) : v[i] = w[i + 1]
  <2> TAKE i \in 1 .. Len(v)
  <2>0. i + 1 \in 1 .. (Len(d) + Len(u)) /\ i \in 1 .. (Len(t) + Len(u))
    BY <1>1, <1>2, <1>3
  <2>1. CASE i <= Len(t)
    BY <1>1, <1>2, <1>3, <2>0, <2>1
  <2>2. CASE ~(i <= Len(t))
    <3>1. ~(i + 1 <= Len(d)) /\ (i + 1) - Len(d) = i - Len(t)
      BY <1>1, <2>0, <2>2
    <3> QED  BY <1>2, <1>3, <2>0, <2>2, <3>1
  <2> QED  BY <2>1, <2>2
<1>6. w[1] = d[1] /\ Len(v) \in Nat /\ Len(w) = Len(v) + 1
  BY <1>1, <1>2, <1>3
<1>7. CASE d[1].verb # "configure"
  <2>1. 1 \in 1 .. Len(w) /\ \A i \in 1 .. Len(v) : v[i] = w[IF i < 1 THEN i ELSE i + 1]
    BY <1>5, <1>6
  <2>2. Owes(q, v)
    BY <1>4, <1>6, <1>7, <2>1, OwesRemoved
  <2> QED  BY <1>7, <2>2 DEF v, t
<1>8. CASE d[1].verb = "configure"
  <2>0. w[1].verb = "configure"
    BY <1>6, <1>8
  <2>1. Len(q) > 0 /\ q[1].keymap = w[1].keymap
    BY <1>4, <1>5, <1>6, <2>0, OwesSettled
  <2>2. ASSUME NEW p, Len(p) = Len(q) - 1, \A k \in 1 .. (Len(q) - 1) : p[k] = q[k + 1]
        PROVE  Owes(p, v)
    BY <1>4, <1>5, <1>6, <2>0, <2>2, OwesSettled
  <2> QED  BY <1>6, <1>8, <2>1, <2>2 DEF v, t
<1> QED  BY <1>7, <1>8

(* A line is run and answered: the reply stands in its place.               *)
LEMMA OwesRun ==
  ASSUME NEW q, NEW d, NEW u, NEW r, IsSeq(q), IsSeq(d), IsSeq(u), u # <<>>,
         Owes(q, d \o u), r.verb = u[1].verb,
         r.verb = "configure" => r.keymap = u[1].keymap
  PROVE  Owes(q, Append(d, r) \o Tail(u))
<1> DEFINE a == Append(d, r)
           t == Tail(u)
           w == d \o u
           v == a \o t
<1>1. /\ IsSeq(t) /\ Len(u) \in Nat \ {0} /\ Len(t) = Len(u) - 1
      /\ \A i \in 1 .. (Len(u) - 1) : t[i] = u[i + 1]
  BY Tailed
<1>2. /\ IsSeq(a) /\ Len(d) \in Nat /\ Len(a) = Len(d) + 1 /\ a[Len(d) + 1] = r
      /\ \A i \in 1 .. Len(d) : a[i] = d[i]
  BY Appended
<1> HIDE DEF t, a
<1>3. /\ Len(w) = Len(d) + Len(u)
      /\ \A i \in 1 .. (Len(d) + Len(u)) : w[i] = IF i <= Len(d) THEN d[i] ELSE u[i - Len(d)]
  BY WireIs
<1>4. /\ Len(v) = Len(a) + Len(t)
      /\ \A i \in 1 .. (Len(a) + Len(t)) : v[i] = IF i <= Len(a) THEN a[i] ELSE t[i - Len(a)]
  BY <1>1, <1>2, WireIs
<1>5. Owes(q, w) /\ Len(q) \in Nat
  BY Empty
<1> HIDE DEF w, v
<1>6. \A i \in 1 .. Len(w) : v[i] = w[i] \/ (i = Len(d) + 1 /\ v[i] = r /\ w[i] = u[1])
  <2> TAKE i \in 1 .. Len(w)
  <2>0. i \in 1 .. (Len(d) + Len(u)) /\ i \in 1 .. (Len(a) + Len(t))
    BY <1>1, <1>2, <1>3
  <2>1. CASE i <= Len(d)
    BY <1>2, <1>3, <1>4, <2>0, <2>1
  <2>2. CASE i = Len(d) + 1
    BY <1>1, <1>2, <1>3, <1>4, <2>0, <2>2
  <2>3. CASE i > Len(d) + 1
    <3>1. /\ ~(i <= Len(a)) /\ ~(i <= Len(d)) /\ i - Len(a) \in 1 .. (Len(u) - 1)
          /\ (i - Len(a)) + 1 = i - Len(d)
      BY <1>1, <1>2, <2>0, <2>3
    <3> QED  BY <1>1, <1>3, <1>4, <2>0, <3>1
  <2> QED  BY <1>2, <2>1, <2>2, <2>3
<1>7. Len(v) = Len(w)
  BY <1>1, <1>2, <1>3, <1>4
<1>8. \A i \in 1 .. Len(w) :
            /\ v[i].verb = "configure" <=> w[i].verb = "configure"
            /\ w[i].verb = "configure" => v[i].keymap = w[i].keymap
  BY <1>6
<1>9. Owes(q, v)
  BY <1>5, <1>7, <1>8, OwesAlike
<1> QED  BY <1>9 DEF v, a, t

-----------------------------------------------------------------------------
(* What the operators leave of a session.                                   *)

(* The same but for the queue.                                              *)
SameTurn(s, t) ==
    /\ t.acked = s.acked /\ t.ackedGen = s.ackedGen /\ t.group = s.group
    /\ t.helloOk = s.helloOk /\ t.caps = s.caps

LEMMA QueueIsSeq ==
  ASSUME NEW s, Sound(s)
  PROVE  IsSeq(s.queue) /\ Len(s.queue) \in Nat
<1>1. PICK q, a, n, g, h, c, K, G :
        s = Rec(q, a, n, g, h, c) /\ q \in Seq(Entries(K, G))
  BY DEF Sound, Shape
<1>2. s.queue = q /\ Len(q) \in Nat
  BY <1>1, Fields
<1> QED  BY <1>1, <1>2 DEF IsSeq

LEMMA SentFields ==
  ASSUME NEW s, Sound(s), NEW k, NEW x
  PROVE  /\ SameTurn(s, configureSent(s, k, x))
         /\ \E e : e.keymap = k /\ configureSent(s, k, x).queue = Append(s.queue, e)
<1>1. PICK q, a, n, g, h, c, K, G :
        s = Rec(q, a, n, g, h, c) /\ q \in Seq(Entries(K, G))
  BY DEF Sound, Shape
<1> DEFINE e == [keymap |-> k, changed |-> k # installed(s), group |-> x]
           p == Append(q, e)
<1>2. configureSent(s, k, x) = [s EXCEPT !.queue = p]
  BY <1>1, Fields DEF configureSent
<1>3. e.keymap = k
  OBVIOUS
<1>4. p = Append(s.queue, e)
  BY <1>1, Fields
<1> HIDE DEF p, e
<1>5. [s EXCEPT !.queue = p] = Rec(p, a, n, g, h, c)
  BY <1>1 DEF Rec
<1> QED  BY <1>1, <1>2, <1>3, <1>4, <1>5, Fields DEF SameTurn

LEMMA AckFields ==
  ASSUME NEW s, Sound(s), NEW gen, Len(s.queue) > 0
  PROVE  LET t == configureAck(s, gen)
         IN  /\ t.queue = Tail(s.queue) /\ t.acked = s.queue[1].keymap /\ t.ackedGen = gen
             /\ t.helloOk = s.helloOk /\ t.caps = s.caps
<1>1. PICK q, a, n, g, h, c, K, G :
        s = Rec(q, a, n, g, h, c) /\ q \in Seq(Entries(K, G))
  BY DEF Sound, Shape
<1>2. q # <<>> /\ s.queue = q /\ Head(q) = q[1]
  BY <1>1, Fields
<1> DEFINE t == configureAck(s, gen)
<1>3. t = Rec(Tail(q), Head(q).keymap, gen, Head(q).group, h, c)
  BY <1>1, <1>2 DEF Rec, configureAck, settled
<1> HIDE DEF t
<1>4. /\ t.queue = Tail(q) /\ t.acked = Head(q).keymap /\ t.ackedGen = gen
      /\ t.helloOk = h /\ t.caps = c
  BY <1>3 DEF Rec
<1>5. s.helloOk = h /\ s.caps = c
  BY <1>1, Fields
<1> QED  BY <1>2, <1>4, <1>5 DEF t

LEMMA FailedFields ==
  ASSUME NEW s, Sound(s), Len(s.queue) > 0
  PROVE  LET t == configureFailed(s)
         IN  /\ SameTurn(s, t) /\ Len(t.queue) = Len(s.queue) - 1
             /\ \A i \in 1 .. (Len(s.queue) - 1) : t.queue[i].keymap = s.queue[i + 1].keymap
<1>1. PICK q, a, n, g, h, c, K, G :
        s = Rec(q, a, n, g, h, c) /\ q \in Seq(Entries(K, G))
  BY DEF Sound, Shape
<1>2. q # <<>> /\ s.queue = q
  BY <1>1, Fields
<1> DEFINE p == Tail(q)
           r == Rebased(p, a)
<1>3. configureFailed(s) = Rec(r, a, n, g, h, c)
  BY <1>1, <1>2 DEF Rec, configureFailed, settled
<1>4. /\ p \in Seq(Entries(K, G)) /\ Len(q) \in Nat \ {0} /\ Len(p) = Len(q) - 1
      /\ Len(p) \in Nat /\ DOMAIN p = 1 .. Len(p)
      /\ \A i \in 1 .. Len(p) : p[i] = q[i + 1]
  BY <1>1, <1>2
<1> HIDE DEF p
<1>5. r = [i \in 1 .. Len(p) |->
             [p[i] EXCEPT !.changed = p[i].keymap # (IF i = 1 THEN a ELSE p[i - 1].keymap)]]
  BY <1>4 DEF Rebased
<1> HIDE DEF r
<1>6. Len(r) = Len(p)
  BY <1>4, <1>5
<1>7. ASSUME NEW i \in 1 .. Len(p)
      PROVE  r[i].keymap = p[i].keymap
  <2> DEFINE f == p[i].keymap # (IF i = 1 THEN a ELSE p[i - 1].keymap)
  <2>1. r[i] = [p[i] EXCEPT !.changed = f]
    BY <1>5
  <2>2. p[i] \in Entries(K, G)
    BY <1>4
  <2> HIDE DEF f
  <2> QED  BY <2>1, <2>2 DEF Entries
<1>8. r = configureFailed(s).queue /\ SameTurn(s, configureFailed(s))
  BY <1>1, <1>3, Fields DEF SameTurn
<1> QED  BY <1>2, <1>4, <1>6, <1>7, <1>8

(* The same but for the facts, which are those it had or of keymap k.       *)
Learned(s, t, k) ==
    /\ t.queue = s.queue /\ t.acked = s.acked /\ t.ackedGen = s.ackedGen
    /\ t.helloOk = s.helloOk /\ t.caps.gen = s.ackedGen
    /\ \A y \in DOMAIN t.caps.byGroup :
           \/ t.caps.byGroup[y] = k
           \/ /\ s.caps.gen = s.ackedGen /\ y \in DOMAIN s.caps.byGroup
              /\ t.caps.byGroup[y] = s.caps.byGroup[y]

LEMMA FactsFields ==
  ASSUME NEW s, Sound(s), NEW gen, NEW x, NEW k, gen = s.ackedGen
  PROVE  Learned(s, capsFacts(s, gen, x, k), k)
<1>1. PICK q, a, n, g, h, c, K, G :
        s = Rec(q, a, n, g, h, c) /\ q \in Seq(Entries(K, G))
  BY DEF Sound, Shape
<1> DEFINE have == IF c.gen = gen THEN c.byGroup ELSE <<>>
           facts == [y \in DOMAIN have \cup {x} |-> IF y = x THEN k ELSE have[y]]
           d == [gen |-> gen, byGroup |-> facts]
<1>2. d.gen = gen /\ d.byGroup = facts
  OBVIOUS
<1>3. capsFacts(s, gen, x, k) = [s EXCEPT !.caps = d]
  BY <1>1, Fields DEF capsFacts
<1>4. \A y \in DOMAIN facts :
        facts[y] = k \/ (c.gen = gen /\ y \in DOMAIN c.byGroup /\ facts[y] = c.byGroup[y])
  OBVIOUS
<1> HIDE DEF d, facts
<1>5. [s EXCEPT !.caps = d] = Rec(q, a, n, g, h, d)
  BY <1>1 DEF Rec
<1>6. capsFacts(s, gen, x, k).caps = d /\ s.caps = c
  BY <1>1, <1>3, <1>5, Fields
<1> QED  BY <1>1, <1>2, <1>3, <1>4, <1>5, <1>6, Fields DEF Learned

LEMMA HelloRec ==
  ASSUME NEW q, NEW a, NEW n, NEW g, NEW h, NEW c, NEW b
  PROVE  [Rec(q, a, n, g, h, c) EXCEPT !.helloOk = b] = Rec(q, a, n, g, b, c)
  BY DEF Rec

LEMMA HelloFields ==
  ASSUME NEW s, Sound(s), NEW fresh
  PROVE  LET t == helloAcked(s, fresh)
         IN  /\ t.helloOk = TRUE
             /\ IF fresh
                THEN t.queue = <<>> /\ t.acked = NoKeymap /\ t.ackedGen = 0 /\ t.caps = NoFacts
                ELSE /\ t.queue = s.queue /\ t.acked = s.acked /\ t.ackedGen = s.ackedGen
                     /\ t.caps = s.caps
<1>1. PICK q, a, n, g, h, c, K, G :
        s = Rec(q, a, n, g, h, c) /\ q \in Seq(Entries(K, G))
  BY DEF Sound, Shape
<1> DEFINE t == helloAcked(s, fresh)
<1>2. PICK b, h0 : b = TRUE /\ initial = Rec(<<>>, NoKeymap, 0, 0, h0, NoFacts)
  <2>1. initial = Rec(<<>>, NoKeymap, 0, 0, FALSE, NoFacts)
    BY DEF initial, Rec
  <2> QED  BY <2>1
<1>3. t = IF fresh THEN [initial EXCEPT !.helloOk = b] ELSE [s EXCEPT !.helloOk = b]
  BY <1>2 DEF helloAcked
<1> HIDE DEF t
<1>4. CASE fresh
  <2>0. PICK q0, a0, n0, c0 : q0 = <<>> /\ a0 = NoKeymap /\ n0 = 0 /\ c0 = NoFacts
    OBVIOUS
  <2>1. t = Rec(q0, a0, n0, n0, b, c0)
    <3>1. initial = Rec(q0, a0, n0, n0, h0, c0)
      BY <1>2, <2>0
    <3> QED  BY <1>3, <1>4, <3>1, HelloRec
  <2>2. /\ t.queue = <<>> /\ t.acked = NoKeymap /\ t.ackedGen = 0 /\ t.helloOk = b
        /\ t.caps = NoFacts
    BY <2>0, <2>1 DEF Rec
  <2> QED  BY <1>2, <1>4, <2>2 DEF t
<1>5. CASE ~fresh
  <2>1. t = Rec(q, a, n, g, b, c)
    BY <1>1, <1>3, <1>5, HelloRec
  <2>2. t.queue = q /\ t.acked = a /\ t.ackedGen = n /\ t.helloOk = b /\ t.caps = c
    BY <2>1 DEF Rec
  <2>3. s.queue = q /\ s.acked = a /\ s.ackedGen = n /\ s.caps = c
    BY <1>1 DEF Rec
  <2> QED  BY <1>2, <1>5, <2>2, <2>3 DEF t
<1> QED  BY <1>4, <1>5

LEMMA LossFields ==
  ASSUME NEW s, Sound(s)
  PROVE  connectionDown(s).helloOk = FALSE /\ connectionDown(s).queue = s.queue
<1>1. PICK q, a, n, g, h, c, K, G :
        s = Rec(q, a, n, g, h, c) /\ q \in Seq(Entries(K, G))
  BY DEF Sound, Shape
<1> DEFINE t == connectionDown(s)
<1>2. PICK b : b = FALSE
  OBVIOUS
<1>3. t = [s EXCEPT !.helloOk = b]
  BY <1>2 DEF connectionDown
<1> HIDE DEF t
<1>4. t = Rec(q, a, n, g, b, c)
  BY <1>1, <1>3, HelloRec
<1>5. t.helloOk = b /\ t.queue = q /\ s.queue = q
  BY <1>1, <1>4 DEF Rec
<1> QED  BY <1>2, <1>5 DEF t

-----------------------------------------------------------------------------
(* The answers and what they are answers to.                                *)

Means(r) ==
    /\ r.word \in {"configured", "cannot configure"} => r.verb = "configure"
    /\ r.verb = "configure" => r.word \in {"configured", "cannot configure", "bad group"}
    /\ r.word = "hello" <=> r.verb = "hello"
    /\ r.word \in {"ours", "theirs"} => r.keymap \in Keymaps

Box(n, k, g, e) == [gen |-> n, keymap |-> k, group |-> g, events |-> e]

(* A new connection carries its hello and nothing else, until it is         *)
(* answered; one that is lost carries nothing.                              *)
Linked ==
    /\ IsSeq(up) /\ IsSeq(down)
    /\ link \in [up : BOOLEAN, fresh : BOOLEAN, probe : BOOLEAN]
    /\ session.helloOk <=> link.up /\ ~link.fresh
    /\ \A i \in 1 .. Len(down) : Means(down[i])
    /\ ~link.up => up = <<>> /\ down = <<>>
    /\ link.fresh => link.up /\ link.probe /\ Len(Wire) = 1 /\ Wire[1].verb = "hello"
    /\ ~session.helloOk => ~helper.events /\ ~retry
    /\ \E k \in Keymaps : \E g : seat = [keymap |-> k, group |-> g]
    /\ \E n, k, g, e : helper = Box(n, k, g, e)

Owed ==
    /\ \A i \in 1 .. Len(session.queue) : session.queue[i].keymap \in Keymaps
    /\ session.helloOk => Owes(session.queue, Wire)

(* A reply under way, to a panel that has acknowledged generation a, from a *)
(* helper at generation g with keymap k: its generation is between them,    *)
(* above a where keys were lifted for it, and below g where they were       *)
(* lifted since.                                                            *)
Fits(r, a, g, k, l) ==
    /\ r.word = "configured" =>
         /\ r.gen \in Nat \ {0} /\ a <= r.gen /\ r.gen <= g
         /\ r.lifted => a < r.gen
         /\ l => r.gen < g
         /\ r.gen = g => r.keymap = k
    /\ r.word = "caps" =>
         /\ r.gen \in Nat /\ r.gen <= g
         /\ r.gen = g => r.keymap = k

(* Generations do not fall from one answer to the next, and rise where keys *)
(* were lifted between them.                                                *)
Mounts(w) ==
    \A i, j \in 1 .. Len(w) :
        i < j /\ w[i].word = "configured" /\ w[j].word = "configured" =>
            w[i].gen <= w[j].gen /\ (w[j].lifted => w[i].gen < w[j].gen)

(* What the panel has acknowledged and drawn, of the helper's generation,   *)
(* is of the helper's keymap.                                               *)
Knows(s, g, k, l) ==
    /\ s.ackedGen \in Nat /\ s.ackedGen <= g
    /\ s.ackedGen = 0 => s.acked = NoKeymap
    /\ s.ackedGen = g => s.acked = k
    /\ l => s.ackedGen < g
    /\ s.caps.gen \in Nat /\ s.caps.gen <= g
    /\ s.caps.gen = g => \A y \in DOMAIN s.caps.byGroup : s.caps.byGroup[y] = k

Dated ==
    /\ helper.gen \in Nat \ {0}
    /\ \A i \in 1 .. Len(down) :
         Fits(down[i], session.ackedGen, helper.gen, helper.keymap, lifted)
    /\ Mounts(down)
    /\ session.helloOk => Knows(session, helper.gen, helper.keymap, lifted)

LInv == IInv /\ Linked /\ Owed /\ Dated

(* An answer read, or an event that comes in, keeps the order of the rest.  *)
LEMMA MountsKept ==
  ASSUME NEW w, Mounts(w), NEW v, NEW at,
         \A i \in 1 .. Len(v) : v[i].word = "configured" =>
                at[i] \in 1 .. Len(w) /\ v[i] = w[at[i]],
         \A i, j \in 1 .. Len(v) :
            i < j /\ v[i].word = "configured" /\ v[j].word = "configured" => at[i] < at[j]
  PROVE  Mounts(v)
<1> SUFFICES ASSUME NEW i \in 1 .. Len(v), NEW j \in 1 .. Len(v), i < j,
                    v[i].word = "configured", v[j].word = "configured"
             PROVE  v[i].gen <= v[j].gen /\ (v[j].lifted => v[i].gen < v[j].gen)
  BY DEF Mounts
<1>1. at[i] \in 1 .. Len(w) /\ at[j] \in 1 .. Len(w) /\ at[i] < at[j]
      /\ v[i] = w[at[i]] /\ v[j] = w[at[j]]
  OBVIOUS
<1> QED  BY <1>1 DEF Mounts

-----------------------------------------------------------------------------
(* The world.                                                               *)

EventAt(p, d, v) ==
    /\ p \in 1 .. (Len(d) + 1) /\ Len(v) = Len(d) + 1 /\ v[p] = Event
    /\ \A i \in 1 .. Len(d) : v[IF i < p THEN i ELSE i + 1] = d[i]

LEMMA EventIs == Event.verb = "event" /\ Event.word = "event"
  BY DEF Event, Answer, Plain, Line

LEMMA EventLast ==
  ASSUME NEW d, IsSeq(d)
  PROVE  IsSeq(Append(d, Event)) /\ EventAt(Len(d) + 1, d, Append(d, Event))
<1>1. /\ IsSeq(Append(d, Event)) /\ Len(d) \in Nat /\ Len(Append(d, Event)) = Len(d) + 1
      /\ \A i \in 1 .. Len(d) : Append(d, Event)[i] = d[i]
      /\ Append(d, Event)[Len(d) + 1] = Event
  BY Appended
<1> QED  BY <1>1 DEF EventAt

LEMMA EventAhead ==
  ASSUME NEW d, IsSeq(d), d # <<>>
  PROVE  LET v == Append(Front(d), Event) \o <<Last(d)>>
         IN  IsSeq(v) /\ EventAt(Len(d), d, v)
<1> DEFINE f == Front(d)
           g == Append(f, Event)
           l == <<Last(d)>>
           v == g \o l
<1>1. Len(d) \in Nat \ {0}
  BY Empty
<1>2. IsSeq(f) /\ Len(f) = Len(d) - 1 /\ \A i \in 1 .. (Len(d) - 1) : f[i] = d[i]
  <2>1. PICK S : d \in Seq(S)
    BY DEF IsSeq
  <2>2. PICK m : m = Len(d) - 1
    OBVIOUS
  <2>3. 1 \in Int /\ m \in Int /\ m \in Nat /\ \A i \in 1 .. m : d[i] \in S
    BY <2>1, <2>2, <1>1
  <2>4. f = SubSeq(d, 1, m)
    BY <2>2 DEF Front
  <2>5. /\ f \in Seq(S) /\ Len(f) = IF 1 <= m THEN m - 1 + 1 ELSE 0
        /\ \A i \in 1 .. m - 1 + 1 : f[i] = d[1 + i - 1]
    BY <2>3, <2>4, SubSeqProperties
  <2> HIDE DEF f
  <2>6. Len(f) = m /\ \A i \in 1 .. m : f[i] = d[i]
    BY <2>3, <2>5
  <2> QED  BY <2>2, <2>5, <2>6 DEF IsSeq
<1> HIDE DEF f
<1>3. /\ IsSeq(g) /\ Len(g) = Len(f) + 1 /\ g[Len(f) + 1] = Event
      /\ \A i \in 1 .. Len(f) : g[i] = f[i]
  BY <1>2, Appended
<1>4. IsSeq(l) /\ Len(l) = 1 /\ l[1] = d[Len(d)]
  BY Short DEF Last
<1> HIDE DEF g, l
<1>5. /\ IsSeq(v) /\ Len(v) = Len(g) + Len(l)
      /\ \A i \in 1 .. Len(g) : v[i] = g[i]
      /\ \A i \in 1 .. Len(l) : v[Len(g) + i] = l[i]
  <2>1. IsSeq(g) /\ IsSeq(l)
    BY <1>3, <1>4
  <2> QED  BY ONLY <2>1, Joined
<1> HIDE DEF v
<1>6. /\ Len(g) = Len(d) /\ g[Len(d)] = Event
      /\ \A i \in 1 .. (Len(d) - 1) : g[i] = d[i]
  <2>1. Len(f) + 1 = Len(d)
    BY <1>1, <1>2
  <2> QED  BY <1>1, <1>2, <1>3, <2>1
<1>7. /\ Len(v) = Len(d) + 1 /\ v[Len(d) + 1] = d[Len(d)]
      /\ \A i \in 1 .. Len(d) : v[i] = g[i]
  <2>1. 1 \in 1 .. Len(l)
    BY <1>4
  <2> QED  BY <1>1, <1>4, <1>5, <1>6, <2>1
<1>8. Len(d) \in 1 .. (Len(d) + 1) /\ v[Len(d)] = Event
  BY <1>1, <1>6, <1>7
<1>9. ASSUME NEW i \in 1 .. Len(d)
      PROVE  v[IF i < Len(d) THEN i ELSE i + 1] = d[i]
  BY <1>1, <1>6, <1>7
<1> QED  BY <1>5, <1>7, <1>8, <1>9 DEF EventAt, v, g, l, f

LEMMA AnnouncedComes ==
  ASSUME NEW v, v \in Announced, v # down, IsSeq(down)
  PROVE  link.up /\ helper.events /\ IsSeq(v) /\ \E p : EventAt(p, down, v)
<1>1. link.up /\ helper.events
  BY DEF Announced
<1>2. \/ v = Append(down, Event)
      \/ down # <<>> /\ v = Append(Front(down), Event) \o <<Last(down)>>
  BY DEF Announced
<1> QED  BY <1>1, <1>2, EventLast, EventAhead

(* An event among the answers: the queue is owed as it was, and the answers *)
(* keep their order.                                                        *)
LEMMA EventFits ==
  ASSUME NEW p, NEW d, NEW v, EventAt(p, d, v), IsSeq(d), IsSeq(v)
  PROVE  /\ \A q, u : IsSeq(q) /\ IsSeq(u) /\ Owes(q, d \o u) => Owes(q, v \o u)
         /\ Mounts(d) => Mounts(v)
         /\ \A i \in 1 .. Len(v) : v[i] = Event \/ \E j \in 1 .. Len(d) : v[i] = d[j]
<1>1. /\ p \in 1 .. (Len(d) + 1) /\ Len(v) = Len(d) + 1 /\ v[p] = Event
      /\ \A i \in 1 .. Len(d) : v[IF i < p THEN i ELSE i + 1] = d[i]
      /\ Len(d) \in Nat
  BY Empty DEF EventAt
<1> DEFINE at == [i \in 1 .. Len(v) |-> IF i < p THEN i ELSE i - 1]
<1>2. \A i \in 1 .. Len(v) : i # p => at[i] \in 1 .. Len(d) /\ v[i] = d[at[i]]
  <2> SUFFICES ASSUME NEW i \in 1 .. Len(v), i # p
               PROVE  at[i] \in 1 .. Len(d) /\ v[i] = d[at[i]]
    OBVIOUS
  <2>1. CASE i < p
    BY <1>1, <2>1
  <2>2. CASE i > p
    <3>1. i - 1 \in 1 .. Len(d) /\ ~(i - 1 < p) /\ (i - 1) + 1 = i /\ at[i] = i - 1
      BY <1>1, <2>2
    <3> HIDE DEF at
    <3> QED  BY <1>1, <3>1
  <2> QED  BY <1>1, <2>1, <2>2
<1>3. ASSUME Mounts(d)  PROVE Mounts(v)
  <2>1. \A i \in 1 .. Len(v) : v[i].word = "configured" =>
            at[i] \in 1 .. Len(d) /\ v[i] = d[at[i]]
    BY <1>1, <1>2, EventIs
  <2>2. \A i, j \in 1 .. Len(v) :
            i < j /\ v[i].word = "configured" /\ v[j].word = "configured" => at[i] < at[j]
    <3> SUFFICES ASSUME NEW i \in 1 .. Len(v), NEW j \in 1 .. Len(v), i < j, i # p, j # p
                 PROVE  at[i] < at[j]
      BY <1>1, EventIs
    <3> QED  BY <1>1
  <2> HIDE DEF at
  <2> QED  BY <1>3, <2>1, <2>2, MountsKept
<1>4. ASSUME NEW q, NEW u, IsSeq(q), IsSeq(u), Owes(q, d \o u)
      PROVE  Owes(q, v \o u)
  <2> DEFINE w == d \o u
             y == v \o u
  <2>1. /\ Len(w) = Len(d) + Len(u)
        /\ \A i \in 1 .. (Len(d) + Len(u)) : w[i] = IF i <= Len(d) THEN d[i] ELSE u[i - Len(d)]
    BY WireIs
  <2>2. /\ Len(y) = Len(v) + Len(u)
        /\ \A i \in 1 .. (Len(v) + Len(u)) : y[i] = IF i <= Len(v) THEN v[i] ELSE u[i - Len(v)]
    BY WireIs
  <2>3. Owes(q, w) /\ Len(q) \in Nat /\ Len(u) \in Nat
    BY <1>4, Empty
  <2> HIDE DEF w, y
  <2>4. p \in 1 .. (Len(w) + 1) /\ Len(y) = Len(w) + 1 /\ y[p].verb # "configure" /\ Len(w) \in Nat
    BY <1>1, <2>1, <2>2, EventIs
  <2>5. ASSUME NEW i \in 1 .. Len(w)
        PROVE  y[IF i < p THEN i ELSE i + 1] = w[i]
    <3>0. i \in 1 .. (Len(d) + Len(u)) /\ i + 1 \in 1 .. (Len(v) + Len(u))
          /\ i \in 1 .. (Len(v) + Len(u))
      BY <1>1, <2>1
    <3>1. CASE i <= Len(d)
      <4>1. i \in 1 .. Len(d) /\ i + 1 <= Len(v) /\ i <= Len(v)
        BY <1>1, <3>0, <3>1
      <4> QED  BY <1>1, <2>1, <2>2, <3>0, <3>1, <4>1
    <3>2. CASE ~(i <= Len(d))
      <4>1. ~(i < p) /\ ~(i + 1 <= Len(v)) /\ (i + 1) - Len(v) = i - Len(d)
        BY <1>1, <3>0, <3>2
      <4> QED  BY <2>1, <2>2, <3>0, <3>2, <4>1
    <3> QED  BY <3>1, <3>2
  <2>6. Owes(q, y)
    BY <1>1, <2>3, <2>4, <2>5, OwesInserted
  <2> QED  BY <2>6 DEF y
<1>5. ASSUME NEW i \in 1 .. Len(v)
      PROVE  v[i] = Event \/ \E j \in 1 .. Len(d) : v[i] = d[j]
  BY <1>1, <1>2
<1> QED  BY <1>3, <1>4, <1>5

LEMMA EventKeepsLInv ==
  ASSUME LInv, down' \in Announced, UNCHANGED <<panel, link, up, helper, lifted>>,
         \E k \in Keymaps : \E g : seat' = [keymap |-> k, group |-> g]
  PROVE  LInv'
<1>0. /\ IInv /\ Linked /\ Owed /\ Dated /\ IsSeq(down) /\ IsSeq(up)
      /\ session' = session /\ inputReady' = inputReady /\ retry' = retry
      /\ link' = link /\ up' = up /\ helper' = helper /\ lifted' = lifted
  BY DEF LInv, Linked, panel
<1>1. IInv'
  BY <1>0, Untouched
<1>2. CASE down' = down
  BY <1>0, <1>1, <1>2 DEF LInv, Linked, Owed, Dated, Wire
<1>3. CASE down' # down
  <2>1. link.up /\ helper.events /\ IsSeq(down')
    BY <1>0, <1>3, AnnouncedComes
  <2>2. PICK p : EventAt(p, down, down')
    BY <1>0, <1>3, AnnouncedComes
  <2>3. session.helloOk /\ ~link.fresh
    BY <1>0, <2>1 DEF Linked
  <2>4. IsSeq(session.queue)
    BY <1>0, QueueIsSeq DEF IInv
  <2>5. /\ \A q, u : IsSeq(q) /\ IsSeq(u) /\ Owes(q, down \o u) => Owes(q, down' \o u)
        /\ Mounts(down) => Mounts(down')
        /\ \A i \in 1 .. Len(down') : down'[i] = Event \/ \E j \in 1 .. Len(down) : down'[i] = down[j]
    BY <1>0, <2>1, <2>2, EventFits
  <2>6. /\ Means(Event)
        /\ \A a, g, k, l : Fits(Event, a, g, k, l)
    BY EventIs DEF Means, Fits
  <2>7. Linked'
    <3>1. \A i \in 1 .. Len(down') : Means(down'[i])
      BY <1>0, <2>5, <2>6 DEF Linked
    <3>2. \E n, k, g, e : helper = Box(n, k, g, e)
      BY <1>0 DEF Linked
    <3> QED  BY <1>0, <2>1, <2>3, <3>1, <3>2 DEF Linked
  <2>8. Owed'
    BY <1>0, <2>3, <2>4, <2>5 DEF Owed, Wire
  <2>9. Dated'
    BY <1>0, <2>3, <2>5, <2>6 DEF Dated
  <2> QED  BY <1>1, <2>7, <2>8, <2>9 DEF LInv
<1> QED  BY <1>2, <1>3

LEMMA WorldKeepsLInv ==
  ASSUME LInv
  PROVE  /\ \A g : UserSwitches(g) => LInv'
         /\ \A k \in Keymaps : UserReloads(k) => LInv'
<1>1. ASSUME NEW g, UserSwitches(g)  PROVE LInv'
  <2>1. PICK k \in Keymaps : \E x : seat = [keymap |-> k, group |-> x]
    BY DEF LInv, Linked
  <2>2. seat' = [keymap |-> k, group |-> g]
    BY <1>1, <2>1 DEF UserSwitches
  <2>3. \E j \in Keymaps : \E y : seat' = [keymap |-> j, group |-> y]
    BY <2>2
  <2> QED  BY <1>1, <2>3, EventKeepsLInv DEF UserSwitches
<1>2. ASSUME NEW k \in Keymaps, UserReloads(k)  PROVE LInv'
  <2>1. \E j \in Keymaps : \E y : seat' = [keymap |-> j, group |-> y]
    BY <1>2 DEF UserReloads
  <2> QED  BY <1>2, <2>1, EventKeepsLInv DEF UserReloads
<1> QED  BY <1>1, <1>2

(* What another keymap, or the passing of the drains, leaves of the answers *)
(* under way and of what the panel knows.                                   *)
LEMMA Installed ==
  ASSUME NEW a, NEW g \in Nat, NEW k, NEW l, NEW j, NEW m
  PROVE  /\ \A r : Fits(r, a, g, k, l) => Fits(r, a, g + 1, j, m)
         /\ \A s : Knows(s, g, k, l) => Knows(s, g + 1, j, m)
<1>1. ASSUME NEW r, Fits(r, a, g, k, l)  PROVE Fits(r, a, g + 1, j, m)
  BY <1>1 DEF Fits
<1>2. ASSUME NEW s, Knows(s, g, k, l)  PROVE Knows(s, g + 1, j, m)
  BY <1>2 DEF Knows
<1> QED  BY <1>1, <1>2

LEMMA Passed ==
  ASSUME NEW a, NEW g, NEW k, NEW l
  PROVE  /\ \A r : Fits(r, a, g, k, l) => Fits(r, a, g, k, FALSE)
         /\ \A s : Knows(s, g, k, l) => Knows(s, g, k, FALSE)
  BY DEF Fits, Knows

LEMMA InstallsIs ==
  ASSUME Linked, NEW k, NEW x, Installs(k, x)
  PROVE  /\ helper'.gen = helper.gen + 1 /\ helper'.keymap = k /\ helper'.events = helper.events
         /\ \E n, j, g, e : helper' = Box(n, j, g, e)
<1>1. PICK n, j, g, e : helper = Box(n, j, g, e)
  BY DEF Linked
<1>2. PICK n1 : n1 = helper.gen + 1
  OBVIOUS
<1>3. helper' = [helper EXCEPT !.gen = n1, !.keymap = k, !.group = x]
  BY <1>2 DEF Installs
<1>4. [Box(n, j, g, e) EXCEPT !.gen = n1, !.keymap = k, !.group = x] = Box(n1, k, x, e)
  <2>1. PICK b : b = Box(n, j, g, e)
    OBVIOUS
  <2>2. b \in [gen : {n}, keymap : {j}, group : {g}, events : {e}]
    BY <2>1 DEF Box
  <2> DEFINE t == [b EXCEPT !.gen = n1, !.keymap = k, !.group = x]
  <2>3. t \in [gen : {n1}, keymap : {k}, group : {x}, events : {e}]
    BY ONLY <2>2
  <2> HIDE DEF t
  <2>4. t = Box(n1, k, x, e)
    BY ONLY <2>3 DEF Box
  <2> QED  BY <2>1, <2>4 DEF t
<1>5. helper' = Box(n1, k, x, e)
  BY <1>1, <1>3, <1>4
<1>6. Box(n1, k, x, e).gen = n1 /\ Box(n1, k, x, e).keymap = k /\ Box(n1, k, x, e).events = e
      /\ Box(n, j, g, e).events = e
  BY DEF Box
<1> QED  BY <1>1, <1>2, <1>5, <1>6

LEMMA OtherClientKeepsLInv ==
  ASSUME LInv, NEW k, AnotherClientConfigures(k)
  PROVE  LInv'
<1>0. /\ IInv /\ Linked /\ Owed /\ Dated
      /\ session' = session /\ inputReady' = inputReady /\ retry' = retry
      /\ link' = link /\ up' = up /\ down' = down /\ seat' = seat /\ lifted' = TRUE
  BY DEF LInv, AnotherClientConfigures, panel, world
<1>1. IInv'
  BY <1>0, Untouched
<1>2. /\ helper'.gen = helper.gen + 1 /\ helper'.keymap = k /\ helper'.events = helper.events
      /\ \E n, j, g, e : helper' = Box(n, j, g, e)
  BY <1>0, InstallsIs DEF AnotherClientConfigures
<1>3. Linked' /\ Owed'
  BY <1>0, <1>2 DEF Linked, Owed, Wire
<1>4. helper.gen \in Nat /\ helper'.gen \in Nat \ {0}
  BY <1>0, <1>2 DEF Dated
<1>5. /\ \A r : Fits(r, session.ackedGen, helper.gen, helper.keymap, lifted)
                    => Fits(r, session.ackedGen, helper.gen + 1, k, lifted')
      /\ \A s : Knows(s, helper.gen, helper.keymap, lifted)
                    => Knows(s, helper.gen + 1, k, lifted')
  BY <1>4, Installed
<1>6. Dated'
  BY <1>0, <1>2, <1>4, <1>5 DEF Dated
<1> QED  BY <1>1, <1>3, <1>6 DEF LInv

-----------------------------------------------------------------------------
(* The helper.                                                              *)

LEMMA AnswerIs ==
  ASSUME NEW x, NEW word
  PROVE  /\ Answer(x, word).verb = x.verb /\ Answer(x, word).word = word
         /\ Answer(x, word).keymap = x.keymap
  BY DEF Answer

(* Two numbers that make one, the second of them not zero.                  *)
LEMMA OnlyOne ==
  ASSUME NEW m \in Nat, NEW n \in Nat \ {0}, m + n = 1
  PROVE  m = 0 /\ n = 1
  BY SMT

(* A panel that is not connected, or whose connection is new, has no line   *)
(* under way but the hello.                                                 *)
LEMMA Acquainted ==
  ASSUME Linked, up # <<>>, up[1].verb # "hello"
  PROVE  session.helloOk
<1>1. /\ Len(Wire) = Len(down) + Len(up) /\ Len(up) \in Nat \ {0} /\ Len(down) \in Nat
      /\ \A i \in 1 .. (Len(down) + Len(up)) :
            Wire[i] = IF i <= Len(down) THEN down[i] ELSE up[i - Len(down)]
  <2>1. IsSeq(down) /\ IsSeq(up)
    BY DEF Linked
  <2> QED  BY <2>1, WireIs, Empty DEF Wire
<1>2. CASE link.fresh
  <2>1. Len(Wire) = 1 /\ Wire[1].verb = "hello"
    BY <1>2 DEF Linked
  <2>2. Len(down) = 0 /\ Wire[1] = up[1]
    <3>1. Len(down) = 0 /\ Len(up) = 1
      <4>1. Len(down) + Len(up) = 1 /\ Len(down) \in Nat /\ Len(up) \in Nat \ {0}
        BY <1>1, <2>1
      <4> QED  BY <4>1, OnlyOne
    <3>2. 1 \in 1 .. (Len(down) + Len(up)) /\ ~(1 <= Len(down)) /\ 1 - Len(down) = 1
      BY <3>1
    <3> QED  BY <1>1, <3>1, <3>2
  <2> QED  BY <2>1, <2>2
<1>3. CASE ~link.fresh
  BY <1>3 DEF Linked
<1> QED  BY <1>2, <1>3

(* A line is run and answered.                                              *)
LEMMA ReplyKeepsLinks ==
  ASSUME IInv, Linked, Owed, NEW r, Reply(r), UNCHANGED seat, Means(r),
         up # <<>>, r.verb = up[1].verb, r.verb = "configure" => r.keymap = up[1].keymap,
         helper'.events = helper.events, \E n, k, g, e : helper' = Box(n, k, g, e)
  PROVE  IInv' /\ Linked' /\ Owed' /\ IsSeq(down') /\ session' = session
<1>0. /\ session' = session /\ inputReady' = inputReady /\ retry' = retry /\ link' = link
      /\ up' = Tail(up) /\ down' = Append(down, r) /\ seat' = seat
  BY DEF Reply, panel
<1>1. IInv'
  BY <1>0, Untouched
<1>2. IsSeq(down) /\ IsSeq(up) /\ link.up
  BY DEF Linked
<1>3. /\ IsSeq(down') /\ Len(down) \in Nat /\ Len(down') = Len(down) + 1
      /\ \A i \in 1 .. Len(down) : down'[i] = down[i]
      /\ down'[Len(down) + 1] = r
  BY <1>0, <1>2, Appended
<1>4. /\ IsSeq(up') /\ Len(up) \in Nat \ {0} /\ Len(up') = Len(up) - 1
  BY <1>0, <1>2, Tailed
<1>5. /\ Len(Wire) = Len(down) + Len(up)
      /\ \A i \in 1 .. (Len(down) + Len(up)) :
            Wire[i] = IF i <= Len(down) THEN down[i] ELSE up[i - Len(down)]
  BY <1>2, WireIs DEF Wire
<1>6. /\ Len(Wire') = Len(down') + Len(up')
      /\ \A i \in 1 .. (Len(down') + Len(up')) :
            Wire'[i] = IF i <= Len(down') THEN down'[i] ELSE up'[i - Len(down')]
  BY <1>3, <1>4, WireIs DEF Wire
<1>7. ASSUME link.fresh
      PROVE  Len(Wire') = 1 /\ Wire'[1].verb = "hello"
  <2>1. Len(Wire) = 1 /\ Wire[1].verb = "hello"
    BY <1>7 DEF Linked
  <2>2. Len(down) = 0 /\ Len(up) = 1 /\ up[1].verb = "hello"
    <3>1. Len(down) = 0 /\ Len(up) = 1
      <4>1. Len(down) + Len(up) = 1 /\ Len(down) \in Nat /\ Len(up) \in Nat \ {0}
        BY <1>3, <1>4, <1>5, <2>1
      <4> QED  BY <4>1, OnlyOne
    <3>2. 1 \in 1 .. (Len(down) + Len(up)) /\ ~(1 <= Len(down)) /\ 1 - Len(down) = 1
      BY <3>1
    <3> QED  BY <1>5, <2>1, <3>1, <3>2
  <2>3. Len(Wire') = 1 /\ Wire'[1] = r
    BY <1>3, <1>4, <1>6, <2>2
  <2> QED  BY <2>2, <2>3
<1>8. \A i \in 1 .. Len(down') : Means(down'[i])
  <2>1. \A i \in 1 .. Len(down) : Means(down[i])
    BY DEF Linked
  <2> QED  BY <1>3, <2>1
<1>9. Linked'
  BY <1>0, <1>2, <1>3, <1>4, <1>7, <1>8 DEF Linked
<1>10. Owed'
  <2>1. ASSUME session.helloOk
        PROVE  Owes(session.queue, Append(down, r) \o Tail(up))
    <3>1. IsSeq(session.queue) /\ Owes(session.queue, down \o up)
      BY <2>1, QueueIsSeq DEF IInv, Owed, Wire
    <3> QED  BY <1>2, <3>1, OwesRun
  <2> QED  BY <1>0, <2>1 DEF Owed, Wire
<1> QED  BY <1>0, <1>1, <1>3, <1>9, <1>10

LEMMA ReplyKeepsDates ==
  ASSUME Linked, Dated, NEW r, Reply(r),
         \A x : Fits(x, session.ackedGen, helper.gen, helper.keymap, lifted)
                    => Fits(x, session.ackedGen, helper'.gen, helper'.keymap, lifted'),
         Fits(r, session.ackedGen, helper'.gen, helper'.keymap, lifted'),
         r.word = "configured" => r.gen >= helper.gen /\ (r.lifted => lifted \/ r.gen > helper.gen),
         helper'.gen \in Nat \ {0},
         session.helloOk => Knows(session, helper'.gen, helper'.keymap, lifted')
  PROVE  Dated'
<1>0. session' = session /\ down' = Append(down, r) /\ IsSeq(down)
  BY DEF Reply, panel, Linked
<1>1. /\ IsSeq(down') /\ Len(down) \in Nat /\ Len(down') = Len(down) + 1
      /\ \A i \in 1 .. Len(down) : down'[i] = down[i]
      /\ down'[Len(down) + 1] = r
  BY <1>0, Appended
<1>2. \A i \in 1 .. Len(down) : Fits(down[i], session.ackedGen, helper.gen, helper.keymap, lifted)
  BY DEF Dated
<1>3. ASSUME NEW i \in 1 .. Len(down')
      PROVE  Fits(down'[i], session.ackedGen, helper'.gen, helper'.keymap, lifted')
  <2>1. CASE i = Len(down) + 1
    BY <1>1, <2>1
  <2>2. CASE i \in 1 .. Len(down)
    BY <1>1, <1>2, <2>2
  <2> QED  BY <1>1, <2>1, <2>2
<1>4. Mounts(down')
  <2> SUFFICES ASSUME NEW i \in 1 .. Len(down'), NEW j \in 1 .. Len(down'), i < j,
                      down'[i].word = "configured", down'[j].word = "configured"
               PROVE  down'[i].gen <= down'[j].gen /\ (down'[j].lifted => down'[i].gen < down'[j].gen)
    BY DEF Mounts
  <2>1. i \in 1 .. Len(down)
    BY <1>1
  <2>2. CASE j \in 1 .. Len(down)
    <3>1. down'[i] = down[i] /\ down'[j] = down[j]
      BY <1>1, <2>1, <2>2
    <3>2. Mounts(down)
      BY DEF Dated
    <3> QED  BY <2>1, <2>2, <3>1, <3>2 DEF Mounts
  <2>3. CASE j = Len(down) + 1
    <3>1. down'[j] = r /\ down'[i] = down[i]
      BY <1>1, <2>1, <2>3
    <3>2. down[i].gen \in Nat /\ down[i].gen <= helper.gen /\ (lifted => down[i].gen < helper.gen)
      BY <1>2, <2>1, <3>1 DEF Fits
    <3>3. r.gen \in Nat /\ r.gen >= helper.gen /\ (r.lifted => lifted \/ r.gen > helper.gen)
      BY <3>1 DEF Fits
    <3>4. helper.gen \in Nat
      BY DEF Dated
    <3>5. /\ down[i].gen <= r.gen
          /\ r.lifted => down[i].gen < r.gen
      BY ONLY <3>2, <3>3, <3>4
    <3> QED  BY ONLY <3>1, <3>5, ZenonT(30)
  <2> QED  BY <1>1, <2>2, <2>3
<1> QED  BY <1>0, <1>3, <1>4 DEF Dated

(* ... with the keymap the helper has.                                      *)
LEMMA AnswerKeepsLInv ==
  ASSUME LInv, NEW r, Reply(r), UNCHANGED seat, Means(r), up # <<>>,
         r.verb = up[1].verb, r.verb = "configure" => r.keymap = up[1].keymap,
         helper'.gen = helper.gen, helper'.keymap = helper.keymap,
         helper'.events = helper.events, \E n, k, g, e : helper' = Box(n, k, g, e),
         lifted' = lifted \/ lifted' = FALSE,
         r.word = "configured" =>
            lifted' = FALSE /\ r.gen = helper.gen /\ r.keymap = helper.keymap /\ r.lifted = lifted,
         r.word = "caps" => r.gen = helper.gen /\ r.keymap = helper.keymap
  PROVE  LInv'
<1>0. IInv /\ Linked /\ Owed /\ Dated
  BY DEF LInv
<1>1. IInv' /\ Linked' /\ Owed'
  BY <1>0, ReplyKeepsLinks
<1>2. /\ \A x : Fits(x, session.ackedGen, helper.gen, helper.keymap, lifted)
                    => Fits(x, session.ackedGen, helper'.gen, helper'.keymap, lifted')
      /\ session.helloOk => Knows(session, helper'.gen, helper'.keymap, lifted')
  <2>1. session.helloOk => Knows(session, helper.gen, helper.keymap, lifted)
    BY <1>0 DEF Dated
  <2>2. CASE lifted' = lifted
    BY <2>1, <2>2
  <2>3. CASE lifted' = FALSE
    BY <2>1, <2>3, Passed
  <2> QED  BY <2>2, <2>3
<1>3. helper.gen \in Nat \ {0}
  BY <1>0 DEF Dated
<1>4. Fits(r, session.ackedGen, helper'.gen, helper'.keymap, lifted')
  <2>1. ASSUME r.word = "configured"
        PROVE  Knows(session, helper.gen, helper.keymap, lifted)
    <3>1. up[1].verb # "hello"
      BY <2>1 DEF Means
    <3> QED  BY <1>0, <3>1, Acquainted DEF Dated
  <2> QED  BY <1>3, <2>1 DEF Fits, Knows
<1>5. Dated'
  BY <1>0, <1>2, <1>3, <1>4, ReplyKeepsDates
<1> QED  BY <1>1, <1>5 DEF LInv

LEMMA HelperIsBoxed ==
  ASSUME Linked, UNCHANGED helper
  PROVE  \E n, k, g, e : helper' = Box(n, k, g, e)
  BY DEF Linked

LEMMA EventsKeepsLInv ==
  ASSUME LInv, RunEvents
  PROVE  LInv'
<1>0. IInv /\ Linked /\ Owed /\ Dated /\ IsSeq(down) /\ IsSeq(up)
  BY DEF LInv, Linked
<1>1. /\ up # <<>> /\ Next1.verb = "events" /\ up' = Tail(up)
      /\ session' = session /\ inputReady' = inputReady /\ retry' = retry
      /\ link' = link /\ down' = down /\ lifted' = lifted /\ seat' = seat
      /\ helper' = [helper EXCEPT !.events = TRUE]
  BY DEF RunEvents, Asks, panel, world
<1>2. IInv'
  BY <1>0, <1>1, Untouched
<1>3. /\ IsSeq(up') /\ Len(up) \in Nat \ {0} /\ Len(up') = Len(up) - 1
      /\ \A i \in 1 .. (Len(up) - 1) : up'[i] = up[i + 1]
      /\ up[1].verb = "events"
  BY <1>0, <1>1, Tailed DEF Next1
<1>4. session.helloOk /\ ~link.fresh /\ link.up
  BY <1>0, <1>1, <1>3, Acquainted DEF Linked
<1>5. /\ helper'.gen = helper.gen /\ helper'.keymap = helper.keymap
      /\ \E n, k, g, e : helper' = Box(n, k, g, e)
  <2>1. PICK n, k, g, e : helper = Box(n, k, g, e)
    BY <1>0 DEF Linked
  <2>2. PICK t : t = TRUE
    OBVIOUS
  <2>3. [Box(n, k, g, e) EXCEPT !.events = t] = Box(n, k, g, t)
    BY DEF Box
  <2>4. helper' = Box(n, k, g, t)
    BY <1>1, <2>1, <2>2, <2>3
  <2>5. /\ Box(n, k, g, e).gen = n /\ Box(n, k, g, e).keymap = k
        /\ Box(n, k, g, t).gen = n /\ Box(n, k, g, t).keymap = k
    BY DEF Box
  <2> QED  BY <2>1, <2>4, <2>5
<1>6. Linked'
  BY <1>0, <1>1, <1>3, <1>4, <1>5 DEF Linked
<1>7. Owes(session.queue, down \o up')
  <2> DEFINE w == down \o up
             v == down \o up'
  <2>1. /\ Len(w) = Len(down) + Len(up) /\ Len(down) \in Nat
        /\ \A i \in 1 .. (Len(down) + Len(up)) :
              w[i] = IF i <= Len(down) THEN down[i] ELSE up[i - Len(down)]
    BY <1>0, WireIs
  <2>2. /\ Len(v) = Len(down) + Len(up')
        /\ \A i \in 1 .. (Len(down) + Len(up')) :
              v[i] = IF i <= Len(down) THEN down[i] ELSE up'[i - Len(down)]
    BY <1>0, <1>3, WireIs
  <2>3. Owes(session.queue, w) /\ Len(session.queue) \in Nat
    BY <1>0, <1>4, QueueIsSeq DEF IInv, Owed, Wire
  <2> HIDE DEF w, v
  <2>4. Len(w) = Len(v) + 1 /\ Len(v) \in Nat /\ Len(down) + 1 \in 1 .. Len(w)
    <3>1. Len(up') \in Nat /\ Len(up) = Len(up') + 1
      BY <1>3
    <3> QED  BY <2>1, <2>2, <3>1
  <2>5. w[Len(down) + 1].verb # "configure"
    <3>1. Len(down) + 1 \in 1 .. (Len(down) + Len(up)) /\ (Len(down) + 1) - Len(down) = 1
          /\ ~(Len(down) + 1 <= Len(down))
      BY <1>3, <2>1
    <3> QED  BY <1>3, <2>1, <3>1
  <2>6. ASSUME NEW i \in 1 .. Len(v)
        PROVE  v[i] = w[IF i < Len(down) + 1 THEN i ELSE i + 1]
    <3>0. i \in 1 .. (Len(down) + Len(up')) /\ i \in 1 .. (Len(down) + Len(up))
          /\ i + 1 \in 1 .. (Len(down) + Len(up))
      BY <1>3, <2>1, <2>2
    <3>1. CASE i <= Len(down)
      <4>1. i < Len(down) + 1
        BY <2>1, <3>1
      <4> QED  BY <2>1, <2>2, <3>0, <3>1, <4>1
    <3>2. CASE ~(i <= Len(down))
      <4>1. /\ ~(i < Len(down) + 1) /\ ~(i + 1 <= Len(down))
            /\ i - Len(down) \in 1 .. (Len(up) - 1) /\ (i - Len(down)) + 1 = (i + 1) - Len(down)
        BY <1>3, <2>1, <3>0, <3>2
      <4> QED  BY <1>3, <2>1, <2>2, <3>0, <3>2, <4>1
    <3> QED  BY ONLY <3>1, <3>2
  <2>7. Owes(session.queue, v)
    BY <2>3, <2>4, <2>5, <2>6, OwesRemoved, SMTT(30)
  <2> QED  BY <2>7 DEF v
<1>8. Owed' /\ Dated'
  BY <1>0, <1>1, <1>5, <1>7 DEF Owed, Dated, Wire
<1> QED  BY <1>2, <1>6, <1>8 DEF LInv

LEMMA ConfiguredIs ==
  ASSUME NEW gen, NEW drained
  PROVE  /\ Configured(gen, drained).verb = Next1.verb
         /\ Configured(gen, drained).word = "configured"
         /\ Configured(gen, drained).keymap = Next1.keymap
         /\ Configured(gen, drained).gen = gen
         /\ Configured(gen, drained).lifted = drained
<1>1. PICK v, k, g : v = Next1.verb /\ k = Next1.keymap /\ g = Next1.group
  OBVIOUS
<1> DEFINE b == [verb |-> v, word |-> "configured", keymap |-> k, group |-> g,
                 gen |-> 0, lifted |-> FALSE]
           t == [b EXCEPT !.gen = gen, !.lifted = drained]
<1>2. Configured(gen, drained) = t
  BY <1>1 DEF Configured, Answer
<1>3. b \in [verb : {v}, word : {"configured"}, keymap : {k}, group : {g},
             gen : {0}, lifted : {FALSE}]
  OBVIOUS
<1> HIDE DEF b
<1>4. t \in [verb : {v}, word : {"configured"}, keymap : {k}, group : {g},
             gen : {gen}, lifted : {drained}]
  BY ONLY <1>3
<1> HIDE DEF t
<1>5. t.verb = v /\ t.word = "configured" /\ t.keymap = k /\ t.gen = gen /\ t.lifted = drained
  BY ONLY <1>4
<1> QED  BY <1>1, <1>2, <1>5

LEMMA ConfigureKeepsLInv ==
  ASSUME LInv, RunConfigure
  PROVE  LInv'
<1>0. /\ IInv /\ Linked /\ Owed /\ Dated /\ IsSeq(up)
  BY DEF LInv, Linked
<1>1. /\ up # <<>> /\ Next1.verb = "configure" /\ lifted' = FALSE /\ seat' = seat
      /\ Next1 = up[1]
  BY <1>0, Tailed DEF RunConfigure, Asks, Next1, world
<1>2. CASE Next1.keymap = helper.keymap
  <2> DEFINE r == Configured(helper.gen, lifted)
  <2>1. Reply(r) /\ helper' = [helper EXCEPT !.group = Next1.group]
    BY <1>2 DEF RunConfigure
  <2>2. /\ r.verb = up[1].verb /\ r.word = "configured" /\ r.keymap = up[1].keymap
        /\ r.gen = helper.gen /\ r.lifted = lifted
    BY <1>1, ConfiguredIs
  <2> HIDE DEF r
  <2>3. Means(r)
    BY <1>1, <2>2 DEF Means
  <2>4. /\ helper'.gen = helper.gen /\ helper'.keymap = helper.keymap
        /\ helper'.events = helper.events /\ \E n, k, g, e : helper' = Box(n, k, g, e)
    <3>1. PICK n, k, g, e : helper = Box(n, k, g, e)
      BY <1>0 DEF Linked
    <3>2. PICK x : x = Next1.group
      OBVIOUS
    <3>3. [Box(n, k, g, e) EXCEPT !.group = x] = Box(n, k, x, e)
      BY DEF Box
    <3>4. helper' = Box(n, k, x, e)
      BY <2>1, <3>1, <3>2, <3>3
    <3>5. /\ Box(n, k, g, e).gen = n /\ Box(n, k, g, e).keymap = k /\ Box(n, k, g, e).events = e
          /\ Box(n, k, x, e).gen = n /\ Box(n, k, x, e).keymap = k /\ Box(n, k, x, e).events = e
      BY DEF Box
    <3> QED  BY <3>1, <3>4, <3>5
  <2> QED  BY <1>1, <1>2, <2>1, <2>2, <2>3, <2>4, AnswerKeepsLInv
<1>3. CASE Next1.keymap # helper.keymap
  <2> DEFINE r == Configured(helper.gen + 1, TRUE)
  <2>1. Reply(r) /\ Installs(Next1.keymap, Next1.group)
    BY <1>3 DEF RunConfigure
  <2>2. /\ r.verb = up[1].verb /\ r.word = "configured" /\ r.keymap = up[1].keymap
        /\ r.gen = helper.gen + 1 /\ r.lifted = TRUE
    <3>1. PICK n, t : n = helper.gen + 1 /\ t = TRUE
      OBVIOUS
    <3>2. r = Configured(n, t)
      BY <3>1
    <3> HIDE DEF r
    <3>3. /\ r.verb = Next1.verb /\ r.word = "configured" /\ r.keymap = Next1.keymap
          /\ r.gen = n /\ r.lifted = t
      BY ONLY <3>2, ConfiguredIs
    <3> QED  BY <1>1, <3>1, <3>3
  <2> HIDE DEF r
  <2>3. Means(r)
    BY <1>1, <2>2 DEF Means
  <2>4. /\ helper'.gen = helper.gen + 1 /\ helper'.keymap = Next1.keymap
        /\ helper'.events = helper.events /\ \E n, k, g, e : helper' = Box(n, k, g, e)
    BY <1>0, <2>1, InstallsIs
  <2>5. IInv' /\ Linked' /\ Owed'
    BY <1>0, <1>1, <2>1, <2>2, <2>3, <2>4, ReplyKeepsLinks
  <2>6. helper.gen \in Nat \ {0} /\ helper'.gen \in Nat \ {0}
    BY <1>0, <2>4 DEF Dated
  <2>7. Knows(session, helper.gen, helper.keymap, lifted)
    BY <1>0, <1>1, Acquainted DEF Dated
  <2>8. /\ \A x : Fits(x, session.ackedGen, helper.gen, helper.keymap, lifted)
                      => Fits(x, session.ackedGen, helper.gen + 1, Next1.keymap, lifted')
        /\ Knows(session, helper.gen + 1, Next1.keymap, lifted')
    BY <2>6, <2>7, Installed
  <2>9. Fits(r, session.ackedGen, helper.gen + 1, Next1.keymap, lifted')
    BY <1>1, <2>2, <2>6, <2>7 DEF Fits, Knows
  <2>10. Dated'
    <3>1. r.gen >= helper.gen /\ r.gen > helper.gen
      BY <2>2, <2>6
    <3> QED  BY <1>0, <2>1, <2>4, <2>6, <2>8, <2>9, <3>1, ReplyKeepsDates
  <2> QED  BY <2>5, <2>10 DEF LInv
<1> QED  BY <1>2, <1>3

LEMMA HelperKeepsLInv ==
  ASSUME LInv, HelperRuns
  PROVE  LInv'
<1>0. /\ IInv /\ Linked /\ Owed /\ Dated /\ IsSeq(up)
  BY DEF LInv, Linked
<1>1. /\ up # <<>> => Next1 = up[1]
      /\ helper' = helper => \E n, k, g, e : helper' = Box(n, k, g, e)
  BY <1>0, Tailed, HelperIsBoxed DEF Next1
<1>2. ASSUME NEW word, NEW r, Reply(r), up # <<>>, seat' = seat, helper' = helper,
             lifted' = lifted \/ lifted' = FALSE,
             r.verb = Next1.verb, r.word = word, word # "configured", Means(r),
             r.verb = "configure" => r.keymap = Next1.keymap,
             word = "caps" => r.gen = helper.gen /\ r.keymap = helper.keymap
      PROVE  LInv'
  BY <1>1, <1>2, AnswerKeepsLInv
<1>3. CASE RunHello
  <2> DEFINE r == Answer(Next1, "hello")
  <2>1. r.verb = Next1.verb /\ r.word = "hello" /\ Next1.verb = "hello"
    BY <1>3, AnswerIs DEF RunHello, Asks
  <2>2. Means(r)
    BY <2>1 DEF Means
  <2>3. /\ Reply(r) /\ up # <<>> /\ seat' = seat /\ helper' = helper /\ lifted' = lifted
    BY <1>3 DEF RunHello, Asks, world
  <2> HIDE DEF r
  <2> QED  BY <1>2, <2>1, <2>2, <2>3
<1>4. CASE RunSeat
  <2>1. PICK k \in Keymaps : \E g : seat = [keymap |-> k, group |-> g]
    BY <1>0 DEF Linked
  <2>2. PICK word : word = IF kbFile.published THEN "ours" ELSE "theirs"
    OBVIOUS
  <2>3. PICK v, k1, g1 : v = Next1.verb /\ k1 = Next1.keymap /\ g1 = Next1.group
    OBVIOUS
  <2>4. PICK s1, s2 : s1 = seat.keymap /\ s2 = seat.group
    OBVIOUS
  <2> DEFINE b == [verb |-> v, word |-> word, keymap |-> k1, group |-> g1,
                   gen |-> 0, lifted |-> FALSE]
             r == [b EXCEPT !.keymap = s1, !.group = s2]
  <2>5. /\ up # <<>> /\ Next1.verb = "seat" /\ Reply(r)
        /\ seat' = seat /\ helper' = helper /\ lifted' = lifted
    BY <1>4, <2>2, <2>3, <2>4 DEF RunSeat, Answer, Asks, world
  <2>6. b \in [verb : {v}, word : {word}, keymap : {k1}, group : {g1}, gen : {0}, lifted : {FALSE}]
    OBVIOUS
  <2> HIDE DEF b
  <2>7. r \in [verb : {v}, word : {word}, keymap : {s1}, group : {s2}, gen : {0}, lifted : {FALSE}]
    BY ONLY <2>6
  <2> HIDE DEF r
  <2>8. r.verb = Next1.verb /\ r.word = word /\ r.keymap = s1
    BY <2>3, <2>7
  <2>9. s1 \in Keymaps /\ word \in {"ours", "theirs"}
    BY <2>1, <2>2, <2>4
  <2>10. Means(r)
    BY <2>5, <2>8, <2>9 DEF Means
  <2> QED  BY <1>2, <2>5, <2>8, <2>9, <2>10
<1>5. CASE RunCaps
  <2>1. PICK v, k1, g1 : v = Next1.verb /\ k1 = Next1.keymap /\ g1 = Next1.group
    OBVIOUS
  <2>2. PICK n, k : n = helper.gen /\ k = helper.keymap
    OBVIOUS
  <2> DEFINE b == [verb |-> v, word |-> "caps", keymap |-> k1, group |-> g1,
                   gen |-> 0, lifted |-> FALSE]
             r == [b EXCEPT !.gen = n, !.keymap = k]
  <2>3. /\ up # <<>> /\ Next1.verb = "caps" /\ Reply(r)
        /\ seat' = seat /\ helper' = helper /\ lifted' = lifted
    BY <1>5, <2>1, <2>2 DEF RunCaps, Answer, Asks, world
  <2>4. b \in [verb : {v}, word : {"caps"}, keymap : {k1}, group : {g1}, gen : {0}, lifted : {FALSE}]
    OBVIOUS
  <2> HIDE DEF b
  <2>5. r \in [verb : {v}, word : {"caps"}, keymap : {k}, group : {g1}, gen : {n}, lifted : {FALSE}]
    BY ONLY <2>4
  <2> HIDE DEF r
  <2>6. r.verb = Next1.verb /\ r.word = "caps" /\ r.keymap = helper.keymap /\ r.gen = helper.gen
    BY <2>1, <2>2, <2>5
  <2>7. Means(r)
    BY <2>3, <2>6 DEF Means
  <2> QED  BY <1>2, <2>3, <2>6, <2>7
<1>6. ASSUME NEW word \in {"cannot configure", "bad group", "ok", "err share", "err seat"},
             Reply(Answer(Next1, word)), up # <<>>, seat' = seat, helper' = helper,
             lifted' = lifted \/ lifted' = FALSE,
             word = "cannot configure" => Next1.verb = "configure",
             Next1.verb = "configure" => word \in {"cannot configure", "bad group"},
             Next1.verb # "hello"
      PROVE  LInv'
  <2> DEFINE r == Answer(Next1, word)
  <2>1. r.verb = Next1.verb /\ r.word = word /\ r.keymap = Next1.keymap
    BY AnswerIs
  <2>2. Reply(r)
    BY <1>6
  <2> HIDE DEF r
  <2>3. Means(r)
    BY <1>6, <2>1 DEF Means
  <2> QED  BY <1>2, <1>6, <2>1, <2>2, <2>3
<1>7. CASE RunConfigureFails
  BY <1>6, <1>7 DEF RunConfigureFails, Asks, world
<1>8. CASE RunBadGroup
  BY <1>6, <1>8 DEF RunBadGroup, Asks, world
<1>9. CASE RunShare \/ RunShareFails \/ RunSeatFails
  BY <1>6, <1>9 DEF RunShare, RunShareFails, RunSeatFails, Asks, world
<1> QED  BY <1>3, <1>4, <1>5, <1>7, <1>8, <1>9, EventsKeepsLInv, ConfigureKeepsLInv DEF HelperRuns

-----------------------------------------------------------------------------
(* The connection and the timers.                                           *)

LEMMA AppendIs ==
  ASSUME NEW u, IsSeq(u), NEW e
  PROVE  Append(u, e) = u \o <<e>>
<1>1. PICK S : u \in Seq(S)
  BY DEF IsSeq
<1> QED  BY <1>1

LEMMA PlainIs ==
  ASSUME NEW verb, verb # "configure"
  PROVE  Quiet(<<Plain(verb)>>) /\ Plain(verb).verb = verb
<1>1. Plain(verb).verb = verb
  BY DEF Plain, Line
<1>2. \A e : e.verb # "configure" => Quiet(<<e>>)
  <2> SUFFICES ASSUME NEW e, e.verb # "configure"
               PROVE  Quiet(<<e>>)
    OBVIOUS
  <2>1. IsSeq(<<e>>) /\ Len(<<e>>) = 1 /\ <<e>>[1] = e
    BY Short
  <2> QED  BY <2>1 DEF Quiet
<1> QED  BY <1>1, <1>2

LEMMA NothingQuiet == Quiet(<<>>)
  BY Short DEF Quiet

(* Lines that are no configures are sent.                                   *)
LEMMA SendsKeepsLInv ==
  ASSUME LInv, NEW x, Quiet(x), session.helloOk, up' = up \o x,
         UNCHANGED <<session, inputReady, down, helper, lifted, seat>>,
         link' \in [up : BOOLEAN, fresh : BOOLEAN, probe : BOOLEAN], link'.up, ~link'.fresh
  PROVE  LInv'
<1>0. IInv /\ Linked /\ Owed /\ Dated /\ IsSeq(up) /\ IsSeq(down)
  BY DEF LInv, Linked
<1>1. IInv'
  BY <1>0, Untouched
<1>2. IsSeq(up') /\ Owes(session.queue, down \o up')
  <2>1. IsSeq(session.queue) /\ Owes(session.queue, down \o up)
    BY <1>0, QueueIsSeq DEF IInv, Owed, Wire
  <2> QED  BY <1>0, <2>1, OwesMore
<1>3. Linked'
  BY <1>0, <1>2 DEF Linked
<1>4. Owed' /\ Dated'
  BY <1>0, <1>2 DEF Owed, Dated, Wire
<1> QED  BY <1>1, <1>3, <1>4 DEF LInv

LEMMA TickKeepsLInv ==
  ASSUME LInv, RepairTick
  PROVE  LInv'
<1>0. Linked /\ IsSeq(up)
  BY DEF LInv, Linked
<1>1. /\ link.up /\ ~link.probe /\ link' = [link EXCEPT !.probe = TRUE]
      /\ up' = Append(up, Plain("hello"))
      /\ UNCHANGED <<session, inputReady, down, helper, lifted, seat>>
  BY DEF RepairTick, panel, world
<1>2. link \in [up : BOOLEAN, fresh : BOOLEAN, probe : BOOLEAN] /\ ~link.fresh /\ session.helloOk
  BY <1>0, <1>1 DEF Linked
<1>3. /\ link' \in [up : BOOLEAN, fresh : BOOLEAN, probe : BOOLEAN] /\ link'.up /\ ~link'.fresh
  BY <1>1, <1>2
<1>4. up' = up \o <<Plain("hello")>> /\ Quiet(<<Plain("hello")>>)
  BY <1>0, <1>1, AppendIs, PlainIs
<1> QED  BY <1>1, <1>2, <1>3, <1>4, SendsKeepsLInv

LEMMA RetryKeepsLInv ==
  ASSUME LInv, ShareRetry
  PROVE  LInv'
<1>0. Linked /\ IsSeq(up)
  BY DEF LInv, Linked
<1>1. /\ retry /\ link' = link
      /\ up' = IF share.running THEN Append(up, Plain("share")) ELSE up
      /\ UNCHANGED <<session, inputReady, down, helper, lifted, seat>>
  BY DEF ShareRetry, world
<1>2. /\ session.helloOk /\ link.up /\ ~link.fresh
      /\ link \in [up : BOOLEAN, fresh : BOOLEAN, probe : BOOLEAN]
  BY <1>0, <1>1 DEF Linked
<1>3. PICK x : Quiet(x) /\ up' = up \o x
  <2>1. up \o <<>> = up
    <3>1. PICK S : up \in Seq(S)
      BY <1>0 DEF IsSeq
    <3> QED  BY <3>1
  <2>2. up' = up \o <<>> \/ up' = up \o <<Plain("share")>>
    BY <1>0, <1>1, <2>1, AppendIs
  <2> QED  BY <2>2, PlainIs, NothingQuiet
<1> QED  BY <1>1, <1>2, <1>3, SendsKeepsLInv

LEMMA ConnectKeepsLInv ==
  ASSUME LInv, Connect
  PROVE  LInv'
<1>0. IInv /\ Linked /\ Owed /\ Dated
  BY DEF LInv
<1>1. /\ ~link.up /\ link' = [up |-> TRUE, fresh |-> TRUE, probe |-> TRUE]
      /\ up' = <<Plain("hello")>>
      /\ UNCHANGED <<session, inputReady, down, helper, lifted, seat, retry>>
  BY DEF Connect, panel, world
<1>2. IInv'
  BY <1>0, <1>1, Untouched
<1>3. down = <<>> /\ ~session.helloOk
  BY <1>0, <1>1 DEF Linked
<1>4. IsSeq(up') /\ Len(up') = 1 /\ up'[1].verb = "hello"
  BY <1>1, Short, PlainIs
<1>5. Len(Wire') = 1 /\ Wire'[1].verb = "hello"
  <2>1. IsSeq(down) /\ Len(down) = 0 /\ down' = down
    BY <1>1, <1>3, Short
  <2>2. /\ Len(Wire') = 0 + 1
        /\ \A i \in 1 .. (0 + 1) : Wire'[i] = IF i <= 0 THEN down'[i] ELSE up'[i - 0]
    <3>1. PICK d, u : d = down' /\ u = up'
      OBVIOUS
    <3>2. IsSeq(d) /\ IsSeq(u) /\ Len(d) = 0 /\ Len(u) = 1
      BY <1>4, <2>1, <3>1
    <3>3. /\ Len(d \o u) = Len(d) + Len(u)
          /\ \A i \in 1 .. (Len(d) + Len(u)) :
                (d \o u)[i] = IF i <= Len(d) THEN d[i] ELSE u[i - Len(d)]
      BY ONLY <3>2, WireIs
    <3> QED  BY <3>1, <3>2, <3>3 DEF Wire
  <2> QED  BY <1>4, <2>2
<1>6. /\ link' \in [up : BOOLEAN, fresh : BOOLEAN, probe : BOOLEAN]
      /\ link'.up /\ link'.fresh /\ link'.probe
  BY <1>1
<1>7. Linked'
  BY <1>0, <1>1, <1>3, <1>4, <1>5, <1>6 DEF Linked
<1>8. Owed' /\ Dated'
  BY <1>0, <1>1, <1>3 DEF Owed, Dated
<1> QED  BY <1>2, <1>7, <1>8 DEF LInv

LEMMA DropKeepsLInv ==
  ASSUME LInv, NEW restarted, NEW gaveBack, Drop(restarted, gaveBack)
  PROVE  LInv'
<1>0. IInv /\ Linked /\ Owed /\ Dated
  BY DEF LInv
<1>1. /\ link' = [up |-> FALSE, fresh |-> FALSE, probe |-> FALSE]
      /\ up' = <<>> /\ down' = <<>> /\ session' = connectionDown(session)
      /\ retry' = FALSE /\ seat' = seat
      /\ helper' = IF restarted
                     THEN [gen |-> 1, keymap |-> DefaultMap, group |-> 0, events |-> FALSE]
                     ELSE [helper EXCEPT !.events = FALSE]
  BY DEF Drop
<1>2. IInv'
  BY <1>0, DropKeepsIInv
<1>3. session'.helloOk = FALSE /\ session'.queue = session.queue
  BY <1>0, <1>1, LossFields DEF IInv
<1>4. /\ helper'.events = FALSE /\ helper'.gen \in Nat \ {0}
      /\ \E n, k, g, e : helper' = Box(n, k, g, e)
  <2>1. PICK n, k, g, e : helper = Box(n, k, g, e)
    BY <1>0 DEF Linked
  <2>2. PICK f : f = FALSE
    OBVIOUS
  <2>3. [Box(n, k, g, e) EXCEPT !.events = f] = Box(n, k, g, f)
    BY DEF Box
  <2>4. helper' = Box(1, DefaultMap, 0, f) \/ helper' = Box(n, k, g, f)
    <3>1. CASE restarted
      BY <1>1, <2>2, <3>1 DEF Box
    <3>2. CASE ~restarted
      <4>1. helper' = [helper EXCEPT !.events = f]
        BY <1>1, <2>2, <3>2
      <4> QED  BY <2>1, <2>3, <4>1
    <3> QED  BY <3>1, <3>2
  <2>5. helper.gen = n /\ n \in Nat \ {0}
    <3>1. Box(n, k, g, e).gen = n
      BY DEF Box
    <3> QED  BY <1>0, <2>1, <3>1 DEF Dated
  <2>6. /\ Box(1, DefaultMap, 0, f).events = f /\ Box(1, DefaultMap, 0, f).gen = 1
        /\ Box(n, k, g, f).events = f /\ Box(n, k, g, f).gen = n
    BY DEF Box
  <2> QED  BY <2>2, <2>4, <2>5, <2>6
<1>5. /\ link' \in [up : BOOLEAN, fresh : BOOLEAN, probe : BOOLEAN]
      /\ ~link'.up /\ ~link'.fresh
  BY <1>1
<1>6. Linked'
  <2>1. IsSeq(up') /\ IsSeq(down') /\ Len(down') = 0 /\ up' = <<>> /\ down' = <<>>
    BY <1>1, Short
  <2>2. ~session'.helloOk /\ ~helper'.events /\ ~retry'
    BY <1>1, <1>3, <1>4
  <2>3. \E k \in Keymaps : \E g : seat' = [keymap |-> k, group |-> g]
    BY <1>0, <1>1 DEF Linked
  <2>4. \A i \in 1 .. Len(down') : Means(down'[i])
    BY <2>1
  <2>5. session'.helloOk <=> link'.up /\ ~link'.fresh
    BY <1>5, <2>2
  <2> QED  BY <1>4, <1>5, <2>1, <2>2, <2>3, <2>4, <2>5 DEF Linked
<1>7. Owed'
  BY <1>0, <1>3 DEF Owed
<1>8. Dated'
  <2>1. Len(down') = 0
    BY <1>1, Short
  <2> QED  BY <1>3, <1>4, <2>1 DEF Dated, Mounts
<1> QED  BY <1>2, <1>6, <1>7, <1>8 DEF LInv

LEMMA InitIsLInv ==
  ASSUME Init
  PROVE  LInv
<1>1. /\ session = initial /\ inputReady = FALSE /\ retry = FALSE
      /\ link = [up |-> FALSE, fresh |-> FALSE, probe |-> FALSE]
      /\ up = <<>> /\ down = <<>>
      /\ helper = [gen |-> 1, keymap |-> DefaultMap, group |-> 0, events |-> FALSE]
      /\ seat \in [keymap : Keymaps, group : {0}]
  BY DEF Init
<1>2. IInv
  BY <1>1, InitialIsSound DEF IInv, GateIsHonest
<1>3. session.helloOk = FALSE /\ session.queue = <<>>
  BY <1>1 DEF initial
<1>4. helper = Box(1, DefaultMap, 0, FALSE) /\ ~helper.events /\ helper.gen \in Nat \ {0}
  BY <1>1 DEF Box
<1>5. seat = [keymap |-> seat.keymap, group |-> seat.group] /\ seat.keymap \in Keymaps
  BY <1>1
<1>6. Linked
  <2>1. /\ \E k \in Keymaps : \E g : seat = [keymap |-> k, group |-> g]
        /\ \E n, k, g, e : helper = Box(n, k, g, e)
    BY <1>4, <1>5
  <2>2. link \in [up : BOOLEAN, fresh : BOOLEAN, probe : BOOLEAN] /\ ~link.up /\ ~link.fresh
    BY <1>1
  <2>3. IsSeq(up) /\ IsSeq(down) /\ Len(down) = 0 /\ up = <<>> /\ down = <<>>
    BY <1>1, Short
  <2>4. ~session.helloOk /\ ~helper.events /\ ~retry
    BY <1>1, <1>3, <1>4
  <2>5. \A i \in 1 .. Len(down) : Means(down[i])
    BY <2>3
  <2>6. session.helloOk <=> link.up /\ ~link.fresh
    BY <2>2, <2>4
  <2> QED  BY <2>1, <2>2, <2>3, <2>4, <2>5, <2>6 DEF Linked
<1>7. Owed /\ Dated
  <2>1. Len(<<>>) = 0
    BY Short
  <2> QED  BY <1>1, <1>3, <1>4, <2>1 DEF Owed, Dated, Mounts
<1> QED  BY <1>2, <1>6, <1>7 DEF LInv

-----------------------------------------------------------------------------
(* The panel.                                                               *)

LEMMA ReadFacts ==
  ASSUME LInv, down # <<>>
  PROVE  /\ IsSeq(Tail(down)) /\ Heard = down[1] /\ Means(Heard) /\ link.up
         /\ Fits(Heard, session.ackedGen, helper.gen, helper.keymap, lifted)
         /\ Heard.word # "hello" => session.helloOk /\ ~link.fresh
         /\ Mounts(Tail(down))
         /\ \A i \in 1 .. Len(Tail(down)) :
              /\ Means(Tail(down)[i])
              /\ Fits(Tail(down)[i], session.ackedGen, helper.gen, helper.keymap, lifted)
              /\ Heard.word = "configured" =>
                   Fits(Tail(down)[i], Heard.gen, helper.gen, helper.keymap, lifted)
<1>0. /\ IInv /\ Linked /\ Owed /\ Dated /\ IsSeq(down) /\ IsSeq(up)
  BY DEF LInv, Linked
<1>1. link.up
  BY <1>0 DEF Linked
<1> DEFINE t == Tail(down)
<1>2. /\ IsSeq(t) /\ Len(down) \in Nat \ {0} /\ Len(t) = Len(down) - 1
      /\ \A i \in 1 .. (Len(down) - 1) : t[i] = down[i + 1]
      /\ Head(down) = down[1]
  BY <1>0, Tailed
<1> HIDE DEF t
<1>3. Heard = down[1] /\ 1 \in 1 .. Len(down)
  BY <1>2 DEF Heard
<1>4. /\ Means(Heard) /\ Fits(Heard, session.ackedGen, helper.gen, helper.keymap, lifted)
  BY <1>0, <1>3 DEF Linked, Dated
<1>5. \A i \in 1 .. Len(t) : i + 1 \in 1 .. Len(down) /\ t[i] = down[i + 1]
  BY <1>2
<1>6. ASSUME NEW i \in 1 .. Len(t)
      PROVE  /\ Means(t[i])
             /\ Fits(t[i], session.ackedGen, helper.gen, helper.keymap, lifted)
             /\ Heard.word = "configured" =>
                  Fits(t[i], Heard.gen, helper.gen, helper.keymap, lifted)
  <2>1. Means(t[i]) /\ Fits(t[i], session.ackedGen, helper.gen, helper.keymap, lifted)
    BY <1>0, <1>5 DEF Linked, Dated
  <2>2. ASSUME Heard.word = "configured", t[i].word = "configured"
        PROVE  Heard.gen <= t[i].gen /\ (t[i].lifted => Heard.gen < t[i].gen)
    <3>1. 1 < i + 1
      OBVIOUS
    <3> QED  BY <1>0, <1>3, <1>5, <2>2, <3>1 DEF Dated, Mounts
  <2> QED  BY <2>1, <2>2 DEF Fits
<1>7. Mounts(t)
  <2> DEFINE at == [i \in 1 .. Len(t) |-> i + 1]
  <2>1. \A i \in 1 .. Len(t) : t[i].word = "configured" =>
            at[i] \in 1 .. Len(down) /\ t[i] = down[at[i]]
    BY <1>5
  <2>2. \A i, j \in 1 .. Len(t) :
            i < j /\ t[i].word = "configured" /\ t[j].word = "configured" => at[i] < at[j]
    OBVIOUS
  <2>3. Mounts(down)
    BY <1>0 DEF Dated
  <2> HIDE DEF at
  <2> QED  BY <2>1, <2>2, <2>3, MountsKept
<1>8. ASSUME Heard.word # "hello"
      PROVE  session.helloOk /\ ~link.fresh
  <2>1. CASE link.fresh
    <3>1. /\ Len(Wire) = 1 /\ Wire[1].verb = "hello"
      BY <1>0, <2>1 DEF Linked
    <3>2. /\ Len(Wire) = Len(down) + Len(up) /\ Len(up) \in Nat
          /\ \A i \in 1 .. (Len(down) + Len(up)) :
                Wire[i] = IF i <= Len(down) THEN down[i] ELSE up[i - Len(down)]
      BY <1>0, WireIs DEF Wire
    <3>3. Wire[1] = down[1]
      BY <1>2, <3>2
    <3> QED  BY <1>3, <1>4, <1>8, <3>1, <3>3 DEF Means
  <2>2. CASE ~link.fresh
    BY <1>0, <1>1, <2>2 DEF Linked
  <2> QED  BY <2>1, <2>2
<1> QED  BY <1>1, <1>2, <1>3, <1>4, <1>6, <1>7, <1>8 DEF t

LEMMA ReadKeepsLInv ==
  ASSUME LInv, IInv', down # <<>>, down' = Tail(down), session'.helloOk, IsSeq(up'),
         link' \in [up : BOOLEAN, fresh : BOOLEAN, probe : BOOLEAN], link'.up, ~link'.fresh,
         UNCHANGED <<helper, lifted, seat>>,
         \A i \in 1 .. Len(session'.queue) : session'.queue[i].keymap \in Keymaps,
         Owes(session'.queue, Tail(down) \o up'),
         Knows(session', helper.gen, helper.keymap, lifted),
         \/ session'.ackedGen = session.ackedGen
         \/ Heard.word = "configured" /\ session'.ackedGen = Heard.gen
         \/ Len(Tail(down)) = 0
  PROVE  LInv'
<1>0. Linked /\ Dated
  BY DEF LInv
<1>1. /\ IsSeq(Tail(down)) /\ Mounts(Tail(down))
      /\ \A i \in 1 .. Len(Tail(down)) :
           /\ Means(Tail(down)[i])
           /\ Fits(Tail(down)[i], session.ackedGen, helper.gen, helper.keymap, lifted)
           /\ Heard.word = "configured" =>
                Fits(Tail(down)[i], Heard.gen, helper.gen, helper.keymap, lifted)
  BY ReadFacts
<1>2. Linked'
  BY <1>0, <1>1 DEF Linked
<1>3. Owed'
  BY DEF Owed, Wire
<1>4. \A i \in 1 .. Len(down') : Fits(down'[i], session'.ackedGen, helper.gen, helper.keymap, lifted)
  BY <1>1
<1>5. Dated'
  BY <1>0, <1>1, <1>4 DEF Dated
<1> QED  BY <1>2, <1>3, <1>5 DEF LInv

(* What is left to read and to run when an answer to anything but a         *)
(* configure is read, and when one to a configure is.                       *)
LEMMA ReadOwes ==
  ASSUME LInv, down # <<>>, session.helloOk
  PROVE  /\ IsSeq(session.queue) /\ IsSeq(Tail(down)) /\ IsSeq(up)
         /\ Heard.verb # "configure" => Owes(session.queue, Tail(down) \o up)
         /\ Heard.verb = "configure" =>
              /\ Len(session.queue) > 0 /\ session.queue[1].keymap = Heard.keymap
              /\ \A p : Len(p) = Len(session.queue) - 1
                        /\ (\A k \in 1 .. (Len(session.queue) - 1) : p[k] = session.queue[k + 1])
                        => Owes(p, Tail(down) \o up)
<1>1. IsSeq(session.queue) /\ IsSeq(down) /\ IsSeq(up) /\ Owes(session.queue, down \o up)
  BY QueueIsSeq DEF LInv, IInv, Linked, Owed, Wire
<1>2. IsSeq(Tail(down)) /\ Heard = down[1]
  BY ReadFacts
<1>3. PICK q, d, u : q = session.queue /\ d = down /\ u = up
  OBVIOUS
<1>4. IsSeq(q) /\ IsSeq(d) /\ IsSeq(u) /\ Owes(q, d \o u) /\ d # <<>>
  BY <1>1, <1>3
<1>5. /\ d[1].verb # "configure" => Owes(q, Tail(d) \o u)
      /\ d[1].verb = "configure" =>
           /\ Len(q) > 0 /\ q[1].keymap = d[1].keymap
           /\ \A p : Len(p) = Len(q) - 1
                     /\ (\A k \in 1 .. (Len(q) - 1) : p[k] = q[k + 1]) =>
                         Owes(p, Tail(d) \o u)
  BY ONLY <1>4, OwesRead
<1> QED  BY <1>1, <1>2, <1>3, <1>5

LEMMA LinesAreQuiet ==
  /\ Quiet(SeatLine) /\ Quiet(SeatSettled.lines)
  /\ \A run : Quiet(Started(run))
<1>1. Quiet(<<Plain("seat")>>) /\ Quiet(<<Plain("share")>>) /\ Quiet(<<>>)
  BY PlainIs, NothingQuiet
<1>2. SeatSettled.lines = <<Plain("seat")>> \/ SeatSettled.lines = <<>>
  BY DEF SeatSettled
<1> QED  BY <1>1, <1>2 DEF SeatLine, Started

LEMMA ReadIs ==
  ASSUME LInv, down # <<>>, Heard.word # "hello", Read
  PROVE  /\ down' = Tail(down) /\ helper' = helper /\ lifted' = lifted /\ seat' = seat
         /\ link' \in [up : BOOLEAN, fresh : BOOLEAN, probe : BOOLEAN] /\ link'.up /\ ~link'.fresh
<1>1. /\ link \in [up : BOOLEAN, fresh : BOOLEAN, probe : BOOLEAN] /\ link.up /\ ~link.fresh
  BY ReadFacts DEF LInv, Linked
<1>2. link' = [link EXCEPT !.probe = FALSE]
  BY DEF Read
<1> QED  BY <1>1, <1>2 DEF Read, world

(* The session stays, and lines that are no configures are sent.            *)
LEMMA AsideKeepsLInv ==
  ASSUME LInv, down # <<>>, Heard.word # "hello", Heard.verb # "configure",
         NEW x, Quiet(x), up' = up \o x, down' = Tail(down), UNCHANGED <<helper, lifted, seat>>,
         link' \in [up : BOOLEAN, fresh : BOOLEAN, probe : BOOLEAN], link'.up, ~link'.fresh,
         IInv', session'.queue = session.queue, session'.ackedGen = session.ackedGen,
         session'.helloOk, Knows(session', helper.gen, helper.keymap, lifted)
  PROVE  LInv'
<1>1. session.helloOk
  BY ReadFacts
<1>2. /\ IsSeq(session.queue) /\ IsSeq(Tail(down)) /\ IsSeq(up)
      /\ Owes(session.queue, Tail(down) \o up)
  BY <1>1, ReadOwes
<1>3. IsSeq(up \o x) /\ Owes(session.queue, Tail(down) \o (up \o x))
  BY <1>2, OwesMore
<1>4. \A i \in 1 .. Len(session.queue) : session.queue[i].keymap \in Keymaps
  BY DEF LInv, Owed
<1> QED  BY <1>3, <1>4, ReadKeepsLInv

LEMMA NowKnows ==
  ASSUME LInv, down # <<>>, Heard.word # "hello"
  PROVE  session.helloOk /\ Knows(session, helper.gen, helper.keymap, lifted)
  BY ReadFacts DEF LInv, Dated

LEMMA HearEventKeepsLInv ==
  ASSUME LInv, HearEvent
  PROVE  LInv'
<1>1. /\ down # <<>> /\ Heard.word = "event" /\ down' = Tail(down) /\ up' = up \o SeatLine
      /\ UNCHANGED <<session, inputReady, link, helper, lifted, seat>>
  BY DEF HearEvent, Hears, world
<1>2. IInv'
  BY <1>1, Untouched DEF LInv
<1>3. link \in [up : BOOLEAN, fresh : BOOLEAN, probe : BOOLEAN] /\ link.up /\ ~link.fresh
  BY <1>1, ReadFacts DEF LInv, Linked
<1>4. Heard.verb # "configure"
  BY <1>1, ReadFacts DEF Means
<1>5. session.helloOk /\ Knows(session, helper.gen, helper.keymap, lifted)
  BY <1>1, NowKnows
<1> QED  BY <1>1, <1>2, <1>3, <1>4, <1>5, LinesAreQuiet, AsideKeepsLInv

LEMMA SomeLines ==
  ASSUME NEW u, IsSeq(u)
  PROVE  u \o <<>> = u
<1>1. PICK S : u \in Seq(S)
  BY DEF IsSeq
<1> QED  BY <1>1

LEMMA HearAsideKeepsLInv ==
  ASSUME LInv, HearSeatRefused \/ HearShare
  PROVE  LInv'
<1>1. /\ down # <<>> /\ Heard.word \in {"err seat", "ok", "err share"} /\ Read
      /\ session' = session /\ inputReady' = inputReady
  BY DEF HearSeatRefused, HearShare, Hears
<1>2. \E x : Quiet(x) /\ up' = up \o x
  BY LinesAreQuiet DEF HearSeatRefused, HearShare
<1>3. IInv'
  BY <1>1, Untouched DEF LInv
<1>4. /\ down' = Tail(down) /\ helper' = helper /\ lifted' = lifted /\ seat' = seat
      /\ link' \in [up : BOOLEAN, fresh : BOOLEAN, probe : BOOLEAN] /\ link'.up /\ ~link'.fresh
  BY <1>1, ReadIs
<1>5. Heard.verb # "configure"
  BY <1>1, ReadFacts DEF Means
<1>6. session.helloOk /\ Knows(session, helper.gen, helper.keymap, lifted)
  BY <1>1, NowKnows
<1> QED  BY <1>1, <1>2, <1>3, <1>4, <1>5, <1>6, AsideKeepsLInv

LEMMA HearCapsKeepsLInv ==
  ASSUME LInv, HearCaps
  PROVE  LInv'
<1>1. /\ down # <<>> /\ Heard.word = "caps" /\ Read
  BY DEF HearCaps, Hears
<1>2. IInv'
  BY PanelKeepsIInv DEF LInv, PanelHears
<1>3. /\ down' = Tail(down) /\ helper' = helper /\ lifted' = lifted /\ seat' = seat
      /\ link' \in [up : BOOLEAN, fresh : BOOLEAN, probe : BOOLEAN] /\ link'.up /\ ~link'.fresh
  BY <1>1, ReadIs
<1>4. Heard.verb # "configure" /\ Fits(Heard, session.ackedGen, helper.gen, helper.keymap, lifted)
  BY <1>1, ReadFacts DEF Means
<1>5. session.helloOk /\ Knows(session, helper.gen, helper.keymap, lifted)
  BY <1>1, NowKnows
<1>6. \E x : Quiet(x) /\ up' = up \o x
  <2>1. up \o <<>> = up
    BY SomeLines DEF LInv, Linked
  <2> QED  BY <2>1, LinesAreQuiet, NothingQuiet DEF HearCaps
<1>7. CASE Heard.gen # session.ackedGen
  <2>1. session' = session
    BY <1>7 DEF HearCaps
  <2> QED  BY <1>1, <1>2, <1>3, <1>4, <1>5, <1>6, <2>1, AsideKeepsLInv
<1>8. CASE Heard.gen = session.ackedGen
  <2>1. session' = capsFacts(session, Heard.gen, Heard.group, Heard.keymap)
    BY <1>8 DEF HearCaps
  <2>2. Sound(session)
    BY DEF LInv, IInv
  <2>3. Learned(session, session', Heard.keymap)
    BY <1>8, <2>1, <2>2, FactsFields
  <2>4. Knows(session', helper.gen, helper.keymap, lifted)
    <3>1. Heard.gen \in Nat /\ Heard.gen <= helper.gen
          /\ (Heard.gen = helper.gen => Heard.keymap = helper.keymap)
      BY <1>1, <1>4 DEF Fits
    <3> QED  BY <1>5, <1>8, <2>3, <3>1 DEF Knows, Learned
  <2> QED  BY <1>1, <1>2, <1>3, <1>4, <1>5, <1>6, <2>3, <2>4, AsideKeepsLInv DEF Learned
<1> QED  BY <1>7, <1>8

LEMMA HearSeatKeepsLInv ==
  ASSUME LInv, HearSeat
  PROVE  LInv'
<1>1. /\ down # <<>> /\ Heard.word \in {"ours", "theirs"} /\ Read
  BY DEF HearSeat, Hears
<1>2. IInv'
  BY PanelKeepsIInv DEF LInv, PanelHears
<1>3. /\ down' = Tail(down) /\ helper' = helper /\ lifted' = lifted /\ seat' = seat
      /\ link' \in [up : BOOLEAN, fresh : BOOLEAN, probe : BOOLEAN] /\ link'.up /\ ~link'.fresh
  BY <1>1, ReadIs
<1>4. Heard.verb # "configure" /\ Heard.keymap \in Keymaps
  BY <1>1, ReadFacts DEF Means
<1>5. session.helloOk /\ Knows(session, helper.gen, helper.keymap, lifted)
  BY <1>1, NowKnows
<1>6. PICK k, x : k = Heard.keymap /\ x = Heard.group
  OBVIOUS
<1>7. PICK o : /\ Quiet(o) /\ session' = configureSent(session, k, x)
               /\ up' = up \o o \o <<Line("configure", k, x)>> \o SeatSettled.lines
  BY <1>6, LinesAreQuiet DEF HearSeat, Ingest
<1>8. Sound(session)
  BY DEF LInv, IInv
<1>9. SameTurn(session, session')
  BY <1>7, <1>8, SentFields
<1>10. PICK e : e.keymap = k /\ session'.queue = Append(session.queue, e)
  BY <1>7, <1>8, SentFields
<1>11. PICK l : l = Line("configure", k, x) /\ l.verb = "configure" /\ l.keymap = e.keymap
  <2>1. Line("configure", k, x).verb = "configure" /\ Line("configure", k, x).keymap = k
    BY DEF Line
  <2> QED  BY <1>10, <2>1
<1>12. /\ IsSeq(session.queue) /\ IsSeq(Tail(down)) /\ IsSeq(up)
       /\ Owes(session.queue, Tail(down) \o up)
  BY <1>1, <1>4, <1>5, ReadOwes
<1>13. PICK q, d, u, p : q = session.queue /\ d = Tail(down) /\ u = up \o o /\ p = Append(q, e)
  OBVIOUS
<1>14. IsSeq(u) /\ Owes(q, d \o u)
  BY <1>7, <1>12, <1>13, OwesMore
<1>15. IsSeq(q) /\ IsSeq(d) /\ IsSeq(p)
       /\ Len(p) = Len(q) + 1 /\ Len(q) \in Nat /\ p[Len(q) + 1] = e
       /\ \A i \in 1 .. Len(q) : p[i] = q[i]
  BY <1>12, <1>13, Appended
<1>16. IsSeq(u \o <<l>>) /\ Owes(p, d \o (u \o <<l>>))
  BY <1>11, <1>13, <1>14, <1>15, OwesConfigure
<1>17. PICK v : v = u \o <<l>>
  OBVIOUS
<1>18. IsSeq(v \o SeatSettled.lines) /\ Owes(p, d \o (v \o SeatSettled.lines))
  BY <1>15, <1>16, <1>17, LinesAreQuiet, OwesMore
<1>19. up' = v \o SeatSettled.lines /\ session'.queue = p
  BY <1>7, <1>10, <1>11, <1>13, <1>17
<1>20. \A i \in 1 .. Len(p) : p[i].keymap \in Keymaps
  <2>1. \A i \in 1 .. Len(q) : q[i].keymap \in Keymaps
    BY <1>13 DEF LInv, Owed
  <2> QED  BY <1>4, <1>6, <1>10, <1>15, <2>1
<1>21. Knows(session', helper.gen, helper.keymap, lifted) /\ session'.helloOk
       /\ session'.ackedGen = session.ackedGen
  BY <1>5, <1>9 DEF SameTurn, Knows
<1> QED  BY <1>1, <1>2, <1>3, <1>13, <1>18, <1>19, <1>20, <1>21, ReadKeepsLInv

LEMMA CapsAreQuiet ==
  ASSUME NEW s, NEW n \in Nat
  PROVE  Quiet(CapsLines(missingCapGroups(s, n)))
<1> DEFINE groups == missingCapGroups(s, n)
           count == Cardinality(groups)
           lines == CapsLines(groups)
<1>1. IsFiniteSet(groups)
  <2>1. IsFiniteSet(0 .. (n - 1)) /\ IsFiniteSet({s.group})
    <3>1. PICK m : m = n - 1
      OBVIOUS
    <3>2. 0 \in Int /\ m \in Int
      BY <3>1
    <3> QED  BY <3>1, <3>2, FS_Interval, FS_Singleton
  <2>2. IsFiniteSet((0 .. (n - 1)) \cup {s.group})
    BY <2>1, FS_Union
  <2>3. groups \subseteq (0 .. (n - 1)) \cup {s.group}
    BY DEF missingCapGroups
  <2> QED  BY <2>2, <2>3, FS_Subset
<1>2. count \in Nat
  BY <1>1, FS_CardinalityType
<1> HIDE DEF groups
<1> DEFINE which(i) == CHOOSE g \in groups : Cardinality({h \in groups : h < g}) = i - 1
<1>3. lines = [i \in 1 .. count |-> Line("caps", NoKeymap, which(i))]
  BY DEF CapsLines
<1> HIDE DEF count, which, lines
<1>4. /\ DOMAIN lines = 1 .. count /\ \A i \in 1 .. count : lines[i] = Line("caps", NoKeymap, which(i))
      /\ lines = [i \in 1 .. count |-> lines[i]]
  BY <1>3
<1>5. \A i \in 1 .. count : lines[i].verb # "configure"
  BY <1>4 DEF Line
<1>6. IsSeq(lines) /\ Len(lines) = count
  <2> DEFINE S == {lines[i] : i \in 1 .. count}
  <2>1. \A i \in 1 .. count : lines[i] \in S
    OBVIOUS
  <2> HIDE DEF S
  <2>2. lines \in Seq(S) /\ Len(lines) = count
    BY <1>2, <1>4, <2>1
  <2> QED  BY <2>2 DEF IsSeq
<1> QED  BY <1>5, <1>6 DEF Quiet, lines, groups

LEMMA HearConfiguredKeepsLInv ==
  ASSUME LInv, HearConfigured
  PROVE  LInv'
<1>1. /\ down # <<>> /\ Heard.word = "configured" /\ Read
  BY DEF HearConfigured, Hears
<1>2. IInv'
  BY PanelKeepsIInv DEF LInv, PanelHears
<1>3. /\ down' = Tail(down) /\ helper' = helper /\ lifted' = lifted /\ seat' = seat
      /\ link' \in [up : BOOLEAN, fresh : BOOLEAN, probe : BOOLEAN] /\ link'.up /\ ~link'.fresh
  BY <1>1, ReadIs
<1>4. /\ Heard.verb = "configure"
      /\ Fits(Heard, session.ackedGen, helper.gen, helper.keymap, lifted)
  BY <1>1, ReadFacts DEF Means
<1>5. session.helloOk /\ Knows(session, helper.gen, helper.keymap, lifted)
  BY <1>1, NowKnows
<1>6. /\ IsSeq(session.queue) /\ IsSeq(Tail(down)) /\ IsSeq(up)
      /\ Len(session.queue) > 0 /\ session.queue[1].keymap = Heard.keymap
      /\ \A p : Len(p) = Len(session.queue) - 1
                /\ (\A k \in 1 .. (Len(session.queue) - 1) : p[k] = session.queue[k + 1])
                => Owes(p, Tail(down) \o up)
  BY <1>1, <1>4, <1>5, ReadOwes
<1>7. session' = configureAck(session, Heard.gen)
  BY DEF HearConfigured
<1>8. Sound(session)
  BY DEF LInv, IInv
<1>9. /\ session'.queue = Tail(session.queue) /\ session'.acked = session.queue[1].keymap
      /\ session'.ackedGen = Heard.gen
      /\ session'.helloOk = session.helloOk /\ session'.caps = session.caps
  BY <1>6, <1>7, <1>8, AckFields
<1>10. /\ IsSeq(Tail(session.queue)) /\ Len(session.queue) \in Nat \ {0}
       /\ Len(Tail(session.queue)) = Len(session.queue) - 1
       /\ \A i \in 1 .. (Len(session.queue) - 1) : Tail(session.queue)[i] = session.queue[i + 1]
  <2>1. session.queue # <<>>
    BY <1>6, Short
  <2> QED  BY <1>6, <2>1, Tailed
<1>11. Owes(Tail(session.queue), Tail(down) \o up)
  BY <1>6, <1>10
<1>12. \A i \in 1 .. Len(session.queue) : session.queue[i].keymap \in Keymaps
  BY DEF LInv, Owed
<1>13. \A i \in 1 .. Len(session'.queue) : session'.queue[i].keymap \in Keymaps
  BY <1>9, <1>10, <1>12
<1>14. PICK x : Quiet(x) /\ up' = up \o x
  <2>1. session'.acked \in Keymaps
    BY <1>9, <1>10, <1>12
  <2>2. ListedGroups[session'.acked] \in Nat
    BY <2>1, SessionAssumption
  <2>3. Quiet(CapsLines(missingCapGroups(session', ListedGroups[session'.acked])))
    BY <2>2, CapsAreQuiet
  <2>4. \/ up' = up \o CapsLines(missingCapGroups(session', ListedGroups[session'.acked]))
        \/ up' = up \o <<>>
    BY DEF HearConfigured
  <2> QED  BY <2>3, <2>4, NothingQuiet
<1>15. IsSeq(up') /\ Owes(session'.queue, Tail(down) \o up')
  BY <1>6, <1>9, <1>10, <1>11, <1>14, OwesMore
<1>16. Knows(session', helper.gen, helper.keymap, lifted)
  <2>1. /\ Heard.gen \in Nat /\ session.ackedGen <= Heard.gen /\ Heard.gen <= helper.gen
        /\ (lifted => Heard.gen < helper.gen)
        /\ (Heard.gen = helper.gen => Heard.keymap = helper.keymap) /\ Heard.gen # 0
    BY <1>1, <1>4 DEF Fits
  <2>2. /\ session'.ackedGen = Heard.gen /\ session'.acked = Heard.keymap
        /\ session'.caps = session.caps
    BY <1>6, <1>9
  <2>3. /\ session.caps.gen \in Nat /\ session.caps.gen <= helper.gen
        /\ session.caps.gen = helper.gen =>
              \A y \in DOMAIN session.caps.byGroup : session.caps.byGroup[y] = helper.keymap
    BY <1>5 DEF Knows
  <2> QED  BY <2>1, <2>2, <2>3 DEF Knows
<1>17. session'.helloOk
  BY <1>5, <1>9
<1> QED  BY <1>1, <1>2, <1>3, <1>9, <1>13, <1>15, <1>16, <1>17, ReadKeepsLInv

(* A refused configure is settled, the ones behind it compared again.       *)
LEMMA RefusedKeepsLInv ==
  ASSUME LInv, IInv', down # <<>>, Heard.word # "hello", Heard.verb = "configure", Read,
         session' = configureFailed(session), up' = up
  PROVE  LInv'
<1>1. /\ down' = Tail(down) /\ helper' = helper /\ lifted' = lifted /\ seat' = seat
      /\ link' \in [up : BOOLEAN, fresh : BOOLEAN, probe : BOOLEAN] /\ link'.up /\ ~link'.fresh
  BY ReadIs
<1>2. session.helloOk /\ Knows(session, helper.gen, helper.keymap, lifted)
  BY NowKnows
<1>3. /\ IsSeq(session.queue) /\ IsSeq(Tail(down)) /\ IsSeq(up)
      /\ Len(session.queue) > 0 /\ session.queue[1].keymap = Heard.keymap
      /\ \A p : Len(p) = Len(session.queue) - 1
                /\ (\A k \in 1 .. (Len(session.queue) - 1) : p[k] = session.queue[k + 1])
                => Owes(p, Tail(down) \o up)
  BY <1>2, ReadOwes
<1>4. Sound(session) /\ Sound(session')
  BY DEF LInv, IInv
<1>5. /\ SameTurn(session, session') /\ Len(session'.queue) = Len(session.queue) - 1
      /\ \A i \in 1 .. (Len(session.queue) - 1) :
             session'.queue[i].keymap = session.queue[i + 1].keymap
  BY <1>3, <1>4, FailedFields
<1>6. /\ Len(session.queue) \in Nat \ {0} /\ IsSeq(Tail(session.queue))
      /\ Len(Tail(session.queue)) = Len(session.queue) - 1
      /\ \A i \in 1 .. (Len(session.queue) - 1) : Tail(session.queue)[i] = session.queue[i + 1]
  <2>1. session.queue # <<>>
    BY <1>3, Short
  <2> QED  BY <1>3, <2>1, Tailed
<1>7. Owes(Tail(session.queue), Tail(down) \o up)
  BY <1>3, <1>6
<1>8. Owes(session'.queue, Tail(down) \o up)
  <2>1. PICK q, w, p : q = Tail(session.queue) /\ w = Tail(down) \o up /\ p = session'.queue
    OBVIOUS
  <2>2. /\ Owes(q, w) /\ Len(p) = Len(q)
        /\ \A k \in 1 .. Len(q) : p[k].keymap = q[k].keymap
    BY <1>5, <1>6, <1>7, <2>1
  <2>3. Owes(p, w)
    BY ONLY <2>2, OwesAlike
  <2> QED  BY <2>1, <2>3
<1>9. \A i \in 1 .. Len(session'.queue) : session'.queue[i].keymap \in Keymaps
  <2>1. \A i \in 1 .. Len(session.queue) : session.queue[i].keymap \in Keymaps
    BY DEF LInv, Owed
  <2> QED  BY <1>5, <1>6, <2>1
<1>10. session'.helloOk /\ session'.ackedGen = session.ackedGen
       /\ Knows(session', helper.gen, helper.keymap, lifted)
  BY <1>2, <1>5 DEF SameTurn, Knows
<1> QED  BY <1>1, <1>3, <1>8, <1>9, <1>10, ReadKeepsLInv

LEMMA HearRefusedKeepsLInv ==
  ASSUME LInv, HearBadGroup \/ HearCannotConfigure
  PROVE  LInv'
<1>1. /\ down # <<>> /\ Heard.word \in {"bad group", "cannot configure"} /\ Read /\ up' = up
  BY DEF HearBadGroup, HearCannotConfigure, Hears
<1>2. IInv'
  BY PanelKeepsIInv DEF LInv, PanelHears
<1>3. CASE Heard.verb = "configure"
  <2>1. session' = configureFailed(session)
    BY <1>3 DEF HearBadGroup, HearCannotConfigure, BadGroupSettles
  <2> QED  BY <1>1, <1>2, <1>3, <2>1, RefusedKeepsLInv
<1>4. CASE Heard.verb # "configure"
  <2>1. Heard.word # "cannot configure"
    BY <1>1, <1>4, ReadFacts DEF Means
  <2>2. session' = session
    BY <1>4, <2>1 DEF HearBadGroup, HearCannotConfigure, Hears
  <2>3. /\ down' = Tail(down) /\ helper' = helper /\ lifted' = lifted /\ seat' = seat
        /\ link' \in [up : BOOLEAN, fresh : BOOLEAN, probe : BOOLEAN] /\ link'.up /\ ~link'.fresh
    BY <1>1, ReadIs
  <2>4. session.helloOk /\ Knows(session, helper.gen, helper.keymap, lifted)
    BY <1>1, NowKnows
  <2>5. up' = up \o <<>>
    BY <1>1, SomeLines DEF LInv, Linked
  <2> QED  BY <1>1, <1>2, <1>4, <2>2, <2>3, <2>4, <2>5, NothingQuiet, AsideKeepsLInv
<1> QED  BY <1>3, <1>4

(* An empty queue is owed by a wire without configures.                     *)
LEMMA OwesNothing ==
  ASSUME NEW w, Quiet(w)
  PROVE  Owes(<<>>, w)
<1>1. PICK q : q = <<>> /\ Len(q) = 0
  BY Short
<1>2. PICK c : c = [k \in 1 .. 0 |-> k]
  OBVIOUS
<1>3. c \in [1 .. Len(q) -> 1 .. Len(w)]
  <2>1. 1 .. 0 = {}
    OBVIOUS
  <2> QED  BY <1>1, <1>2, <2>1
<1>4. \A k : k \notin 1 .. Len(q)
  BY <1>1
<1>5. Matches(c, q, w)
  BY <1>3, <1>4 DEF Matches, Quiet
<1> QED  BY <1>1, <1>5 DEF Owes

LEMMA HearHelloKeepsLInv ==
  ASSUME LInv, HearHello
  PROVE  LInv'
<1>0. IInv /\ Linked /\ Owed /\ Dated /\ IsSeq(up) /\ IsSeq(down)
  BY DEF LInv, Linked
<1>1. /\ down # <<>> /\ Heard.word = "hello" /\ down' = Tail(down)
      /\ link' = [link EXCEPT !.probe = FALSE, !.fresh = FALSE]
      /\ session' = helloAcked(session, link.fresh)
      /\ up' = up \o (IF link.fresh THEN <<Plain("events")>> ELSE <<>>) \o SeatLine
      /\ UNCHANGED <<helper, lifted, seat>>
  BY DEF HearHello, Hears, world
<1>2. IInv'
  BY PanelKeepsIInv DEF LInv, PanelHears
<1>3. /\ IsSeq(Tail(down)) /\ Heard = down[1] /\ Means(Heard) /\ link.up
  BY <1>1, ReadFacts
<1>4. link' \in [up : BOOLEAN, fresh : BOOLEAN, probe : BOOLEAN] /\ link'.up /\ ~link'.fresh
  <2>1. link \in [up : BOOLEAN, fresh : BOOLEAN, probe : BOOLEAN]
    BY <1>0 DEF Linked
  <2> QED  BY <1>1, <1>3, <2>1
<1>5. PICK x : Quiet(x) /\ x = IF link.fresh THEN <<Plain("events")>> ELSE <<>>
  BY PlainIs, NothingQuiet
<1>6. up' = (up \o x) \o SeatLine /\ Quiet(SeatLine)
  BY <1>1, <1>5, LinesAreQuiet
<1>7. ASSUME NEW q, IsSeq(q), Owes(q, Tail(down) \o up)
      PROVE  IsSeq(up') /\ Owes(q, Tail(down) \o up')
  <2>1. IsSeq(up \o x) /\ Owes(q, Tail(down) \o (up \o x))
    BY <1>0, <1>3, <1>5, <1>7, OwesMore
  <2>2. PICK u : u = up \o x
    OBVIOUS
  <2>3. IsSeq(u \o SeatLine) /\ Owes(q, Tail(down) \o (u \o SeatLine))
    BY <1>3, <1>6, <1>7, <2>1, <2>2, OwesMore
  <2> QED  BY <1>6, <2>2, <2>3
<1>8. /\ session'.helloOk = TRUE
      /\ IF link.fresh
         THEN /\ session'.queue = <<>> /\ session'.acked = NoKeymap /\ session'.ackedGen = 0
              /\ session'.caps = NoFacts
         ELSE /\ session'.queue = session.queue /\ session'.acked = session.acked
              /\ session'.ackedGen = session.ackedGen /\ session'.caps = session.caps
  BY <1>0, <1>1, HelloFields DEF IInv
<1>9. CASE link.fresh
  <2>1. Len(Tail(down)) = 0 /\ up = <<>>
    <3>1. Len(Wire) = 1
      BY <1>0, <1>9 DEF Linked
    <3>2. Len(Wire) = Len(down) + Len(up) /\ Len(up) \in Nat /\ Len(down) \in Nat \ {0}
          /\ Len(Tail(down)) = Len(down) - 1
      BY <1>0, <1>1, WireIs, Tailed DEF Wire
    <3>3. Len(up) = 0 /\ Len(Tail(down)) = 0
      BY <3>1, <3>2
    <3> QED  BY <1>0, <3>3, Empty
  <2>2. Quiet(Tail(down) \o up)
    <3>1. Tail(down) = <<>> /\ IsSeq(<<>>)
      BY <1>3, <2>1, Empty, Short
    <3>2. Tail(down) \o up = <<>>
      BY <2>1, <3>1, SomeLines
    <3> QED  BY <3>2, NothingQuiet
  <2>3. Owes(<<>>, Tail(down) \o up) /\ IsSeq(<<>>)
    BY <2>2, OwesNothing, Short
  <2>4. IsSeq(up') /\ Owes(<<>>, Tail(down) \o up')
    BY <1>7, <2>3
  <2>5. /\ session'.queue = <<>> /\ session'.acked = NoKeymap /\ session'.ackedGen = 0
        /\ session'.caps = NoFacts /\ NoFacts.gen = 0
    BY <1>8, <1>9 DEF NoFacts
  <2>6. helper.gen \in Nat \ {0}
    BY <1>0 DEF Dated
  <2>7. Knows(session', helper.gen, helper.keymap, lifted)
    BY <2>5, <2>6 DEF Knows
  <2>8. \A i \in 1 .. Len(session'.queue) : session'.queue[i].keymap \in Keymaps
    BY <2>5, Short
  <2>9. session'.helloOk
    BY <1>8
  <2> QED  BY <1>1, <1>2, <1>4, <2>1, <2>4, <2>5, <2>7, <2>8, <2>9, ReadKeepsLInv
<1>10. CASE ~link.fresh
  <2>1. session.helloOk
    BY <1>0, <1>3, <1>10 DEF Linked
  <2>2. Heard.verb # "configure"
    BY <1>1, <1>3 DEF Means
  <2>3. IsSeq(session.queue) /\ Owes(session.queue, Tail(down) \o up)
    BY <1>1, <2>1, <2>2, ReadOwes
  <2>4. IsSeq(up') /\ Owes(session.queue, Tail(down) \o up')
    BY <1>7, <2>3
  <2>5. Knows(session, helper.gen, helper.keymap, lifted)
    BY <1>0, <2>1 DEF Dated
  <2>6. Knows(session', helper.gen, helper.keymap, lifted)
    BY <1>8, <1>10, <2>5 DEF Knows
  <2>7. \A i \in 1 .. Len(session.queue) : session.queue[i].keymap \in Keymaps
    BY <1>0 DEF Owed
  <2>8. session'.helloOk
    BY <1>8
  <2> QED  BY <1>1, <1>2, <1>4, <1>8, <1>10, <2>4, <2>6, <2>7, <2>8, ReadKeepsLInv
<1> QED  BY <1>9, <1>10

LEMMA NextKeepsLInv ==
  ASSUME LInv, [Next]_vars
  PROVE  LInv'
<1>1. CASE PanelHears
  BY <1>1, HearHelloKeepsLInv, HearEventKeepsLInv, HearSeatKeepsLInv, HearAsideKeepsLInv,
     HearConfiguredKeepsLInv, HearCapsKeepsLInv, HearRefusedKeepsLInv DEF PanelHears
<1>2. CASE UNCHANGED vars
  <2>1. /\ session' = session /\ inputReady' = inputReady /\ retry' = retry /\ link' = link
        /\ up' = up /\ down' = down /\ helper' = helper /\ lifted' = lifted /\ seat' = seat
    BY <1>2 DEF vars, panel, world
  <2>2. IInv'
    BY <2>1, Untouched DEF LInv
  <2> QED  BY <2>1, <2>2 DEF LInv, Linked, Owed, Dated, Wire
<1> QED  BY <1>1, <1>2, WorldKeepsLInv, OtherClientKeepsLInv, HelperKeepsLInv,
            DropKeepsLInv, ConnectKeepsLInv, TickKeepsLInv, RetryKeepsLInv DEF Next

(* The link and the session keep what the answers are judged by: each entry *)
(* of the queue has its configure on the wire, generations only rise from   *)
(* one answer to the next, and what the panel has acknowledged and drawn of *)
(* the helper's generation is of the helper's keymap.                       *)
THEOREM LinkIsKept == Spec => []LInv
<1>1. Init => LInv
  BY InitIsLInv
<1>2. LInv /\ [Next]_vars => LInv'
  BY NextKeepsLInv
<1> QED  BY <1>1, <1>2, PTL DEF Spec

-----------------------------------------------------------------------------
(* What follows for the drains and for the gate.                            *)

(* A set of numbers has a least one: the induction over the queue below is  *)
(* the search for the first entry that would break it.                      *)
LEMMA Least ==
  ASSUME NEW T \in SUBSET Nat, T # {}
  PROVE  \E x \in T : \A y \in T : x <= y
<1> DEFINE R == OpToRel(<, Nat)
<1>1. IsWellFoundedOn(R, Nat)
  BY NatLessThanWellFounded
<1>2. \A x, y \in Nat : x < y => <<x, y>> \in R
  BY DEF OpToRel
<1> HIDE DEF R
<1>3. PICK x \in T : \A y \in T : ~(<<y, x>> \in R)
  BY <1>1, WFMin
<1>4. ASSUME NEW y \in T  PROVE x <= y
  <2>1. x \in Nat /\ y \in Nat
    OBVIOUS
  <2>2. ~(y < x)
    BY <1>2, <1>3, <2>1
  <2> QED  BY <2>1, <2>2
<1> QED  BY <1>4

(* A queue in which nothing is to change the keymap asks for the one that   *)
(* is installed, again and again.                                           *)
LEMMA SteadyQueue ==
  ASSUME NEW q, NEW a, IsSeq(q), FlagsHold(q, a), \A i \in 1 .. Len(q) : ~q[i].changed
  PROVE  \A i \in 1 .. Len(q) : q[i].keymap = a
<1> DEFINE T == {i \in 1 .. Len(q) : q[i].keymap # a}
<1>1. ASSUME T # {}  PROVE FALSE
  <2>1. T \in SUBSET Nat
    OBVIOUS
  <2> HIDE DEF T
  <2>2. PICK x \in T : \A y \in T : x <= y
    BY <1>1, <2>1, Least
  <2> USE DEF T
  <2>3. x \in 1 .. Len(q) /\ q[x].keymap # a /\ Len(q) \in Nat
    BY Empty
  <2>4. q[x].keymap = Under(q, a, x)
    BY <2>3 DEF FlagsHold
  <2>5. CASE x = 1
    BY <2>3, <2>4, <2>5 DEF Under
  <2>6. CASE x # 1
    <3>1. x - 1 \in 1 .. Len(q) /\ ~(x <= x - 1)
      BY <2>3, <2>6
    <3>2. x - 1 \notin T
      BY <2>2, <3>1
    <3>3. q[x - 1].keymap = a
      BY <3>1, <3>2
    <3> QED  BY <2>3, <2>4, <2>6, <3>3 DEF Under
  <2> QED  BY <2>5, <2>6
<1> QED  BY <1>1

LEMMA DrainIsForeseen ==
  ASSUME LInv
  PROVE  DrainsAreForeseen
<1> SUFFICES ASSUME down # <<>>, Heard.word = "configured", Heard.lifted
             PROVE  Drained(session, Heard.gen)
  BY DEF DrainsAreForeseen, Hears
<1>1. /\ Heard.verb = "configure" /\ session.helloOk
      /\ Fits(Heard, session.ackedGen, helper.gen, helper.keymap, lifted)
  BY ReadFacts DEF Means
<1>2. Knows(session, helper.gen, helper.keymap, lifted)
  BY NowKnows
<1>3. session.ackedGen \in Nat /\ Heard.gen \in Nat /\ session.ackedGen < Heard.gen
  BY <1>1, <1>2 DEF Fits, Knows
<1>4. CASE session.ackedGen # 0
  BY <1>3, <1>4 DEF Drained
<1>5. CASE session.ackedGen = 0
  <2>1. session.acked = NoKeymap
    BY <1>2, <1>5 DEF Knows
  <2>2. IsSeq(session.queue) /\ Len(session.queue) \in Nat /\ Len(session.queue) > 0
    BY <1>1, ReadOwes, Empty
  <2>3. 1 \in 1 .. Len(session.queue) /\ Head(session.queue) = session.queue[1]
    BY <2>2, Short, Tailed
  <2>4. session.queue[1].keymap # session.acked
    BY <2>1, <2>3, NoKeymapAssumption DEF LInv, Owed
  <2>5. session.queue[1].changed
    BY <2>3, <2>4 DEF LInv, IInv, Sound, FlagsHold, Under
  <2> QED  BY <2>3, <2>5 DEF Drained
<1> QED  BY <1>4, <1>5

(* Whenever keys the panel held were lifted, by a configure of its own or   *)
(* before it by another client's, the answer that follows is judged a drain *)
(* and what is believed held is forgotten (settleConfigure,                 *)
(* HelperReplies.js), whatever was refused, repaired or dropped before.     *)
THEOREM NoDrainIsMissed == Spec => []DrainsAreForeseen
  BY LinkIsKept, DrainIsForeseen, PTL

LEMMA GateAnswers ==
  ASSUME LInv
  PROVE  GateAnswersTheKeymap
<1> SUFFICES ASSUME inputReady, helper.gen = session.ackedGen
             PROVE  /\ session.caps.byGroup[session.group] = helper.keymap
                    /\ \A i \in DOMAIN up : up[i].verb = "configure" => up[i].keymap = helper.keymap
  BY DEF GateAnswersTheKeymap
<1>0. IInv /\ Linked /\ Owed /\ Dated /\ IsSeq(up) /\ IsSeq(down)
  BY DEF LInv, Linked
<1>1. typingReady(session)
  BY <1>0 DEF IInv, GateIsHonest
<1>2. /\ session.helloOk /\ session.caps.gen = session.ackedGen
      /\ session.group \in DOMAIN session.caps.byGroup
      /\ \A i \in DOMAIN session.queue : ~session.queue[i].changed
  BY <1>1 DEF typingReady, hasDrainAhead, capsCurrent
<1>3. Knows(session, helper.gen, helper.keymap, lifted)
  BY <1>0, <1>2 DEF Dated
<1>4. session.caps.byGroup[session.group] = helper.keymap
  BY <1>2, <1>3 DEF Knows
<1>5. ASSUME NEW i \in DOMAIN up, up[i].verb = "configure"
      PROVE  up[i].keymap = helper.keymap
  <2>1. IsSeq(session.queue)
    BY <1>0, QueueIsSeq DEF IInv
  <2>2. \A k \in 1 .. Len(session.queue) : session.queue[k].keymap = helper.keymap
    <3>1. DOMAIN session.queue = 1 .. Len(session.queue)
      BY <2>1 DEF IsSeq
    <3>2. FlagsHold(session.queue, session.acked)
      BY <1>0 DEF IInv, Sound
    <3>3. session.acked = helper.keymap
      BY <1>3 DEF Knows
    <3> QED  BY <1>2, <2>1, <3>1, <3>2, <3>3, SteadyQueue
  <2>3. /\ Len(Wire) = Len(down) + Len(up) /\ Len(down) \in Nat /\ Len(up) \in Nat
        /\ \A j \in 1 .. (Len(down) + Len(up)) :
              Wire[j] = IF j <= Len(down) THEN down[j] ELSE up[j - Len(down)]
    BY <1>0, WireIs DEF Wire
  <2>4. i \in 1 .. Len(up)
    BY <1>0 DEF IsSeq
  <2>5. Len(down) + i \in 1 .. Len(Wire) /\ Wire[Len(down) + i] = up[i]
    <3>1. /\ Len(down) + i \in 1 .. (Len(down) + Len(up)) /\ ~(Len(down) + i <= Len(down))
          /\ (Len(down) + i) - Len(down) = i
      BY <2>3, <2>4
    <3> QED  BY <2>3, <3>1
  <2>6. PICK c : Matches(c, session.queue, Wire)
    BY <1>0, <1>2 DEF Owed, Owes
  <2>7. PICK k \in 1 .. Len(session.queue) : c[k] = Len(down) + i
    BY <1>5, <2>5, <2>6 DEF Matches
  <2>8. Wire[c[k]].keymap = session.queue[k].keymap
    BY <2>6 DEF Matches
  <2> QED  BY <2>2, <2>5, <2>7, <2>8
<1> QED  BY <1>4, <1>5

(* While the gate is open, the keycaps drawn are those of the keymap the    *)
(* helper types by, and no configure on its way will change it ahead of a   *)
(* key pressed now (applyReady, HelperReplies.js; sendConfigure,            *)
(* Keyboard.qml), unless another client has installed one behind the panel. *)
THEOREM GateAnswersTheHelper == Spec => []GateAnswersTheKeymap
  BY LinkIsKept, GateAnswers, PTL

===============================================================================
