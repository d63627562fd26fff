-------------------------- MODULE PasteChord_proofs --------------------------
(***************************************************************************)
(* One verdict per paste, for every bound of PasteChord, whether or not    *)
(* Qt.callLater is prompt; and, where it is, that no key is mixed with     *)
(* another's modifiers, that a quiet lane holds what the panel shows, and  *)
(* that a success was pasted.  A configure may be answered at any moment,  *)
(* between two ticks of the pacer too: the key of a chord that goes on     *)
(* across it is the one exception, and the proofs show it is the only one. *)
(*                                                                         *)
(* OneVerdict is not inductive: that a reply, the guard or a lost          *)
(* connection finds the paste still unanswered follows from where the      *)
(* callback is kept.  It is in the ledger exactly while the flow awaits,   *)
(* it is then the callback of the last paste, and the pacer has it exactly *)
(* while the flow is paced.                                                *)
(*                                                                         *)
(* The other three look ahead: a line is planned against what the panel    *)
(* believes and runs much later.  Since a connection runs its lines in the *)
(* order they were written, what the live one will hold at the end of its  *)
(* queue (Rest) can be computed now; the invariant says that this is what  *)
(* the panel shows, and that every press in the queue will find its own    *)
(* modifiers, unless its paste heard of a keymap change (drained).  While  *)
(* such a chord goes on nothing is locked, so that an abort and the lines  *)
(* left to send leave nothing held.  A press can then be followed from the *)
(* queue to the answer that pops its slot (Tracked).                       *)
(***************************************************************************)
EXTENDS PasteChord, TLAPS

(* The ledger keeps its four fields, whatever is done to it. *)
LedgerShape(ledger) ==
    ledger = [queue |-> ledger.queue, done  |-> ledger.done,
              from  |-> ledger.from,  error |-> ledger.error]

(* Who holds the callback of the last paste. *)
CallbackKept == acks.done = IF flow = "awaiting" THEN pastes ELSE NoChord

IInv ==
    /\ LedgerShape(acks)
    /\ pastes \in 0..MaxPastes
    /\ flow \in {"idle", "paced", "awaiting"}
    /\ flow # "idle" => pastes # 0
    /\ verdict \in [Pastes -> Said]
    /\ CallbackKept
    /\ OneVerdict

-----------------------------------------------------------------------------
(* Writing, starting and arming leave the ledger a ledger; only arming names
   a callback, and only the pop of a final slot forgets one. *)
LEMMA SentKeeps ==
    ASSUME NEW ledger, NEW lines, LedgerShape(ledger)
    PROVE  LedgerShape(Sent(ledger, lines)) /\ Sent(ledger, lines).done = ledger.done
  BY DEF LedgerShape, Sent

LEMMA StartKeeps ==
    ASSUME NEW ledger, LedgerShape(ledger)
    PROVE  LedgerShape(ChordStart(ledger)) /\ ChordStart(ledger).done = ledger.done
  BY DEF LedgerShape, ChordStart

LEMMA ArmedNames ==
    ASSUME NEW ledger, NEW paste, LedgerShape(ledger)
    PROVE  LedgerShape(ChordArmed(ledger, paste)) /\ ChordArmed(ledger, paste).done = paste
  BY DEF LedgerShape, ChordArmed

LEMMA PopKeeps ==
    ASSUME NEW ledger, NEW word, LedgerShape(ledger)
    PROVE  /\ LedgerShape(ReplyReceived(ledger, word))
           /\ ReplyReceived(ledger, word).done
                = IF Settles(ledger) THEN NoChord ELSE ledger.done
  BY DEF LedgerShape, ReplyReceived, Settles

LEMMA InitialShape == LedgerShape(Initial) /\ Initial.done = NoChord
  BY DEF LedgerShape, Initial

(* A step that tells a live paste, and leaves it idle, tells it once. *)
LEMMA TellingKeeps ==
    ASSUME IInv, NEW word \in {"ok", "failed", "timedOut"}, flow # "idle",
           LedgerShape(acks'), acks'.done = NoChord,
           flow' = "idle", pastes' = pastes, verdict' = Told(pastes, word)
    PROVE  IInv'
  <1>1. pastes \in Pastes
    BY PasteAssumption DEF IInv, Pastes
  <1>2. verdict[pastes] = "none"
    BY <1>1 DEF IInv, OneVerdict
  <1>3. verdict' = [verdict EXCEPT ![pastes] = word]
    BY <1>2 DEF Told
  <1>4. verdict' \in [Pastes -> Said]
    BY <1>3 DEF IInv, Said
  <1>5. OneVerdict'
    BY <1>1, <1>3, PasteAssumption DEF IInv, OneVerdict, Pastes
  <1> QED
    BY <1>4, <1>5 DEF IInv, CallbackKept, NoChord

(* A step that tells nobody, starts nothing and ends nothing. *)
LEMMA SilenceKeeps ==
    ASSUME IInv, LedgerShape(acks'), acks'.done = acks.done,
           flow' = flow, pastes' = pastes, verdict' = verdict
    PROVE  IInv'
  BY DEF IInv, CallbackKept, OneVerdict

(* An abort, or none: the lines it writes do not matter. *)
LEMMA AbortingKeeps ==
    ASSUME IInv, NEW lines, Emit(acks, lines), Aborted, pastes' = pastes
    PROVE  IInv'
  <1>1. LedgerShape(acks') /\ acks'.done = acks.done
    BY SentKeeps DEF Emit, IInv
  <1>2. CASE flow = "paced"
    <2>1. acks'.done = NoChord
      BY <1>1, <1>2 DEF IInv, CallbackKept
    <2>2. flow' = "idle" /\ verdict' = Told(pastes, "failed")
      BY <1>2 DEF Aborted
    <2> QED
      BY <1>1, <1>2, <2>1, <2>2, TellingKeeps
  <1>3. CASE flow # "paced"
    BY <1>1, <1>3, SilenceKeeps DEF Aborted
  <1> QED
    BY <1>2, <1>3

(* A connection lost, reported or not: an armed chord hears of it. *)
LEMMA LosingKeeps ==
    ASSUME IInv, ConnectionLost, pastes' = pastes
    PROVE  IInv'
  <1>1. LedgerShape(acks') /\ acks'.done = NoChord
    BY InitialShape DEF ConnectionLost
  <1>2. CASE acks.done # NoChord
    <2>1. flow = "awaiting" /\ acks.done = pastes
      BY <1>2 DEF IInv, CallbackKept
    <2>2. flow' = "idle" /\ verdict' = Told(pastes, "timedOut")
      BY <1>2, <2>1 DEF ConnectionLost
    <2> QED
      BY <1>1, <2>1, <2>2, TellingKeeps
  <1>3. CASE acks.done = NoChord
    BY <1>1, <1>3, SilenceKeeps DEF ConnectionLost
  <1> QED
    BY <1>2, <1>3

-----------------------------------------------------------------------------
LEMMA InitIInv == ASSUME Init PROVE IInv
  <1>1. verdict = [p \in Pastes |-> "none"] /\ pastes = 0 /\ flow = "idle"
    BY DEF Init
  <1>2. OneVerdict
    BY <1>1, PasteAssumption DEF OneVerdict, Pastes
  <1> QED
    BY <1>1, <1>2, InitialShape, PasteAssumption
    DEF Init, IInv, CallbackKept, Said

(* A new paste: bounced, sent at once, or handed to the pacer. *)
LEMMA PasteKeeps ==
    ASSUME IInv, Paste
    PROVE  IInv'
  <1>1. /\ flow = "idle" /\ pastes' = pastes + 1 /\ pastes' \in Pastes
        /\ acks.done = NoChord
    BY PasteAssumption DEF Paste, PasteRefused, PasteAtOnce, PastePaced, Clicked,
                           IInv, CallbackKept, Pastes
  <1>2. verdict[pastes'] = "none"
    BY <1>1, PasteAssumption DEF IInv, OneVerdict, Pastes
  <1>3. CASE PasteRefused
    <2>1. LedgerShape(acks') /\ acks'.done = NoChord /\ flow' = flow
      BY <1>1, <1>3, StartKeeps DEF PasteRefused, IInv
    <2>2. verdict' = [verdict EXCEPT ![pastes'] = "failed"]
      BY <1>2, <1>3 DEF PasteRefused, Told
    <2>3. verdict' \in [Pastes -> Said]
      BY <2>2 DEF IInv, Said
    <2>4. OneVerdict'
      BY <1>1, <2>1, <2>2, PasteAssumption DEF IInv, OneVerdict, Pastes
    <2> QED
      BY <1>1, <2>1, <2>3, <2>4, PasteAssumption DEF IInv, CallbackKept, Pastes
  <1>4. ASSUME NEW kind \in Kinds, PasteAtOnce(kind) PROVE IInv'
    <2>1. flow' = "awaiting" /\ verdict' = verdict
      BY <1>4 DEF PasteAtOnce
    <2>2. LedgerShape(acks') /\ acks'.done = pastes'
      <3>1. LedgerShape(ChordStart(acks))
        BY StartKeeps DEF IInv
      <3>2. LedgerShape(Sent(ChordStart(acks), ChordLines(kind, pastes')))
        BY <3>1, SentKeeps
      <3> QED
        BY <1>4, <3>2, ArmedNames DEF PasteAtOnce
    <2>3. OneVerdict'
      BY <1>1, <1>2, <2>1, PasteAssumption DEF IInv, OneVerdict, Pastes
    <2> QED
      BY <1>1, <2>1, <2>2, <2>3, PasteAssumption DEF IInv, CallbackKept, Pastes
  <1>5. ASSUME NEW kind \in Kinds, PastePaced(kind) PROVE IInv'
    <2>1. flow' = "paced" /\ verdict' = verdict
      BY <1>5 DEF PastePaced
    <2>2. LedgerShape(acks') /\ acks'.done = NoChord
      BY <1>1, <1>5, StartKeeps DEF PastePaced, IInv
    <2>3. OneVerdict'
      BY <1>1, <1>2, <2>1, PasteAssumption DEF IInv, OneVerdict, Pastes
    <2> QED
      BY <1>1, <2>1, <2>2, <2>3, PasteAssumption DEF IInv, CallbackKept, Pastes
  <1> QED
    BY <1>3, <1>4, <1>5 DEF Paste

(* The pacer: the next line, the last line, or an abort. *)
LEMMA TickKeeps ==
    ASSUME IInv, Tick
    PROVE  IInv'
  <1>1. flow = "paced" /\ pastes' = pastes
    BY DEF Tick, counts
  <1>2. CASE ~AssumptionsHold
    BY <1>1, <1>2, AbortingKeeps DEF Tick
  <1>3. CASE AssumptionsHold
    <2> DEFINE next == chord.lines[chord.sent + 1]
               sent == Sent(acks, <<next>>)
    <2>1. LedgerShape(sent) /\ sent.done = acks.done
      BY SentKeeps DEF IInv
    <2>2. LedgerShape(ChordArmed(sent, pastes)) /\ ChordArmed(sent, pastes).done = pastes
      BY <2>1, ArmedNames
    <2>3. CASE chord.sent + 1 = Len(chord.lines)
      <3>1. acks' = ChordArmed(sent, pastes) /\ flow' = "awaiting" /\ verdict' = verdict
        BY <1>3, <2>3 DEF Tick
      <3>2. OneVerdict'
        BY <1>1, <3>1 DEF IInv, OneVerdict
      <3> HIDE DEF sent
      <3> QED
        BY <1>1, <2>2, <3>1, <3>2 DEF IInv, CallbackKept
    <2>4. CASE chord.sent + 1 # Len(chord.lines)
      <3>1. acks' = sent /\ flow' = "paced" /\ verdict' = verdict
        BY <1>3, <2>4 DEF Tick
      <3> HIDE DEF sent
      <3> QED
        BY <1>1, <2>1, <3>1, SilenceKeeps
    <2> QED
      BY <2>3, <2>4
  <1> QED
    BY <1>2, <1>3

(* A reply: the pop of a final slot is the one verdict, whatever it routes. *)
LEMMA ReplyKeeps ==
    ASSUME IInv, Reply
    PROVE  IInv'
  <1> DEFINE word == Head(replies).word
             after == ReplyReceived(acks, word)
  <1>1. LedgerShape(after) /\ after.done = IF Settles(acks) THEN NoChord ELSE acks.done
    BY PopKeeps DEF IInv
  <1>2. \E lines : acks' = Sent(after, lines)
    BY DEF Reply, Route, HelloAcked, Configured, Refused, Emit
  <1>3. LedgerShape(acks') /\ acks'.done = after.done
    <2> HIDE DEF after
    <2> QED
      BY <1>1, <1>2, SentKeeps
  <1>4. pastes' = pastes
    BY DEF Reply, counts
  <1>5. CASE Settles(acks)
    <2>1. flow = "awaiting" /\ acks.done = pastes
      BY <1>5 DEF Settles, IInv, CallbackKept
    <2>2. flow' = "idle" /\ \E w \in {"ok", "failed"} : verdict' = Told(pastes, w)
      BY <1>5, <2>1 DEF Reply
    <2> QED
      BY <1>1, <1>3, <1>4, <1>5, <2>1, <2>2, TellingKeeps
  <1>6. CASE ~Settles(acks)
    <2>1. flow' = flow /\ verdict' = verdict
      BY <1>6 DEF Reply
    <2> QED
      BY <1>1, <1>3, <1>4, <1>6, <2>1, SilenceKeeps
  <1> QED
    BY <1>5, <1>6

LEMMA NextIInv ==
    ASSUME IInv, [Next]_vars
    PROVE  IInv'
  <1>1. CASE Paste
    BY <1>1, PasteKeeps
  <1>2. CASE Tick
    BY <1>2, TickKeeps
  <1>3. CASE Press \/ ClickShift \/ ClosePanel
    <2>1. \E lines : Emit(acks, lines)
      BY <1>3 DEF Press, ClickShift, ClosePanel
    <2>2. Aborted /\ pastes' = pastes
      BY <1>3 DEF Press, ClickShift, ClosePanel, User
    <2> QED
      BY <2>1, <2>2, AbortingKeeps
  <1>4. CASE Release \/ Install \/ HelloTimer \/ RepairTick
    <2>1. acks' = acks \/ \E lines : acks' = Sent(acks, lines)
      BY <1>4 DEF Release, Install, HelloTimer, RepairTick, Emit
    <2>2. LedgerShape(acks') /\ acks'.done = acks.done
      BY <2>1, SentKeeps DEF IInv
    <2>3. flow' = flow /\ pastes' = pastes /\ verdict' = verdict
      BY <1>4 DEF Release, Install, HelloTimer, RepairTick, User, counts
    <2> QED
      BY <2>2, <2>3, SilenceKeeps
  <1>5. CASE Reply
    BY <1>5, ReplyKeeps
  <1>6. CASE Notice \/ Rebuild
    BY <1>6, LosingKeeps DEF Notice, Rebuild, counts
  <1>7. CASE \/ \E e \in Epochs : Run(e) \/ Depart(e)
             \/ HelperDies \/ Teardown \/ UNCHANGED vars
    <2>1. acks' = acks /\ flow' = flow /\ pastes' = pastes /\ verdict' = verdict
      BY <1>7 DEF Run, Depart, HelperDies, Teardown, panel, counts, vars
    <2> QED
      BY <2>1, SilenceKeeps DEF IInv
  <1> QED
    BY <1>1, <1>2, <1>3, <1>4, <1>5, <1>6, <1>7 DEF Next

-----------------------------------------------------------------------------
(* The callback is kept in exactly one place, and called from there. *)
THEOREM Invariant == Spec => []IInv
  <1>1. Init => IInv
    BY InitIInv
  <1>2. IInv /\ [Next]_vars => IInv'
    BY NextIInv
  <1> QED
    BY <1>1, <1>2, PTL DEF Spec

(* A paste's callback is called once: never for one that is live, always for
   one that is not, whatever order the reply, the guard, an abort and a lost
   connection come in. *)
THEOREM EveryPasteOneVerdict == Spec => []OneVerdict
  <1>1. IInv => OneVerdict
    BY DEF IInv
  <1> QED
    BY <1>1, Invariant, PTL

(* The guard has a chord to time out exactly while the flow awaits one. *)
THEOREM ArmedWhileAwaiting == Spec => [](acks.done # NoChord <=> flow = "awaiting")
  <1>1. IInv => (acks.done # NoChord <=> flow = "awaiting")
    BY DEF IInv, CallbackKept, NoChord
  <1> QED
    BY <1>1, Invariant, PTL
-----------------------------------------------------------------------------
(* What a run of lines leaves held. *)

(* The lines the panel writes: a key line names its key. *)
Command == {line \in Line : line.verb \in {"down", "up"} => line.key \in Keys}
(* A line that lifts a key, and one that presses it. *)
IsUp(line, k) == line.verb = "up" /\ line.key = k
IsDown(line, k) == line.verb = "down" /\ line.key = k
(* Key k is down once the first n lines have run, on a connection that held set:
   it was held and none of them lifts it, or one presses it and none after lifts it. *)
HeldAt(k, set, lines, n) ==
    \/ k \in set /\ \A i \in 1..n : ~IsUp(lines[i], k)
    \/ \E j \in 1..n : IsDown(lines[j], k) /\ \A i \in j+1..n : ~IsUp(lines[i], k)
(* What is down after the first n lines, and after all of them. *)
After(set, lines, n) == {k \in Keys : HeldAt(k, set, lines, n)}
Left(set, lines) == After(set, lines, Len(lines))
(* What one line leaves of what was held. *)
Struck(set, line) == {k \in Keys : IsDown(line, k) \/ (k \in set /\ ~IsUp(line, k))}
(* A line that presses a key that types, not a modifier. *)
IsPress(line) == line.verb = "down" /\ line.key \in {"V", "A"}
(* Run on a connection that holds set, every press of a key, but for those of the
   pastes named, finds exactly the modifiers it was planned under. *)
Clean(set, lines, but) ==
    \A i \in DOMAIN lines :
        IsPress(lines[i]) /\ lines[i].of \notin but =>
            After(set, lines, i - 1) \cap Modifiers = lines[i].want
(* Lines none of which presses anything. *)
Downless(lines) == \A i \in DOMAIN lines : lines[i].verb # "down"

(* Nothing has run: what was held is held. *)
LEMMA AfterNone == ASSUME NEW set \in SUBSET Keys, NEW lines PROVE After(set, lines, 0) = set
  BY DEF After, HeldAt

(* No line both lifts and presses. *)
LEMMA NotBoth == ASSUME NEW line, NEW k PROVE ~(IsUp(line, k) /\ IsDown(line, k))
  BY DEF IsUp, IsDown

(* One more line strikes what the lines before it left. *)
LEMMA AfterStep ==
    ASSUME NEW set, NEW lines, NEW n \in Nat
    PROVE  After(set, lines, n + 1) = Struck(After(set, lines, n), lines[n + 1])
  <1> SUFFICES ASSUME NEW k \in Keys
               PROVE  HeldAt(k, set, lines, n + 1) <=>
                        \/ IsDown(lines[n + 1], k)
                        \/ HeldAt(k, set, lines, n) /\ ~IsUp(lines[n + 1], k)
    BY DEF After, Struck
  <1>1. \A i : i \in 1..(n + 1) <=> i \in 1..n \/ i = n + 1
    OBVIOUS
  <1>2. \A j \in 1..n : \A i : i \in (j + 1)..(n + 1) <=> i \in (j + 1)..n \/ i = n + 1
    OBVIOUS
  <1>3. \A i : ~(i \in (n + 2)..(n + 1))
    OBVIOUS
  <1> QED
    BY <1>1, <1>2, <1>3, NotBoth DEF HeldAt

(* Lines queued behind do not change what the lines before them leave. *)
LEMMA AfterPrefix ==
    ASSUME NEW set, NEW a \in Seq(Command), NEW b \in Seq(Command), NEW n \in 0..Len(a)
    PROVE  After(set, a \o b, n) = After(set, a, n)
  <1>1. \A i \in 1..n : (a \o b)[i] = a[i]
    OBVIOUS
  <1>2. \A j \in 1..n : \A i \in (j + 1)..n : (a \o b)[i] = a[i]
    OBVIOUS
  <1> QED
    BY <1>1, <1>2 DEF After, HeldAt

(* The lines of b run on what those of a left. *)
LEMMA AfterConcat ==
    ASSUME NEW set, NEW a \in Seq(Command), NEW b \in Seq(Command), NEW n \in 0..Len(b)
    PROVE  After(set, a \o b, Len(a) + n) = After(Left(set, a), b, n)
  <1> SUFFICES ASSUME NEW k \in Keys
               PROVE  HeldAt(k, set, a \o b, Len(a) + n) <=>
                        HeldAt(k, Left(set, a), b, n)
    BY DEF After
  <1> DEFINE c == a \o b
             m == Len(a)
  <1>1. m \in Nat /\ (\A i \in 1..m : c[i] = a[i]) /\ (\A i \in 1..n : c[m + i] = b[i])
    OBVIOUS
  <1>2. k \in Left(set, a) <=> HeldAt(k, set, a, m)
    BY DEF Left, After
  <1> HIDE DEF c, m
  <1>3. ASSUME HeldAt(k, set, c, m + n) PROVE HeldAt(k, Left(set, a), b, n)
    <2>1. CASE k \in set /\ \A i \in 1..(m + n) : ~IsUp(c[i], k)
      <3>1. HeldAt(k, set, a, m)
        BY <1>1, <2>1 DEF HeldAt
      <3>2. \A i \in 1..n : ~IsUp(b[i], k)
        BY <1>1, <2>1
      <3> QED
        BY <1>2, <3>1, <3>2 DEF HeldAt
    <2>2. ASSUME NEW j \in 1..(m + n), IsDown(c[j], k),
                 \A i \in (j + 1)..(m + n) : ~IsUp(c[i], k)
          PROVE  HeldAt(k, Left(set, a), b, n)
      <3>1. CASE j <= m
        <4>1. HeldAt(k, set, a, m)
          BY <1>1, <2>2, <3>1 DEF HeldAt
        <4>2. \A i \in 1..n : ~IsUp(b[i], k)
          BY <1>1, <2>2, <3>1
        <4> QED
          BY <1>2, <4>1, <4>2 DEF HeldAt
      <3>2. CASE j > m
        <4>1. PICK l \in 1..n : j = m + l
          BY <1>1, <3>2
        <4>2. IsDown(b[l], k) /\ \A i \in (l + 1)..n : ~IsUp(b[i], k)
          BY <1>1, <2>2, <4>1
        <4> QED
          BY <4>2 DEF HeldAt
      <3> QED
        BY <1>1, <3>1, <3>2
    <2> QED
      BY <1>3, <2>1, <2>2 DEF HeldAt
  <1>4. ASSUME HeldAt(k, Left(set, a), b, n) PROVE HeldAt(k, set, c, m + n)
    <2>0. \A i \in 1..(m + n) : i \in 1..m \/ \E l \in 1..n : i = m + l
      <3> SUFFICES ASSUME NEW i \in 1..(m + n), ~(i \in 1..m) PROVE \E l \in 1..n : i = m + l
        OBVIOUS
      <3>1. i - m \in 1..n /\ i = m + (i - m)
        BY <1>1
      <3> QED
        BY <3>1
    <2>1. CASE HeldAt(k, set, a, m) /\ \A i \in 1..n : ~IsUp(b[i], k)
      <3>1. \A i \in (m + 1)..(m + n) : ~IsUp(c[i], k)
        <4> SUFFICES ASSUME NEW i \in (m + 1)..(m + n) PROVE ~IsUp(c[i], k)
          OBVIOUS
        <4>1. i - m \in 1..n /\ i = m + (i - m)
          BY <1>1
        <4> QED
          BY <1>1, <2>1, <4>1
      <3>2. CASE k \in set /\ \A i \in 1..m : ~IsUp(a[i], k)
        <4>1. \A i \in 1..(m + n) : ~IsUp(c[i], k)
          BY <1>1, <2>0, <3>1, <3>2
        <4> QED
          BY <3>2, <4>1 DEF HeldAt
      <3>3. ASSUME NEW j \in 1..m, IsDown(a[j], k),
                   \A i \in (j + 1)..m : ~IsUp(a[i], k)
            PROVE  HeldAt(k, set, c, m + n)
        <4>1. \A i \in (j + 1)..(m + n) : ~IsUp(c[i], k)
          BY <1>1, <2>0, <3>1, <3>3
        <4>2. j \in 1..(m + n) /\ IsDown(c[j], k)
          BY <1>1, <3>3
        <4> QED
          BY <4>1, <4>2 DEF HeldAt
      <3> QED
        BY <2>1, <3>2, <3>3 DEF HeldAt
    <2>2. ASSUME NEW j \in 1..n, IsDown(b[j], k), \A i \in (j + 1)..n : ~IsUp(b[i], k)
          PROVE  HeldAt(k, set, c, m + n)
      <3>1. \A i \in (m + j + 1)..(m + n) : ~IsUp(c[i], k)
        <4> SUFFICES ASSUME NEW i \in (m + j + 1)..(m + n) PROVE ~IsUp(c[i], k)
          OBVIOUS
        <4>1. i - m \in (j + 1)..n /\ i - m \in 1..n /\ i = m + (i - m)
          BY <1>1
        <4> QED
          BY <1>1, <2>2, <4>1
      <3>2. m + j \in 1..(m + n) /\ IsDown(c[m + j], k)
        BY <1>1, <2>2
      <3> QED
        BY <3>1, <3>2 DEF HeldAt
    <2> QED
      BY <1>2, <1>4, <2>1, <2>2 DEF HeldAt
  <1> QED
    BY <1>3, <1>4 DEF c, m

(* So does all of b, at its end. *)
LEMMA LeftConcat ==
    ASSUME NEW set, NEW a \in Seq(Command), NEW b \in Seq(Command)
    PROVE  Left(set, a \o b) = Left(Left(set, a), b)
  <1>1. Len(a \o b) = Len(a) + Len(b) /\ Len(b) \in 0..Len(b)
    OBVIOUS
  <1> QED
    BY <1>1, AfterConcat DEF Left

(* No lines leave what was held. *)
LEMMA LeftNone ==
    ASSUME NEW set \in SUBSET Keys
    PROVE  Left(set, <<>>) = set
  BY AfterNone DEF Left

(* One line leaves what it strikes. *)
LEMMA LeftOne ==
    ASSUME NEW set \in SUBSET Keys, NEW line
    PROVE  Left(set, <<line>>) = Struck(set, line)
  <1>1. Left(set, <<line>>) = After(set, <<line>>, 0 + 1)
    BY DEF Left
  <1>2. @ = Struck(After(set, <<line>>, 0), <<line>>[0 + 1])
    BY AfterStep
  <1>3. @ = Struck(set, line)
    BY AfterNone
  <1> QED
    BY <1>1, <1>2, <1>3

(* What is left is keys. *)
LEMMA LeftKeys == ASSUME NEW set, NEW lines PROVE Left(set, lines) \in SUBSET Keys
  BY DEF Left, After

(* Lines are clean when their halves are, the second on what the first leaves. *)
LEMMA CleanConcat ==
    ASSUME NEW set, NEW but, NEW a \in Seq(Command), NEW b \in Seq(Command)
    PROVE  Clean(set, a \o b, but) <=> Clean(set, a, but) /\ Clean(Left(set, a), b, but)
  <1> DEFINE c == a \o b
             m == Len(a)
             Good(s, lines, i) ==
                IsPress(lines[i]) /\ lines[i].of \notin but =>
                    After(s, lines, i - 1) \cap Modifiers = lines[i].want
  <1>1. /\ m \in Nat /\ DOMAIN c = 1..(m + Len(b)) /\ Len(b) \in Nat
        /\ DOMAIN a = 1..m /\ DOMAIN b = 1..Len(b)
    OBVIOUS
  <1>2. \A i \in 1..m : Good(set, c, i) <=> Good(set, a, i)
    <2> SUFFICES ASSUME NEW i \in 1..m PROVE Good(set, c, i) <=> Good(set, a, i)
      OBVIOUS
    <2>1. c[i] = a[i] /\ i - 1 \in 0..Len(a)
      OBVIOUS
    <2>2. After(set, c, i - 1) = After(set, a, i - 1)
      BY <2>1, AfterPrefix
    <2> QED
      BY <2>1, <2>2
  <1>3. \A i \in 1..Len(b) : Good(set, c, m + i) <=> Good(Left(set, a), b, i)
    <2> SUFFICES ASSUME NEW i \in 1..Len(b)
                 PROVE  Good(set, c, m + i) <=> Good(Left(set, a), b, i)
      OBVIOUS
    <2>1. c[m + i] = b[i] /\ i - 1 \in 0..Len(b) /\ (m + i) - 1 = m + (i - 1)
      OBVIOUS
    <2>2. After(set, c, m + (i - 1)) = After(Left(set, a), b, i - 1)
      BY <2>1, AfterConcat
    <2> QED
      BY <2>1, <2>2
  <1>4. Clean(set, a, but) <=> \A i \in 1..m : Good(set, a, i)
    BY <1>1 DEF Clean
  <1>5. Clean(Left(set, a), b, but) <=> \A i \in 1..Len(b) : Good(Left(set, a), b, i)
    BY <1>1 DEF Clean
  <1>6. Clean(set, c, but) <=> \A i \in 1..(m + Len(b)) : Good(set, c, i)
    BY <1>1 DEF Clean
  <1>7. \A i \in 1..(m + Len(b)) : i \in 1..m \/ i - m \in 1..Len(b)
    BY <1>1
  <1> HIDE DEF c, m, Good
  <1>8. (\A i \in 1..(m + Len(b)) : Good(set, c, i)) <=>
          (\A i \in 1..m : Good(set, c, i)) /\ (\A i \in 1..Len(b) : Good(set, c, m + i))
    <2>1. \A i \in 1..m : i \in 1..(m + Len(b))
      BY <1>1
    <2>2. \A i \in 1..Len(b) : m + i \in 1..(m + Len(b))
      BY <1>1
    <2>3. \A i \in 1..(m + Len(b)) : m + (i - m) = i
      BY <1>1
    <2> QED
      BY <1>7, <2>1, <2>2, <2>3
  <1>9. Clean(set, c, but) <=> Clean(set, a, but) /\ Clean(Left(set, a), b, but)
    BY <1>2, <1>3, <1>4, <1>5, <1>6, <1>8
  <1> QED
    BY <1>9 DEF c

(* No lines are clean, on whatever is held. *)
LEMMA CleanNone == ASSUME NEW set, NEW but PROVE Clean(set, <<>>, but)
  BY DEF Clean

(* A line finds what it needs on what is held: no press, or its own modifiers, or
   a paste that is not asked about. *)
Fits(set, line, but) == IsPress(line) /\ line.of \notin but => set \cap Modifiers = line.want

(* One line is clean when it finds what it needs. *)
LEMMA CleanOne ==
    ASSUME NEW set \in SUBSET Keys, NEW line, NEW but
    PROVE  Clean(set, <<line>>, but) <=> Fits(set, line, but)
  <1>1. Clean(set, <<line>>, but) <=>
          (IsPress(line) /\ line.of \notin but =>
             After(set, <<line>>, 0) \cap Modifiers = line.want)
    BY DEF Clean
  <1> QED
    BY <1>1, AfterNone DEF Fits

(* The more pastes are not asked about, the more lines are clean. *)
LEMMA CleanGrows ==
    ASSUME NEW set, NEW lines, NEW but, NEW more, but \subseteq more, Clean(set, lines, but)
    PROVE  Clean(set, lines, more)
  BY DEF Clean

(* A queue of lines is its head and its tail. *)
LEMMA HeadTail ==
    ASSUME NEW lines \in Seq(Command), lines # <<>>
    PROVE  /\ Head(lines) \in Command /\ Tail(lines) \in Seq(Command)
           /\ <<Head(lines)>> \in Seq(Command)
           /\ lines = <<Head(lines)>> \o Tail(lines)
  <1>1. Head(lines) \in Command /\ Tail(lines) \in Seq(Command)
    OBVIOUS
  <1>2. <<Head(lines)>> \in Seq(Command)
    BY <1>1
  <1> DEFINE hd == <<Head(lines)>> \o Tail(lines)
  <1>3. Len(hd) = Len(lines) /\ hd \in Seq(Command)
    BY <1>1, <1>2
  <1>4. \A i \in 1..Len(lines) : hd[i] = lines[i]
    BY <1>1
  <1>5. hd = lines
    <2> HIDE DEF hd
    <2> QED
      BY <1>3, <1>4
  <1> QED
    BY <1>1, <1>2, <1>5

(* The helper runs the head: what the rest of the queue leaves, and whether the
   queue is clean, can be told from what the head struck. *)
LEMMA LeftTail ==
    ASSUME NEW set \in SUBSET Keys, NEW but, NEW lines \in Seq(Command), lines # <<>>
    PROVE  /\ Left(set, lines) = Left(Struck(set, Head(lines)), Tail(lines))
           /\ Clean(set, lines, but) <=>
                /\ Fits(set, Head(lines), but)
                /\ Clean(Struck(set, Head(lines)), Tail(lines), but)
  <1> DEFINE hd == <<Head(lines)>>
             tl == Tail(lines)
  <1>1. hd \in Seq(Command) /\ tl \in Seq(Command) /\ lines = hd \o tl
    BY HeadTail
  <1>2. Left(set, hd) = Struck(set, Head(lines))
    BY LeftOne
  <1>3. Clean(set, hd, but) <=> Fits(set, Head(lines), but)
    BY CleanOne
  <1>4. Left(set, hd \o tl) = Left(Left(set, hd), tl)
    BY <1>1, LeftConcat
  <1>5. Clean(set, hd \o tl, but) <=> Clean(set, hd, but) /\ Clean(Left(set, hd), tl, but)
    BY <1>1, CleanConcat
  <1> HIDE DEF hd, tl
  <1>6. /\ Left(set, lines) = Left(Struck(set, Head(lines)), tl)
        /\ Clean(set, lines, but) <=>
                /\ Fits(set, Head(lines), but)
                /\ Clean(Struck(set, Head(lines)), tl, but)
    BY <1>1, <1>2, <1>3, <1>4, <1>5
  <1> QED
    BY <1>6 DEF tl

(* The more is held before the lines, the more is held after them. *)
LEMMA LeftGrows ==
    ASSUME NEW s, NEW t, s \subseteq t, NEW lines
    PROVE  Left(s, lines) \subseteq Left(t, lines)
  BY DEF Left, After, HeldAt

(* Only the modifiers held decide whether lines are clean, and which modifiers
   they leave. *)
LEMMA SameModifiers ==
    ASSUME NEW s, NEW t, s \cap Modifiers = t \cap Modifiers, NEW lines, NEW but
    PROVE  /\ Clean(s, lines, but) => Clean(t, lines, but)
           /\ Left(s, lines) \cap Modifiers = Left(t, lines) \cap Modifiers
  <1>1. \A k \in Modifiers : k \in s <=> k \in t
    OBVIOUS
  <1>2. \A n : \A k \in Modifiers : HeldAt(k, s, lines, n) <=> HeldAt(k, t, lines, n)
    BY <1>1 DEF HeldAt
  <1>3. \A n : After(s, lines, n) \cap Modifiers = After(t, lines, n) \cap Modifiers
    BY <1>2 DEF After
  <1> QED
    BY <1>3 DEF Clean, Left

(* Lines that press nothing only lift, and are clean. *)
LEMMA LeftDownless ==
    ASSUME NEW set, NEW but, NEW lines \in Seq(Command), Downless(lines)
    PROVE  Left(set, lines) \subseteq set /\ Clean(set, lines, but)
  <1>1. \A j \in 1..Len(lines) : lines[j].verb # "down"
    BY DEF Downless
  <1>2. Clean(set, lines, but)
    BY DEF Clean, Downless, IsPress
  <1> QED
    BY <1>1, <1>2 DEF Left, After, HeldAt, IsDown

(* Two runs of lines press nothing exactly when neither does. *)
LEMMA DownlessConcat ==
    ASSUME NEW a \in Seq(Command), NEW b \in Seq(Command)
    PROVE  Downless(a \o b) <=> Downless(a) /\ Downless(b)
  <1> DEFINE c == a \o b
             m == Len(a)
  <1>1. m \in Nat /\ Len(b) \in Nat /\ DOMAIN c = 1..(m + Len(b))
        /\ DOMAIN a = 1..m /\ DOMAIN b = 1..Len(b)
    OBVIOUS
  <1>2. (\A i \in 1..m : c[i] = a[i]) /\ (\A i \in 1..Len(b) : c[m + i] = b[i])
    OBVIOUS
  <1>3. \A i \in 1..(m + Len(b)) : i \in 1..m \/ (i - m \in 1..Len(b) /\ i = m + (i - m))
    OBVIOUS
  <1>4. \A i \in 1..Len(b) : m + i \in 1..(m + Len(b))
    OBVIOUS
  <1>5. \A i \in 1..m : i \in 1..(m + Len(b))
    OBVIOUS
  <1> HIDE DEF c, m
  <1>6. Downless(c) <=> Downless(a) /\ Downless(b)
    <2>1. ASSUME Downless(c) PROVE Downless(a) /\ Downless(b)
      BY <1>1, <1>2, <1>4, <1>5, <2>1 DEF Downless
    <2>2. ASSUME Downless(a), Downless(b) PROVE Downless(c)
      <3> SUFFICES ASSUME NEW i \in 1..(m + Len(b)) PROVE c[i].verb # "down"
        BY <1>1 DEF Downless
      <3>1. CASE i \in 1..m
        BY <1>1, <1>2, <2>2, <3>1 DEF Downless
      <3>2. CASE i - m \in 1..Len(b) /\ i = m + (i - m)
        BY <1>1, <1>2, <2>2, <3>2 DEF Downless
      <3> QED
        BY <1>3, <3>1, <3>2
    <2> QED
      BY <2>1, <2>2
  <1> QED
    BY <1>6 DEF c

-----------------------------------------------------------------------------
(* The live connection: its lines that have not run, and the keys it holds. *)
Here == wire[epoch]
Mine == claims[epoch]
(* The panel writes to a connection somebody reads. *)
Lane == sock = "open" /\ ~teardown
(* The slots of the ledger, and the answers that pop them. *)
Slots == [final : BOOLEAN, verb : {"hello", "ping", "install", "refresh", "down", "up"}]
Answer == [word : Words, verb : {"hello", "ping", "install", "refresh", "down", "up"}]

(* The fields of a plain press and a plain release. *)
LEMMA LineShape ==
    ASSUME NEW k \in Keys
    PROVE  /\ Down(k) = [verb |-> "down", key |-> k, of |-> 0, want |-> {}]
           /\ Up(k) = [verb |-> "up", key |-> k, of |-> 0, want |-> {}]
           /\ Down(k) \in Command /\ Up(k) \in Command
  <1>1. Cmd("down") = [verb |-> "down", key |-> "none", of |-> 0, want |-> {}]
    BY DEF Cmd
  <1>2. Cmd("up") = [verb |-> "up", key |-> "none", of |-> 0, want |-> {}]
    BY DEF Cmd
  <1>3. Down(k) = [verb |-> "down", key |-> k, of |-> 0, want |-> {}]
    BY <1>1 DEF Down
  <1>4. Up(k) = [verb |-> "up", key |-> k, of |-> 0, want |-> {}]
    BY <1>2 DEF Up
  <1> QED
    BY <1>3, <1>4, PasteAssumption DEF Command, Line

(* A command that is no key line strikes nothing. *)
LEMMA CmdShape ==
    ASSUME NEW verb \in {"hello", "ping", "install", "refresh"}
    PROVE  /\ Cmd(verb) \in Command /\ Cmd(verb).verb = verb
           /\ \A set \in SUBSET Keys : Struck(set, Cmd(verb)) = set
  <1>1. Cmd(verb) = [verb |-> verb, key |-> "none", of |-> 0, want |-> {}]
    BY DEF Cmd
  <1>2. Cmd(verb) \in Command
    BY <1>1, PasteAssumption DEF Command, Line
  <1>3. \A set \in SUBSET Keys : Struck(set, Cmd(verb)) = set
    BY <1>1 DEF Struck, IsUp, IsDown
  <1> QED
    BY <1>1, <1>2, <1>3

(* Writing lines appends a slot for each of them to the ledger, and nothing else. *)
LEMMA SentQueue ==
    ASSUME NEW ledger, ledger.queue \in Seq(Slots), NEW lines \in Seq(Command)
    PROVE  /\ Sent(ledger, lines).queue \in Seq(Slots)
           /\ Len(Sent(ledger, lines).queue) = Len(ledger.queue) + Len(lines)
           /\ \A i \in 1..Len(ledger.queue) :
                Sent(ledger, lines).queue[i] = ledger.queue[i]
           /\ \A i \in 1..Len(lines) :
                Sent(ledger, lines).queue[Len(ledger.queue) + i] = Slot(lines[i].verb)
           /\ Sent(ledger, lines).done = ledger.done
           /\ Sent(ledger, lines).from = ledger.from
           /\ Sent(ledger, lines).error = ledger.error
  <1> DEFINE more == [i \in DOMAIN lines |-> Slot(lines[i].verb)]
  <1>1. \A i \in DOMAIN lines : Slot(lines[i].verb) \in Slots
    <2> SUFFICES ASSUME NEW i \in DOMAIN lines PROVE Slot(lines[i].verb) \in Slots
      OBVIOUS
    <2>1. lines[i] \in Command
      OBVIOUS
    <2>2. lines[i].verb \in {"hello", "ping", "install", "refresh", "down", "up"}
      BY <2>1 DEF Command, Line
    <2> QED
      BY <2>2 DEF Slot, Slots
  <1>2. more \in Seq(Slots) /\ Len(more) = Len(lines)
    BY <1>1
  <1>3. \A i \in 1..Len(lines) : more[i] = Slot(lines[i].verb)
    OBVIOUS
  <1>4. /\ Sent(ledger, lines).queue = ledger.queue \o more
        /\ Sent(ledger, lines).done = ledger.done
        /\ Sent(ledger, lines).from = ledger.from
        /\ Sent(ledger, lines).error = ledger.error
    BY DEF Sent
  <1> HIDE DEF more
  <1> DEFINE all == ledger.queue \o more
  <1>5. /\ all \in Seq(Slots) /\ Len(all) = Len(ledger.queue) + Len(more)
        /\ \A i \in 1..Len(ledger.queue) : all[i] = ledger.queue[i]
        /\ \A i \in 1..Len(more) : all[Len(ledger.queue) + i] = more[i]
    BY <1>2, SMTT(40)
  <1> HIDE DEF all
  <1>6. Sent(ledger, lines).queue = all
    BY <1>4 DEF all
  <1> QED
    BY <1>2, <1>3, <1>4, <1>5, <1>6

(* ... and the lines to the live connection's queue, and to no other. *)
LEMMA WrittenHere ==
    ASSUME wire \in [Epochs -> Seq(Command)], epoch \in Epochs, NEW lines \in Seq(Command)
    PROVE  /\ Written(lines) \in [Epochs -> Seq(Command)]
           /\ Written(lines)[epoch] = IF sock = "open" THEN Here \o lines ELSE Here
           /\ \A e \in Epochs : e # epoch => Written(lines)[e] = wire[e]
  BY DEF Written, Here

-----------------------------------------------------------------------------
(* Lines of some verbs only. *)
Only(lines, verbs) == \A i \in DOMAIN lines : lines[i].verb \in verbs

(* Two runs of lines use only some verbs exactly when each does. *)
LEMMA OnlyConcat ==
    ASSUME NEW a \in Seq(Command), NEW b \in Seq(Command), NEW verbs
    PROVE  Only(a \o b, verbs) <=> Only(a, verbs) /\ Only(b, verbs)
  <1> DEFINE c == a \o b
             m == Len(a)
  <1>1. m \in Nat /\ Len(b) \in Nat /\ DOMAIN c = 1..(m + Len(b))
        /\ DOMAIN a = 1..m /\ DOMAIN b = 1..Len(b)
    OBVIOUS
  <1>2. (\A i \in 1..m : c[i] = a[i]) /\ (\A i \in 1..Len(b) : c[m + i] = b[i])
    OBVIOUS
  <1>3. \A i \in 1..(m + Len(b)) : i \in 1..m \/ (i - m \in 1..Len(b) /\ i = m + (i - m))
    OBVIOUS
  <1>4. \A i \in 1..Len(b) : m + i \in 1..(m + Len(b))
    OBVIOUS
  <1>5. \A i \in 1..m : i \in 1..(m + Len(b))
    OBVIOUS
  <1> HIDE DEF c, m
  <1>6. Only(c, verbs) <=> Only(a, verbs) /\ Only(b, verbs)
    <2>1. ASSUME Only(c, verbs) PROVE Only(a, verbs) /\ Only(b, verbs)
      BY <1>1, <1>2, <1>4, <1>5, <2>1 DEF Only
    <2>2. ASSUME Only(a, verbs), Only(b, verbs) PROVE Only(c, verbs)
      <3> SUFFICES ASSUME NEW i \in 1..(m + Len(b)) PROVE c[i].verb \in verbs
        BY <1>1 DEF Only
      <3>1. CASE i \in 1..m
        BY <1>1, <1>2, <2>2, <3>1 DEF Only
      <3>2. CASE i - m \in 1..Len(b) /\ i = m + (i - m)
        BY <1>1, <1>2, <2>2, <3>2 DEF Only
      <3> QED
        BY <1>3, <3>1, <3>2
    <2> QED
      BY <2>1, <2>2
  <1> QED
    BY <1>6 DEF c

(* No lines use any verb. *)
LEMMA NoneIsLines == <<>> \in Seq(Command) /\ \A verbs : Only(<<>>, verbs)
  BY DEF Only

(* One line uses its own verb. *)
LEMMA OneIsLines ==
    ASSUME NEW line \in Command
    PROVE  <<line>> \in Seq(Command) /\ (\A verbs : Only(<<line>>, verbs) <=> line.verb \in verbs)
  BY DEF Only

(* Lines after lines are lines. *)
LEMMA ConcatIsLines ==
    ASSUME NEW a \in Seq(Command), NEW b \in Seq(Command)
    PROVE  a \o b \in Seq(Command)
  OBVIOUS

(* A release under a condition lifts its key exactly under that condition. *)
LEMMA LiftOne ==
    ASSUME NEW b \in BOOLEAN, NEW k \in Keys
    PROVE  /\ When(b, <<Up(k)>>) \in Seq(Command) /\ Only(When(b, <<Up(k)>>), {"up"})
           /\ \A set \in SUBSET Keys :
                Left(set, When(b, <<Up(k)>>)) = IF b THEN set \ {k} ELSE set
  <1>1. Up(k) \in Command /\ Up(k).verb = "up" /\ Up(k).key = k
    BY LineShape
  <1>2. <<Up(k)>> \in Seq(Command) /\ Only(<<Up(k)>>, {"up"})
    BY <1>1, OneIsLines
  <1>3. \A set \in SUBSET Keys : Left(set, <<Up(k)>>) = set \ {k}
    <2> SUFFICES ASSUME NEW set \in SUBSET Keys PROVE Left(set, <<Up(k)>>) = set \ {k}
      OBVIOUS
    <2>1. Struck(set, Up(k)) = set \ {k}
      BY <1>1 DEF Struck, IsUp, IsDown
    <2> QED
      BY <2>1, LeftOne
  <1>4. CASE b
    <2>1. When(b, <<Up(k)>>) = <<Up(k)>>
      BY <1>4 DEF When
    <2> QED
      BY <1>2, <1>3, <1>4, <2>1
  <1>5. CASE ~b
    <2>1. When(b, <<Up(k)>>) = <<>>
      BY <1>5 DEF When
    <2> QED
      BY <1>5, <2>1, LeftNone, NoneIsLines
  <1> QED
    BY <1>4, <1>5

(* releaseAll lifts the key under the pointer and the locked Shift, no more. *)
LEMMA ReleaseAllLifts ==
    ASSUME pending \in BOOLEAN, shift \in BOOLEAN
    PROVE
    /\ ReleaseAll \in Seq(Command) /\ Only(ReleaseAll, {"up"})
    /\ \A set \in SUBSET Keys :
         Left(set, ReleaseAll) = {k \in set : ~(k = "A" /\ pending) /\ ~(k = "Shift" /\ shift)}
  <1> DEFINE a == When(pending, <<Up("A")>>)
             b == When(shift, <<Up("Shift")>>)
  <1>0. "A" \in Keys /\ "Shift" \in Keys
    BY DEF Keys, Modifiers
  <1>1. /\ a \in Seq(Command) /\ Only(a, {"up"})
        /\ \A set \in SUBSET Keys : Left(set, a) = IF pending THEN set \ {"A"} ELSE set
    BY <1>0, LiftOne, ZenonT(40)
  <1>2. /\ b \in Seq(Command) /\ Only(b, {"up"})
        /\ \A set \in SUBSET Keys : Left(set, b) = IF shift THEN set \ {"Shift"} ELSE set
    BY <1>0, LiftOne, ZenonT(40)
  <1>3. ReleaseAll = a \o b
    BY DEF ReleaseAll
  <1> HIDE DEF a, b
  <1>4. \A set \in SUBSET Keys : Left(set, a \o b) = Left(Left(set, a), b)
    BY <1>1, <1>2, LeftConcat
  <1>5. \A set \in SUBSET Keys :
          Left(Left(set, a), b)
            = {k \in set : ~(k = "A" /\ pending) /\ ~(k = "Shift" /\ shift)}
    BY <1>1, <1>2
  <1> QED
    BY <1>1, <1>2, <1>3, <1>4, <1>5, ConcatIsLines, OnlyConcat

-----------------------------------------------------------------------------
(* The paced chord, line by line, for a Shift lock that is to be lifted or not. *)
WineLines(lock, p) ==
    LET press == [verb |-> "down", key |-> "V", of |-> p, want |-> {"Ctrl"}]
    IN  IF lock THEN <<Up("Shift"), Down("Ctrl"), press, Up("V"), Up("Ctrl"), Down("Shift")>>
                ELSE <<Down("Ctrl"), press, Up("V"), Up("Ctrl")>>
(* How far the paced chord has gone: its key has been pressed, its Ctrl is down,
   its key is down. *)
Pressed == chord.sent >= IF chord.lock THEN 3 ELSE 2
CtrlOpen == chord.sent \in IF chord.lock THEN 2..4 ELSE 1..3
KeyOpen == chord.sent = IF chord.lock THEN 3 ELSE 2
(* While a chord is paced, its lines are those of the lock it saw, some are left
   to send, and no key is under the pointer.  The lock it saw holds until a keymap
   change is heard of, and none is locked then; on a connection that was dialled
   under the chord nothing happens before its next tick. *)
PacedShape ==
    flow = "paced" =>
       /\ ~pending /\ chord.lines = WineLines(chord.lock, pastes)
       /\ chord.sent < Len(chord.lines)
       /\ pastes # 0
       /\ pastes \in drained => ~shift
       /\ Lane /\ ~fresh /\ pastes \notin drained => shift = chord.lock
       /\ Lane /\ fresh => replies = <<>> /\ Here = <<>>

(* A sequence that has the length and the elements of two is their concatenation. *)
LEMMA JoinOf ==
    ASSUME NEW S, NEW a \in Seq(S), NEW b \in Seq(S), NEW c \in Seq(S),
           Len(c) = Len(a) + Len(b),
           \A i \in 1..Len(a) : c[i] = a[i],
           \A i \in 1..Len(b) : c[Len(a) + i] = b[i]
    PROVE  a \o b = c
  <1> DEFINE d == a \o b
  <1>1. d \in Seq(S) /\ Len(d) = Len(a) + Len(b)
    OBVIOUS
  <1>2. \A i \in 1..Len(a) : d[i] = a[i]
    OBVIOUS
  <1>3. \A i \in 1..Len(b) : d[Len(a) + i] = b[i]
    OBVIOUS
  <1>4. \A i \in 1..Len(c) :
          i \in 1..Len(a) \/ (i - Len(a) \in 1..Len(b) /\ i = Len(a) + (i - Len(a)))
    OBVIOUS
  <1> HIDE DEF d
  <1>5. \A i \in 1..Len(c) : d[i] = c[i]
    BY <1>2, <1>3, <1>4, ZenonT(40)
  <1>6. d = c
    BY <1>1, <1>5
  <1> QED
    BY <1>6 DEF d

(* ... and so of lines. *)
LEMMA Join ==
    ASSUME NEW a \in Seq(Command), NEW b \in Seq(Command), NEW c \in Seq(Command),
           Len(c) = Len(a) + Len(b),
           \A i \in 1..Len(a) : c[i] = a[i],
           \A i \in 1..Len(b) : c[Len(a) + i] = b[i]
    PROVE  a \o b = c
  BY JoinOf

(* One line after one. *)
LEMMA Concat11 ==
    ASSUME NEW x \in Command, NEW y \in Command
    PROVE  <<x>> \o <<y>> = <<x, y>>
  <1> DEFINE a == <<x>>
             b == <<y>>
             c == <<x, y>>
  <1>1. a \in Seq(Command) /\ b \in Seq(Command) /\ c \in Seq(Command)
    OBVIOUS
  <1>2. Len(a) = 1 /\ Len(b) = 1 /\ Len(c) = 2
    OBVIOUS
  <1>3. \A i \in 1..1 : c[i] = a[i]
    OBVIOUS
  <1>4. \A i \in 1..1 : c[1 + i] = b[i]
    OBVIOUS
  <1> HIDE DEF a, b, c
  <1>5. Len(c) = Len(a) + Len(b)
    BY <1>2
  <1>6. \A i \in 1..Len(a) : c[i] = a[i]
    BY <1>2, <1>3
  <1>7. \A i \in 1..Len(b) : c[Len(a) + i] = b[i]
    BY <1>2, <1>4
  <1>8. a \o b = c
    BY ONLY <1>1, <1>5, <1>6, <1>7, Join
  <1> QED
    BY <1>8 DEF a, b, c

(* Two lines after one. *)
LEMMA Concat12 ==
    ASSUME NEW x \in Command, NEW y \in Command, NEW z \in Command
    PROVE  <<x>> \o <<y, z>> = <<x, y, z>>
  <1> DEFINE a == <<x>>
             b == <<y, z>>
             c == <<x, y, z>>
  <1>1. a \in Seq(Command) /\ b \in Seq(Command) /\ c \in Seq(Command)
    OBVIOUS
  <1>2. Len(a) = 1 /\ Len(b) = 2 /\ Len(c) = 3
    OBVIOUS
  <1>3. \A i \in 1..1 : c[i] = a[i]
    OBVIOUS
  <1>4. \A i \in 1..2 : c[1 + i] = b[i]
    OBVIOUS
  <1> HIDE DEF a, b, c
  <1>5. Len(c) = Len(a) + Len(b)
    BY <1>2
  <1>6. \A i \in 1..Len(a) : c[i] = a[i]
    BY <1>2, <1>3
  <1>7. \A i \in 1..Len(b) : c[Len(a) + i] = b[i]
    BY <1>2, <1>4
  <1>8. a \o b = c
    BY ONLY <1>1, <1>5, <1>6, <1>7, Join
  <1> QED
    BY <1>8 DEF a, b, c

(* Two lines after two. *)
LEMMA Concat22 ==
    ASSUME NEW x \in Command, NEW y \in Command, NEW z \in Command,
           NEW u \in Command
    PROVE  <<x, y>> \o <<z, u>> = <<x, y, z, u>>
  <1> DEFINE a == <<x, y>>
             b == <<z, u>>
             c == <<x, y, z, u>>
  <1>1. a \in Seq(Command) /\ b \in Seq(Command) /\ c \in Seq(Command)
    OBVIOUS
  <1>2. Len(a) = 2 /\ Len(b) = 2 /\ Len(c) = 4
    OBVIOUS
  <1>3. \A i \in 1..2 : c[i] = a[i]
    OBVIOUS
  <1>4. \A i \in 1..2 : c[2 + i] = b[i]
    OBVIOUS
  <1> HIDE DEF a, b, c
  <1>5. Len(c) = Len(a) + Len(b)
    BY <1>2
  <1>6. \A i \in 1..Len(a) : c[i] = a[i]
    BY <1>2, <1>3
  <1>7. \A i \in 1..Len(b) : c[Len(a) + i] = b[i]
    BY <1>2, <1>4
  <1>8. a \o b = c
    BY ONLY <1>1, <1>5, <1>6, <1>7, Join
  <1> QED
    BY <1>8 DEF a, b, c

(* One line after three. *)
LEMMA Concat31 ==
    ASSUME NEW x \in Command, NEW y \in Command, NEW z \in Command,
           NEW u \in Command
    PROVE  <<x, y, z>> \o <<u>> = <<x, y, z, u>>
  <1> DEFINE a == <<x, y, z>>
             b == <<u>>
             c == <<x, y, z, u>>
  <1>1. a \in Seq(Command) /\ b \in Seq(Command) /\ c \in Seq(Command)
    OBVIOUS
  <1>2. Len(a) = 3 /\ Len(b) = 1 /\ Len(c) = 4
    OBVIOUS
  <1>3. \A i \in 1..3 : c[i] = a[i]
    OBVIOUS
  <1>4. \A i \in 1..1 : c[3 + i] = b[i]
    OBVIOUS
  <1> HIDE DEF a, b, c
  <1>5. Len(c) = Len(a) + Len(b)
    BY <1>2
  <1>6. \A i \in 1..Len(a) : c[i] = a[i]
    BY <1>2, <1>3
  <1>7. \A i \in 1..Len(b) : c[Len(a) + i] = b[i]
    BY <1>2, <1>4
  <1>8. a \o b = c
    BY ONLY <1>1, <1>5, <1>6, <1>7, Join
  <1> QED
    BY <1>8 DEF a, b, c

(* One line after four. *)
LEMMA Concat41 ==
    ASSUME NEW x \in Command, NEW y \in Command, NEW z \in Command,
           NEW u \in Command, NEW v \in Command
    PROVE  <<x, y, z, u>> \o <<v>> = <<x, y, z, u, v>>
  <1> DEFINE a == <<x, y, z, u>>
             b == <<v>>
             c == <<x, y, z, u, v>>
  <1>1. a \in Seq(Command) /\ b \in Seq(Command) /\ c \in Seq(Command)
    OBVIOUS
  <1>2. Len(a) = 4 /\ Len(b) = 1 /\ Len(c) = 5
    OBVIOUS
  <1>3. \A i \in 1..4 : c[i] = a[i]
    OBVIOUS
  <1>4. \A i \in 1..1 : c[4 + i] = b[i]
    OBVIOUS
  <1> HIDE DEF a, b, c
  <1>5. Len(c) = Len(a) + Len(b)
    BY <1>2
  <1>6. \A i \in 1..Len(a) : c[i] = a[i]
    BY <1>2, <1>3
  <1>7. \A i \in 1..Len(b) : c[Len(a) + i] = b[i]
    BY <1>2, <1>4
  <1>8. a \o b = c
    BY ONLY <1>1, <1>5, <1>6, <1>7, Join
  <1> QED
    BY <1>8 DEF a, b, c

(* One line after five. *)
LEMMA Concat51 ==
    ASSUME NEW x \in Command, NEW y \in Command, NEW z \in Command,
           NEW u \in Command, NEW v \in Command, NEW w \in Command
    PROVE  <<x, y, z, u, v>> \o <<w>> = <<x, y, z, u, v, w>>
  <1> DEFINE a == <<x, y, z, u, v>>
             b == <<w>>
             c == <<x, y, z, u, v, w>>
  <1>1. a \in Seq(Command) /\ b \in Seq(Command) /\ c \in Seq(Command)
    OBVIOUS
  <1>2. Len(a) = 5 /\ Len(b) = 1 /\ Len(c) = 6
    OBVIOUS
  <1>3. \A i \in 1..5 : c[i] = a[i]
    OBVIOUS
  <1>4. \A i \in 1..1 : c[5 + i] = b[i]
    OBVIOUS
  <1> HIDE DEF a, b, c
  <1>5. Len(c) = Len(a) + Len(b)
    BY <1>2
  <1>6. \A i \in 1..Len(a) : c[i] = a[i]
    BY <1>2, <1>3
  <1>7. \A i \in 1..Len(b) : c[Len(a) + i] = b[i]
    BY <1>2, <1>4
  <1>8. a \o b = c
    BY ONLY <1>1, <1>5, <1>6, <1>7, Join
  <1> QED
    BY <1>8 DEF a, b, c

(* ModifierReducer.paste gives a wine chord these lines. *)
LEMMA WineIs ==
    ASSUME NEW p \in 0..MaxPastes
    PROVE  /\ ChordLines("wine", p) = WineLines(shift, p)
           /\ \A lock \in BOOLEAN : WineLines(lock, p) \in Seq(Command)
  <1> DEFINE press == [verb |-> "down", key |-> "V", of |-> p, want |-> {"Ctrl"}]
  <1>1. press \in Command
    BY DEF Command, Line, Keys, Modifiers
  <1>2. /\ Up("Shift") \in Command /\ Down("Ctrl") \in Command /\ Up("V") \in Command
        /\ Up("Ctrl") \in Command /\ Down("Shift") \in Command
    BY LineShape DEF Keys, Modifiers
  <1>3. \A lock \in BOOLEAN : WineLines(lock, p) \in Seq(Command)
    BY <1>1, <1>2 DEF WineLines
  <1>4. ModsOf("wine") = {"Ctrl"}
    BY DEF ModsOf
  <1>5. ChordLines("wine", p)
          = When(shift, <<Up("Shift")>>) \o <<Down("Ctrl")>> \o <<>> \o <<press, Up("V")>>
            \o <<>> \o <<Up("Ctrl")>> \o When(shift, <<Down("Shift")>>)
    BY <1>4 DEF ChordLines, When
  <1> HIDE DEF press
  <1>6. ChordLines("wine", p) = WineLines(shift, p)
    <2>1. CASE shift
      <3>1. ChordLines("wine", p)
             = <<Up("Shift")>> \o <<Down("Ctrl")>> \o <<>> \o <<press, Up("V")>>
                \o <<>> \o <<Up("Ctrl")>> \o <<Down("Shift")>>
        BY <1>5, <2>1 DEF When
      <3>2. <<Up("Shift")>> \o <<Down("Ctrl")>> = <<Up("Shift"), Down("Ctrl")>>
        BY <1>1, <1>2, Concat11
      <3>3. <<Up("Shift"), Down("Ctrl")>> \o <<>> = <<Up("Shift"), Down("Ctrl")>>
        BY <1>1, <1>2
      <3>4. <<Up("Shift"), Down("Ctrl")>> \o <<press, Up("V")>>
              = <<Up("Shift"), Down("Ctrl"), press, Up("V")>>
        BY <1>1, <1>2, Concat22
      <3>5. <<Up("Shift"), Down("Ctrl"), press, Up("V")>> \o <<>>
              = <<Up("Shift"), Down("Ctrl"), press, Up("V")>>
        BY <1>1, <1>2
      <3>6. <<Up("Shift"), Down("Ctrl"), press, Up("V")>> \o <<Up("Ctrl")>>
              = <<Up("Shift"), Down("Ctrl"), press, Up("V"), Up("Ctrl")>>
        BY <1>1, <1>2, Concat41
      <3>7. <<Up("Shift"), Down("Ctrl"), press, Up("V"), Up("Ctrl")>> \o <<Down("Shift")>>
              = <<Up("Shift"), Down("Ctrl"), press, Up("V"), Up("Ctrl"), Down("Shift")>>
        BY <1>1, <1>2, Concat51
      <3>8. WineLines(shift, p)
              = <<Up("Shift"), Down("Ctrl"), press, Up("V"), Up("Ctrl"), Down("Shift")>>
        BY <2>1 DEF WineLines, press
      <3> QED
        BY ONLY <3>1, <3>2, <3>3, <3>4, <3>5, <3>6, <3>7, <3>8
    <2>2. CASE ~shift
      <3>1. ChordLines("wine", p)
             = <<>> \o <<Down("Ctrl")>> \o <<>> \o <<press, Up("V")>>
                \o <<>> \o <<Up("Ctrl")>> \o <<>>
        BY <1>5, <2>2 DEF When
      <3>2. /\ <<>> \o <<Down("Ctrl")>> = <<Down("Ctrl")>>
            /\ <<Down("Ctrl")>> \o <<>> = <<Down("Ctrl")>>
        BY <1>1, <1>2
      <3>3. <<Down("Ctrl")>> \o <<press, Up("V")>> = <<Down("Ctrl"), press, Up("V")>>
        BY <1>1, <1>2, Concat12
      <3>4. <<Down("Ctrl"), press, Up("V")>> \o <<>> = <<Down("Ctrl"), press, Up("V")>>
        BY <1>1, <1>2
      <3>5. <<Down("Ctrl"), press, Up("V")>> \o <<Up("Ctrl")>>
              = <<Down("Ctrl"), press, Up("V"), Up("Ctrl")>>
        BY <1>1, <1>2, Concat31
      <3>6. <<Down("Ctrl"), press, Up("V"), Up("Ctrl")>> \o <<>>
              = <<Down("Ctrl"), press, Up("V"), Up("Ctrl")>>
        BY <1>1, <1>2
      <3>7. WineLines(shift, p) = <<Down("Ctrl"), press, Up("V"), Up("Ctrl")>>
        BY <2>2 DEF WineLines, press
      <3> QED
        BY ONLY <3>1, <3>2, <3>3, <3>4, <3>5, <3>6, <3>7
    <2> QED
      BY <2>1, <2>2
  <1> QED
    BY <1>3, <1>6

(* compensatingReleases lifts the chord's Ctrl and its key where they are down,
   and nothing else: not the user's Shift, which the chord itself puts back. *)
LEMMA OwedLifts ==
    ASSUME flow = "paced", PacedShape, chord.sent \in Nat, chord.lock \in BOOLEAN,
           pastes \in 0..MaxPastes
    PROVE  /\ Owed(chord.sent) \in Seq(Command) /\ Only(Owed(chord.sent), {"up"})
           /\ \A set \in SUBSET Keys :
                Left(set, Owed(chord.sent))
                  = {k \in set : ~(k = "Ctrl" /\ CtrlOpen) /\ ~(k = "V" /\ KeyOpen)}
  <1> DEFINE prefix == SubSeq(chord.lines, 1, chord.sent)
             open(k) == /\ \E i \in DOMAIN prefix : prefix[i].verb = "down" /\ prefix[i].key = k
                        /\ \A i \in DOMAIN prefix : prefix[i] # Up(k)
             press == [verb |-> "down", key |-> "V", of |-> pastes, want |-> {"Ctrl"}]
             a == When(open("V"), <<Up("V")>>)
             b == When(open("Shift"), <<Up("Shift")>>)
             c == When(open("Ctrl"), <<Up("Ctrl")>>)
  <1>1. chord.lines \in Seq(Command) /\ chord.sent < Len(chord.lines)
    BY WineIs DEF PacedShape
  <1>2. /\ DOMAIN prefix = 1..chord.sent
        /\ \A i \in 1..chord.sent : prefix[i] = chord.lines[i]
    BY <1>1
  <1>3. /\ Up("Shift") = [verb |-> "up", key |-> "Shift", of |-> 0, want |-> {}]
        /\ Up("Ctrl") = [verb |-> "up", key |-> "Ctrl", of |-> 0, want |-> {}]
        /\ Up("V") = [verb |-> "up", key |-> "V", of |-> 0, want |-> {}]
        /\ Down("Ctrl") = [verb |-> "down", key |-> "Ctrl", of |-> 0, want |-> {}]
        /\ Down("Shift") = [verb |-> "down", key |-> "Shift", of |-> 0, want |-> {}]
    BY LineShape DEF Keys, Modifiers
  <1> HIDE DEF prefix
  <1>4. ASSUME chord.lock
       PROVE  (open("V") <=> KeyOpen) /\ (open("Ctrl") <=> CtrlOpen) /\ ~open("Shift")
    <2>1. chord.lines = <<Up("Shift"), Down("Ctrl"), press, Up("V"), Up("Ctrl"), Down("Shift")>>
      BY <1>4 DEF PacedShape, WineLines
    <2>2. chord.sent \in 0..5
      BY <1>1, <2>1
    <2>3. open("V") <=> KeyOpen
      BY <1>2, <1>3, <1>4, <2>1, <2>2 DEF KeyOpen
    <2>4. open("Ctrl") <=> CtrlOpen
      BY <1>2, <1>3, <1>4, <2>1, <2>2 DEF CtrlOpen
    <2>5. ~open("Shift")
      BY <1>2, <1>3, <1>4, <2>1, <2>2
    <2> QED
      BY ONLY <2>3, <2>4, <2>5
  <1>5. ASSUME ~chord.lock
       PROVE  (open("V") <=> KeyOpen) /\ (open("Ctrl") <=> CtrlOpen) /\ ~open("Shift")
    <2>1. chord.lines = <<Down("Ctrl"), press, Up("V"), Up("Ctrl")>>
      BY <1>5 DEF PacedShape, WineLines
    <2>2. chord.sent \in 0..3
      BY <1>1, <2>1
    <2>3. open("V") <=> KeyOpen
      BY <1>2, <1>3, <1>5, <2>1, <2>2 DEF KeyOpen
    <2>4. open("Ctrl") <=> CtrlOpen
      BY <1>2, <1>3, <1>5, <2>1, <2>2 DEF CtrlOpen
    <2>5. ~open("Shift")
      BY <1>2, <1>3, <1>5, <2>1, <2>2
    <2> QED
      BY ONLY <2>3, <2>4, <2>5
  <1>6. (open("V") <=> KeyOpen) /\ (open("Ctrl") <=> CtrlOpen) /\ ~open("Shift")
    BY <1>4, <1>5
  <1>7. open("V") \in BOOLEAN /\ open("Shift") \in BOOLEAN /\ open("Ctrl") \in BOOLEAN
    OBVIOUS
  <1>8. Owed(chord.sent) = (a \o b) \o c
    BY DEF Owed, prefix
  <1> HIDE DEF open
  <1>15. "V" \in Keys /\ "Shift" \in Keys /\ "Ctrl" \in Keys
    BY DEF Keys, Modifiers
  <1>9. /\ a \in Seq(Command) /\ Only(a, {"up"})
        /\ \A set \in SUBSET Keys : Left(set, a) = IF open("V") THEN set \ {"V"} ELSE set
    BY <1>7, <1>15, LiftOne, ZenonT(40)
  <1>10. /\ b \in Seq(Command) /\ Only(b, {"up"})
         /\ \A set \in SUBSET Keys :
              Left(set, b) = IF open("Shift") THEN set \ {"Shift"} ELSE set
    BY <1>7, <1>15, LiftOne, ZenonT(40)
  <1>11. /\ c \in Seq(Command) /\ Only(c, {"up"})
         /\ \A set \in SUBSET Keys :
              Left(set, c) = IF open("Ctrl") THEN set \ {"Ctrl"} ELSE set
    BY <1>7, <1>15, LiftOne, ZenonT(40)
  <1> HIDE DEF a, b, c
  <1>12. a \o b \in Seq(Command) /\ Only(a \o b, {"up"})
         /\ \A set \in SUBSET Keys : Left(set, a \o b) = Left(Left(set, a), b)
    BY <1>9, <1>10, LeftConcat, ConcatIsLines, OnlyConcat
  <1> DEFINE ab == a \o b
  <1> HIDE DEF ab
  <1>13. ab \o c \in Seq(Command) /\ Only(ab \o c, {"up"})
         /\ \A set \in SUBSET Keys : Left(set, ab \o c) = Left(Left(set, ab), c)
    <2>1. ab \in Seq(Command) /\ Only(ab, {"up"})
      BY <1>12 DEF ab
    <2> QED
      BY <2>1, <1>11, LeftConcat, ConcatIsLines, OnlyConcat
  <1>14. \A set \in SUBSET Keys :
           Left(set, ab \o c)
             = {k \in set : ~(k = "Ctrl" /\ CtrlOpen) /\ ~(k = "V" /\ KeyOpen)}
    <2> SUFFICES ASSUME NEW set \in SUBSET Keys
                 PROVE  Left(Left(Left(set, a), b), c)
                          = {k \in set : ~(k = "Ctrl" /\ CtrlOpen) /\ ~(k = "V" /\ KeyOpen)}
      BY <1>12, <1>13 DEF ab
    <2>1. Left(set, a) = {k \in set : ~(k = "V" /\ KeyOpen)}
      BY <1>6, <1>9
    <2>2. Left(Left(set, a), b) = Left(set, a)
      BY <1>6, <1>10, LeftKeys
    <2>3. Left(Left(set, a), c) = {k \in Left(set, a) : ~(k = "Ctrl" /\ CtrlOpen)}
      BY <1>6, <1>11, LeftKeys
    <2> QED
      BY <2>1, <2>2, <2>3
  <1> QED
    BY <1>8, <1>13, <1>14 DEF ab

-----------------------------------------------------------------------------

(* A modifier's press under a condition adds it exactly under that condition. *)
LEMMA PressOne ==
    ASSUME NEW b \in BOOLEAN, NEW k \in Modifiers, NEW but
    PROVE  /\ When(b, <<Down(k)>>) \in Seq(Command) /\ Only(When(b, <<Down(k)>>), {"down", "up"})
           /\ \A set \in SUBSET Keys :
                /\ Left(set, When(b, <<Down(k)>>)) = IF b THEN set \cup {k} ELSE set
                /\ Clean(set, When(b, <<Down(k)>>), but)
  <1>1. Down(k) \in Command /\ Down(k).verb = "down" /\ Down(k).key = k
    BY LineShape DEF Keys
  <1>2. <<Down(k)>> \in Seq(Command) /\ Only(<<Down(k)>>, {"down", "up"})
    BY <1>1, OneIsLines
  <1>3. \A set \in SUBSET Keys : Left(set, <<Down(k)>>) = set \cup {k}
    <2> SUFFICES ASSUME NEW set \in SUBSET Keys PROVE Left(set, <<Down(k)>>) = set \cup {k}
      OBVIOUS
    <2>1. Struck(set, Down(k)) = set \cup {k}
      BY <1>1 DEF Struck, IsUp, IsDown, Keys
    <2> QED
      BY <2>1, LeftOne
  <1>4. \A set \in SUBSET Keys : Clean(set, <<Down(k)>>, but)
    BY <1>1, CleanOne DEF Fits, IsPress, Modifiers
  <1>5. CASE b
    <2>1. When(b, <<Down(k)>>) = <<Down(k)>>
      BY <1>5 DEF When
    <2> QED
      BY <1>2, <1>3, <1>4, <1>5, <2>1
  <1>6. CASE ~b
    <2>1. When(b, <<Down(k)>>) = <<>>
      BY <1>6 DEF When
    <2> QED
      BY <1>6, <2>1, LeftNone, NoneIsLines, CleanNone
  <1> QED
    BY <1>5, <1>6

(* Lines that only lift press nothing and are clean. *)
LEMMA UpsAreClean ==
    ASSUME NEW lines \in Seq(Command), Only(lines, {"up"}), NEW set, NEW but
    PROVE  Clean(set, lines, but) /\ Only(lines, {"down", "up"}) /\ Downless(lines)
  BY LeftDownless DEF Only, Downless

(* What follows a line of a paste in the same chord. *)
HasPress(lines, p) ==
    \E i \in DOMAIN lines : IsPress(lines[i]) /\ lines[i].of = p /\ i < Len(lines)

(* A press among the lines is still among them with lines before or behind. *)
LEMMA HasPressConcat ==
    ASSUME NEW a \in Seq(Command), NEW b \in Seq(Command), NEW p
    PROVE  /\ HasPress(a, p) => HasPress(a \o b, p)
           /\ HasPress(b, p) => HasPress(a \o b, p)
  <1> DEFINE c == a \o b
             m == Len(a)
  <1>1. m \in Nat /\ Len(b) \in Nat /\ DOMAIN c = 1..(m + Len(b)) /\ Len(c) = m + Len(b)
        /\ DOMAIN a = 1..m /\ DOMAIN b = 1..Len(b)
    OBVIOUS
  <1>2. (\A i \in 1..m : c[i] = a[i]) /\ (\A i \in 1..Len(b) : c[m + i] = b[i])
    OBVIOUS
  <1>3. \A i \in 1..Len(b) : m + i \in 1..(m + Len(b)) /\ (i < Len(b) => m + i < m + Len(b))
    OBVIOUS
  <1>4. \A i \in 1..m : i \in 1..(m + Len(b)) /\ (i < m => i < m + Len(b))
    OBVIOUS
  <1> HIDE DEF c, m
  <1>5. HasPress(a, p) => HasPress(c, p)
    BY <1>1, <1>2, <1>4 DEF HasPress, m
  <1>6. HasPress(b, p) => HasPress(c, p)
    BY <1>1, <1>2, <1>3 DEF HasPress
  <1> QED
    BY <1>5, <1>6 DEF c

(* The chord's key, pressed for paste p under the modifiers it wants, and lifted. *)
Tap(p, want) == <<[verb |-> "down", key |-> "V", of |-> p, want |-> want], Up("V")>>

(* The tap is clean when the modifiers it wants are held, and leaves its key
   lifted. *)
LEMMA KeyTap ==
    ASSUME NEW p \in 0..MaxPastes, NEW want \in SUBSET Modifiers, NEW but
    PROVE  /\ Tap(p, want) \in Seq(Command) /\ Only(Tap(p, want), {"down", "up"})
           /\ HasPress(Tap(p, want), p)
           /\ \A set \in SUBSET Keys :
                /\ Left(set, Tap(p, want)) = set \ {"V"}
                /\ set \cap Modifiers = want => Clean(set, Tap(p, want), but)
  <1> DEFINE tap == Tap(p, want)
             press == [verb |-> "down", key |-> "V", of |-> p, want |-> want]
  <1>1. press \in Command /\ press.verb = "down" /\ press.key = "V" /\ press.of = p
        /\ press.want = want /\ IsPress(press)
    BY DEF Command, Line, Keys, IsPress
  <1>2. Up("V") \in Command /\ Up("V").verb = "up" /\ Up("V").key = "V"
    BY LineShape DEF Keys
  <1>3. tap = <<press, Up("V")>>
    BY DEF Tap
  <1> HIDE DEF press, tap
  <1>4. tap = <<press>> \o <<Up("V")>>
    BY <1>1, <1>2, <1>3, Concat11
  <1>5. <<press>> \in Seq(Command) /\ <<Up("V")>> \in Seq(Command)
    BY <1>1, <1>2
  <1>6. tap \in Seq(Command) /\ Only(tap, {"down", "up"}) /\ HasPress(tap, p)
    BY <1>1, <1>2, <1>3 DEF Only, HasPress
  <1>7. ASSUME NEW set \in SUBSET Keys
        PROVE  /\ Left(set, tap) = set \ {"V"}
               /\ set \cap Modifiers = want => Clean(set, tap, but)
    <2>1. Left(set, <<press>>) = set \cup {"V"}
      BY <1>1, LeftOne DEF Struck, IsDown, IsUp, Keys
    <2>2. Left(set \cup {"V"}, <<Up("V")>>) = set \ {"V"}
      BY <1>2, LeftOne, set \cup {"V"} \in SUBSET Keys DEF Struck, IsDown, IsUp, Keys
    <2>3. set \cap Modifiers = want => Clean(set, <<press>>, but)
      BY <1>1, CleanOne DEF Fits
    <2>4. Clean(set \cup {"V"}, <<Up("V")>>, but)
      BY <1>2, CleanOne, set \cup {"V"} \in SUBSET Keys DEF Fits, IsPress, Keys
    <2> DEFINE a == <<press>>
               b == <<Up("V")>>
    <2> HIDE DEF a, b
    <2>5. Left(set, a \o b) = Left(Left(set, a), b)
      BY <1>5, LeftConcat DEF a, b
    <2>6. Clean(set, a \o b, but) <=> Clean(set, a, but) /\ Clean(Left(set, a), b, but)
      BY <1>5, CleanConcat DEF a, b
    <2>7. /\ Left(set, a) = set \cup {"V"} /\ Left(set \cup {"V"}, b) = set \ {"V"}
          /\ (set \cap Modifiers = want => Clean(set, a, but)) /\ Clean(set \cup {"V"}, b, but)
          /\ tap = a \o b
      BY <1>4, <2>1, <2>2, <2>3, <2>4 DEF a, b
    <2> QED
      BY ONLY <2>5, <2>6, <2>7
  <1> QED
    BY <1>6, <1>7 DEF tap

(* Clean lines follow clean lines. *)
LEMMA Follow ==
    ASSUME NEW a \in Seq(Command), NEW b \in Seq(Command), NEW set, NEW t, NEW u, NEW but,
           Clean(set, a, but), Left(set, a) = t, Clean(t, b, but), Left(t, b) = u,
           Only(a, {"down", "up"}), Only(b, {"down", "up"})
    PROVE  /\ a \o b \in Seq(Command) /\ Clean(set, a \o b, but) /\ Left(set, a \o b) = u
           /\ Only(a \o b, {"down", "up"})
  BY LeftConcat, CleanConcat, OnlyConcat, ConcatIsLines

(* A chord sent at once: pressed under its own modifiers, and nothing of it
   left, whatever lock it met. *)
LEMMA ChordIsClean ==
    ASSUME NEW kind \in {"gtk", "terminal", "wine"}, NEW p \in 0..MaxPastes,
           NEW set \in SUBSET Keys, NEW but, shift \in BOOLEAN,
           "Shift" \in set <=> shift, "Ctrl" \notin set, "V" \notin set
    PROVE  LET lines == ChordLines(kind, p)
           IN  /\ lines \in Seq(Command) /\ Only(lines, {"down", "up"}) /\ HasPress(lines, p)
               /\ Clean(set, lines, but) /\ Left(set, lines) = set
  <1> DEFINE want  == ModsOf(kind)
             ctrl  == "Ctrl" \in want
             wrap  == "Shift" \in want /\ ~shift
             lift  == "Shift" \notin want /\ shift
             tap == Tap(p, want)
             l1 == When(lift, <<Up("Shift")>>)
             l2 == When(ctrl, <<Down("Ctrl")>>)
             l3 == When(wrap, <<Down("Shift")>>)
             l5 == When(wrap, <<Up("Shift")>>)
             l6 == When(ctrl, <<Up("Ctrl")>>)
             l7 == When(lift, <<Down("Shift")>>)
             s1 == IF lift THEN set \ {"Shift"} ELSE set
             s2 == IF ctrl THEN s1 \cup {"Ctrl"} ELSE s1
             s3 == IF wrap THEN s2 \cup {"Shift"} ELSE s2
             s4 == s3 \ {"V"}
             s5 == IF wrap THEN s4 \ {"Shift"} ELSE s4
             s6 == IF ctrl THEN s5 \ {"Ctrl"} ELSE s5
             s7 == IF lift THEN s6 \cup {"Shift"} ELSE s6
  <1>1. want \in SUBSET Modifiers
    BY DEF ModsOf, Modifiers
  <1>2. ctrl \in BOOLEAN /\ wrap \in BOOLEAN /\ lift \in BOOLEAN
    OBVIOUS
  <1>3. /\ "Shift" \in Modifiers /\ "Ctrl" \in Modifiers /\ "Shift" \in Keys /\ "Ctrl" \in Keys
        /\ "V" \in Keys /\ Modifiers = {"Ctrl", "Shift"}
    BY DEF Modifiers, Keys
  <1>4. /\ s1 \in SUBSET Keys /\ s2 \in SUBSET Keys /\ s3 \in SUBSET Keys /\ s4 \in SUBSET Keys
        /\ s5 \in SUBSET Keys /\ s6 \in SUBSET Keys
    BY <1>3
  <1>5. s3 \cap Modifiers = want
    BY <1>1, <1>3
  <1>6. s7 = set
    BY <1>1, <1>3
  <1>7. ChordLines(kind, p) = (((((l1 \o l2) \o l3) \o tap) \o l5) \o l6) \o l7
    BY DEF ChordLines, Tap
  <1> HIDE DEF ctrl, wrap, lift
  <1> DEFINE Step(s, l, t) == /\ l \in Seq(Command) /\ Only(l, {"down", "up"})
                              /\ Clean(s, l, but) /\ Left(s, l) = t
  <1>8. Step(set, l1, s1)
    <2>1. /\ l1 \in Seq(Command) /\ Only(l1, {"up"})
          /\ \A x \in SUBSET Keys : Left(x, l1) = IF lift THEN x \ {"Shift"} ELSE x
      <3>1. lift \in BOOLEAN /\ "Shift" \in Keys
        BY <1>2, <1>3
      <3> QED
        BY ONLY <3>1, LiftOne
    <2> HIDE DEF l1
    <2>2. Clean(set, l1, but) /\ Only(l1, {"down", "up"})
      BY <2>1, UpsAreClean
    <2>3. Left(set, l1) = s1
      BY <1>4, <2>1
    <2> QED
      BY <2>1, <2>2, <2>3
  <1>23. Step(s4, l5, s5)
    <2>1. /\ l5 \in Seq(Command) /\ Only(l5, {"up"})
          /\ \A x \in SUBSET Keys : Left(x, l5) = IF wrap THEN x \ {"Shift"} ELSE x
      <3>1. wrap \in BOOLEAN /\ "Shift" \in Keys
        BY <1>2, <1>3
      <3> QED
        BY ONLY <3>1, LiftOne
    <2> HIDE DEF l5
    <2>2. Clean(s4, l5, but) /\ Only(l5, {"down", "up"})
      BY <2>1, UpsAreClean
    <2>3. Left(s4, l5) = s5
      BY <1>4, <2>1
    <2> QED
      BY <2>1, <2>2, <2>3
  <1>9. Step(s5, l6, s6)
    <2>1. /\ l6 \in Seq(Command) /\ Only(l6, {"up"})
          /\ \A x \in SUBSET Keys : Left(x, l6) = IF ctrl THEN x \ {"Ctrl"} ELSE x
      <3>1. ctrl \in BOOLEAN /\ "Ctrl" \in Keys
        BY <1>2, <1>3
      <3> QED
        BY ONLY <3>1, LiftOne
    <2> HIDE DEF l6
    <2>2. Clean(s5, l6, but) /\ Only(l6, {"down", "up"})
      BY <2>1, UpsAreClean
    <2>3. Left(s5, l6) = s6
      BY <1>4, <2>1
    <2> QED
      BY <2>1, <2>2, <2>3
  <1>10. Step(s1, l2, s2)
    BY <1>2, <1>3, <1>4, PressOne
  <1>11. Step(s2, l3, s3) /\ Step(s6, l7, s7)
    BY <1>2, <1>3, <1>4, PressOne
  <1>12. Step(s3, tap, s4) /\ HasPress(tap, p)
    <2>1. /\ tap \in Seq(Command) /\ Only(tap, {"down", "up"}) /\ HasPress(tap, p)
          /\ \A x \in SUBSET Keys :
                /\ Left(x, tap) = x \ {"V"}
                /\ x \cap Modifiers = want => Clean(x, tap, but)
      <3>1. p \in 0..MaxPastes /\ want \in SUBSET Modifiers
        BY <1>1
      <3> QED
        BY ONLY <3>1, KeyTap
    <2> HIDE DEF tap
    <2> QED
      BY <1>4, <1>5, <2>1
  <1> HIDE DEF l1, l2, l3, l5, l6, l7, tap, s1, s2, s3, s4, s5, s6, s7, want
  <1>13. \A a, b, s, t, u : Step(s, a, t) /\ Step(t, b, u) => Step(s, a \o b, u)
    BY Follow
  <1>14. \A a, b, s, t : Step(s, a, t) /\ b \in Seq(Command) =>
             /\ HasPress(a, p) => HasPress(a \o b, p)
             /\ HasPress(b, p) => HasPress(a \o b, p)
    BY HasPressConcat
  <1> DEFINE a2 == l1 \o l2
             a3 == a2 \o l3
             a4 == a3 \o tap
             a5 == a4 \o l5
             a6 == a5 \o l6
             a7 == a6 \o l7
  <1>15. ChordLines(kind, p) = a7
    BY <1>7
  <1> HIDE DEF Step
  <1>16. Step(set, a2, s2)
    BY <1>8, <1>10, <1>13
  <1> HIDE DEF a2
  <1>17. Step(set, a3, s3)
    BY <1>11, <1>13, <1>16
  <1> HIDE DEF a3
  <1>18. Step(set, a4, s4)
    BY <1>12, <1>13, <1>17
  <1>19. HasPress(a4, p)
    BY <1>12, <1>14, <1>17 DEF Step
  <1> HIDE DEF a4
  <1>20. Step(set, a5, s5) /\ HasPress(a5, p)
    BY <1>13, <1>14, <1>18, <1>19, <1>23 DEF Step
  <1> HIDE DEF a5
  <1>21. Step(set, a6, s6) /\ HasPress(a6, p)
    BY <1>9, <1>13, <1>14, <1>20 DEF Step
  <1> HIDE DEF a6
  <1>22. Step(set, a7, s7) /\ HasPress(a7, p)
    BY <1>11, <1>13, <1>14, <1>21 DEF Step
  <1> QED
    BY <1>6, <1>15, <1>22 DEF Step

-----------------------------------------------------------------------------
(* The books of the lane. *)

(* The shape of the state, with lines, slots and answers that can meet. *)
Typed ==
    /\ acks.queue \in Seq(Slots) /\ acks.from \in Nat /\ acks.error \in BOOLEAN
    /\ gate \in BOOLEAN /\ shift \in BOOLEAN /\ pending \in BOOLEAN
    /\ chord.lines \in Seq(Command) /\ chord.sent \in Nat /\ chord.lock \in BOOLEAN
    /\ sock \in {"open", "stale", "closed"} /\ epoch \in Epochs
    /\ wire \in [Epochs -> Seq(Command)] /\ replies \in Seq(Answer)
    /\ greeted \in SUBSET Epochs /\ claims \in [Epochs -> SUBSET Keys]

(* The first slots of the ledger are those of the answers still to be read ... *)
Matched(queue, rs) ==
    Len(rs) <= Len(queue) /\ \A i \in 1..Len(rs) : queue[i].verb = rs[i].verb
(* ... and the slots behind them are those of the lines that have not run. *)
Covered(queue, rs, lines) ==
    /\ Len(queue) = Len(rs) + Len(lines)
    /\ \A i \in 1..Len(lines) : queue[Len(rs) + i].verb = lines[i].verb
(* Every answer pops the slot of the command it answers. *)
Aligned ==
    ~teardown /\ sock # "closed" =>
        /\ Matched(acks.queue, replies)
        /\ sock = "open" => Covered(acks.queue, replies, Here)
(* What an answer says of its command: only a configure is configured, only an
   install is refused, and a hello was greeted. *)
Worded ==
    \A i \in DOMAIN replies :
        /\ replies[i].word = "configured" => replies[i].verb \in {"install", "refresh"}
        /\ replies[i].word = "refused" => replies[i].verb = "install"
        /\ replies[i].word = "hello" => replies[i].verb = "hello" /\ epoch \in greeted
        /\ replies[i].verb = "install" => replies[i].word \in {"configured", "refused"}
(* A connection that is being replaced leaves an empty ledger and a closed gate; a
   closed one has nothing to read, and no chord waits for it. *)
Lost ==
    /\ teardown => acks = Initial /\ ~gate
    /\ sock = "closed" => ~gate /\ replies = <<>> /\ acks.done = NoChord
(* Connections that were never dialled hold nothing. *)
Unborn == \A e \in Epochs : e > epoch => wire[e] = <<>> /\ claims[e] = {}
(* A connection that has not been greeted yet has no press and no configure, and
   holds nothing. *)
FreshLane ==
    sock = "open" =>
      /\ fresh => /\ ~gate /\ ~Asked /\ Mine = {}
                  /\ \A i \in DOMAIN Here : Here[i].verb \notin {"down", "install"}
      /\ ~fresh => epoch \in greeted
(* No older connection has lines left. *)
Alike == \A o \in Epochs : o < epoch => wire[o] = <<>>
(* Until the lines of older connections are done with, the live one holds nothing
   and presses nothing: its gate opens with a configure, which waits for its turn. *)
Older ==
    sock = "open" =>
       \/ Alike
       \/ /\ Mine = {} /\ Downless(Here) /\ ~gate
          /\ \A i \in DOMAIN replies : replies[i].word # "configured"
(* While a draining configure is unanswered, the gate is closed. *)
Drained == DrainAhead(acks) => ~gate
(* No press is queued behind a draining configure, and once it is answered
   nothing is held. *)
NoDowns ==
    /\ sock = "open" => \A i \in DOMAIN Here : Here[i].verb = "install" =>
                          \A j \in DOMAIN Here : i < j => Here[j].verb # "down"
    /\ Lane => \A i \in DOMAIN replies : replies[i].verb = "install" =>
          /\ Downless(Here)
          /\ replies[i].word = "configured" => Mine = {}
(* The bookkeeping of the lane, whatever the keys. *)
Books ==
    /\ Aligned /\ Worded /\ Lost /\ Unborn /\ FreshLane /\ Older /\ Drained /\ NoDowns

-----------------------------------------------------------------------------
(* What stands in the queue after a write. *)
Longer(old, new, lines) ==
    /\ new \in Seq(Slots) /\ Len(new) = Len(old) + Len(lines)
    /\ \A i \in 1..Len(old) : new[i].verb = old[i].verb
    /\ \A i \in 1..Len(lines) : new[Len(old) + i].verb = lines[i].verb

(* Writing lines makes the ledger longer by their slots. *)
LEMMA SentLonger ==
    ASSUME NEW ledger, ledger.queue \in Seq(Slots), NEW lines \in Seq(Command)
    PROVE  Longer(ledger.queue, Sent(ledger, lines).queue, lines)
  <1> DEFINE new == Sent(ledger, lines).queue
  <1>1. /\ new \in Seq(Slots) /\ Len(new) = Len(ledger.queue) + Len(lines)
        /\ \A i \in 1..Len(ledger.queue) : new[i] = ledger.queue[i]
        /\ \A i \in 1..Len(lines) : new[Len(ledger.queue) + i] = Slot(lines[i].verb)
    BY SentQueue
  <1> HIDE DEF new
  <1>3. \A verb : Slot(verb).verb = verb
    BY DEF Slot
  <1>2. Longer(ledger.queue, new, lines)
    BY <1>1, <1>3 DEF Longer
  <1> QED
    BY <1>2 DEF new

(* Marking a slot as the chord's last changes no verb. *)
LEMMA MarkedLonger ==
    ASSUME NEW old, NEW queue \in Seq(Slots), NEW n, NEW lines, Longer(old, queue, lines)
    PROVE  Longer(old, MarkedAt(queue, n), lines) /\ Len(MarkedAt(queue, n)) = Len(queue)
  <1> DEFINE m == MarkedAt(queue, n)
  <1>1. m \in Seq(Slots) /\ Len(m) = Len(queue)
        /\ \A i \in 1..Len(queue) : m[i].verb = queue[i].verb
    <2>1. \A i \in DOMAIN queue :
            queue[i].verb \in {"hello", "ping", "install", "refresh", "down", "up"}
      <3> SUFFICES ASSUME NEW i \in DOMAIN queue
                   PROVE  queue[i].verb \in {"hello", "ping", "install", "refresh", "down", "up"}
        OBVIOUS
      <3>1. queue[i] \in Slots
        OBVIOUS
      <3> QED
        BY <3>1 DEF Slots
    <2>2. \A i \in DOMAIN queue : [final |-> i = n, verb |-> queue[i].verb] \in Slots
      BY <2>1 DEF Slots
    <2> QED
      BY <2>2 DEF MarkedAt
  <1> HIDE DEF m
  <1>2. Longer(old, m, lines)
    BY <1>1 DEF Longer
  <1> QED
    BY <1>1, <1>2 DEF m

(* A ledger that grew with the queue still matches the answers and the queue. *)
LEMMA LongerMatches ==
    ASSUME NEW old \in Seq(Slots), NEW new, NEW rs \in Seq(Answer), NEW here \in Seq(Command),
           NEW lines \in Seq(Command), Longer(old, new, lines), Matched(old, rs)
    PROVE  /\ Matched(new, rs)
           /\ Covered(old, rs, here) => Covered(new, rs, here \o lines)
  <1>1. Matched(new, rs)
    BY DEF Matched, Longer
  <1>2. ASSUME Covered(old, rs, here) PROVE Covered(new, rs, here \o lines)
    <2> DEFINE c == here \o lines
               m == Len(here)
               r == Len(rs)
    <2>1. m \in Nat /\ r \in Nat /\ Len(lines) \in Nat /\ Len(c) = m + Len(lines)
      OBVIOUS
    <2>2. (\A i \in 1..m : c[i] = here[i]) /\ (\A i \in 1..Len(lines) : c[m + i] = lines[i])
      OBVIOUS
    <2>3. \A i \in 1..(m + Len(lines)) : i \in 1..m \/ (i - m \in 1..Len(lines) /\ i = m + (i - m))
      OBVIOUS
    <2>4. Len(old) = r + m /\ \A i \in 1..m : old[r + i].verb = here[i].verb
      BY <1>2 DEF Covered
    <2> HIDE DEF c, m, r
    <2>5. \A i \in 1..m : new[r + i].verb = c[i].verb
      <3>1. \A i \in 1..m : r + i \in 1..Len(old)
        BY <2>1, <2>4
      <3> QED
        BY <2>2, <2>4, <3>1 DEF Longer
    <2>6. \A i \in 1..Len(lines) : new[r + (m + i)].verb = c[m + i].verb
      <3>1. \A i \in 1..Len(lines) : r + (m + i) = Len(old) + i
        BY <2>1, <2>4
      <3> QED
        BY <2>2, <3>1 DEF Longer
    <2>7. \A i \in 1..Len(c) : new[r + i].verb = c[i].verb
      BY <2>1, <2>3, <2>5, <2>6, ZenonT(40)
    <2>8. Len(new) = r + Len(c)
      BY <2>1, <2>4 DEF Longer
    <2> QED
      BY <2>7, <2>8 DEF Covered, c, r
  <1> QED
    BY <1>1, <1>2

(* The answer read and the slot popped are of one command, and the rest match. *)
LEMMA PopMatches ==
    ASSUME NEW queue \in Seq(Slots), NEW rs \in Seq(Answer), NEW here \in Seq(Command),
           rs # <<>>, Matched(queue, rs)
    PROVE  /\ queue # <<>> /\ Tail(queue) \in Seq(Slots) /\ Tail(rs) \in Seq(Answer)
           /\ Head(queue).verb = Head(rs).verb
           /\ Len(Tail(queue)) = Len(queue) - 1 /\ Len(Tail(rs)) = Len(rs) - 1
           /\ \A i \in 1..(Len(queue) - 1) : Tail(queue)[i] = queue[i + 1]
           /\ \A i \in 1..(Len(rs) - 1) : Tail(rs)[i] = rs[i + 1]
           /\ Matched(Tail(queue), Tail(rs))
           /\ Covered(queue, rs, here) => Covered(Tail(queue), Tail(rs), here)
  <1> DEFINE q == Tail(queue)
             s == Tail(rs)
  <1>1. Len(rs) \in Nat /\ Len(rs) > 0 /\ Len(queue) \in Nat /\ Len(queue) > 0 /\ Len(here) \in Nat
    BY DEF Matched
  <1>2. queue # <<>> /\ Head(queue) = queue[1] /\ Head(rs) = rs[1]
    BY <1>1
  <1>3. /\ q \in Seq(Slots) /\ Len(q) = Len(queue) - 1
        /\ \A i \in 1..(Len(queue) - 1) : q[i] = queue[i + 1]
    BY <1>2
  <1>4. /\ s \in Seq(Answer) /\ Len(s) = Len(rs) - 1
        /\ \A i \in 1..(Len(rs) - 1) : s[i] = rs[i + 1]
    OBVIOUS
  <1> HIDE DEF q, s
  <1>5. Matched(q, s)
    <2>1. Len(rs) <= Len(queue) /\ \A i \in 1..Len(rs) : queue[i].verb = rs[i].verb
      BY DEF Matched
    <2>2. ASSUME NEW i \in 1..Len(s) PROVE q[i].verb = s[i].verb
      <3>1. i \in 1..(Len(rs) - 1) /\ i \in 1..(Len(queue) - 1) /\ i + 1 \in 1..Len(rs)
        BY <1>1, <1>4, <2>1
      <3>2. q[i] = queue[i + 1] /\ s[i] = rs[i + 1]
        BY <1>3, <1>4, <3>1
      <3> QED
        BY <2>1, <3>1, <3>2
    <2> QED
      BY <1>1, <1>3, <1>4, <2>1, <2>2 DEF Matched
  <1>6. Covered(queue, rs, here) => Covered(q, s, here)
    <2> SUFFICES ASSUME Covered(queue, rs, here) PROVE Covered(q, s, here)
      OBVIOUS
    <2>1. Len(queue) = Len(rs) + Len(here)
      BY DEF Covered
    <2>2. ASSUME NEW i \in 1..Len(here) PROVE q[Len(s) + i].verb = here[i].verb
      <3>1. Len(s) + i \in 1..(Len(queue) - 1) /\ Len(s) + i + 1 = Len(rs) + i
        BY <1>1, <1>4, <2>1
      <3> QED
        BY <1>3, <3>1 DEF Covered
    <2> QED
      BY <1>1, <1>3, <1>4, <2>1, <2>2 DEF Covered
  <1>7. Head(queue).verb = Head(rs).verb
    BY <1>1, <1>2 DEF Matched
  <1> QED
    BY <1>2, <1>3, <1>4, <1>5, <1>6, <1>7 DEF q, s

(* A line that ran becomes the answer of its slot. *)
LEMMA RunMatches ==
    ASSUME NEW queue \in Seq(Slots), NEW rs \in Seq(Answer), NEW here \in Seq(Command),
           here # <<>>, Matched(queue, rs), Covered(queue, rs, here),
           NEW answer \in Answer, answer.verb = Head(here).verb
    PROVE  /\ Matched(queue, Append(rs, answer))
           /\ Covered(queue, Append(rs, answer), Tail(here))
  <1> DEFINE s == Append(rs, answer)
             t == Tail(here)
  <1>1. Len(rs) \in Nat /\ Len(here) \in Nat /\ Len(here) > 0
    OBVIOUS
  <1>2. /\ Len(s) = Len(rs) + 1 /\ s[Len(rs) + 1] = answer
        /\ \A i \in 1..Len(rs) : s[i] = rs[i]
    OBVIOUS
  <1>3. /\ Len(t) = Len(here) - 1 /\ Head(here) = here[1]
        /\ \A i \in 1..(Len(here) - 1) : t[i] = here[i + 1]
    OBVIOUS
  <1>4. /\ Len(queue) = Len(rs) + Len(here)
        /\ \A i \in 1..Len(here) : queue[Len(rs) + i].verb = here[i].verb
    BY DEF Covered
  <1> HIDE DEF s, t
  <1>5. Matched(queue, s)
    <2>1. queue[Len(rs) + 1].verb = answer.verb
      BY <1>1, <1>3, <1>4
    <2>2. \A i \in 1..Len(rs) : queue[i].verb = rs[i].verb
      BY DEF Matched
    <2>3. \A i \in 1..Len(s) : i \in 1..Len(rs) \/ i = Len(rs) + 1
      BY <1>1, <1>2
    <2> QED
      BY <1>1, <1>2, <1>4, <2>1, <2>2, <2>3 DEF Matched
  <1>6. Covered(queue, s, t)
    <2>1. ASSUME NEW i \in 1..Len(t) PROVE queue[Len(s) + i].verb = t[i].verb
      <3>1. i + 1 \in 1..Len(here) /\ Len(s) + i = Len(rs) + (i + 1)
        BY <1>1, <1>2, <1>3
      <3> QED
        BY <1>1, <1>3, <1>4, <3>1
    <2> QED
      BY <1>1, <1>2, <1>3, <1>4, <2>1 DEF Covered
  <1> QED
    BY <1>5, <1>6 DEF s, t

-----------------------------------------------------------------------------

(* Where a line of the queue is, once lines are written behind it. *)
LEMMA InHere ==
    ASSUME NEW here \in Seq(Command), NEW lines \in Seq(Command)
    PROVE  /\ here \o lines \in Seq(Command) /\ Len(here \o lines) = Len(here) + Len(lines)
           /\ \A i \in DOMAIN (here \o lines) :
                \/ i \in DOMAIN here /\ (here \o lines)[i] = here[i]
                \/ i - Len(here) \in DOMAIN lines /\ (here \o lines)[i] = lines[i - Len(here)]
                   /\ i > Len(here)
           /\ \A i \in DOMAIN here : i \in DOMAIN (here \o lines) /\ i <= Len(here)
  OBVIOUS

(* A slot that none of the new lines made was there before. *)
LEMMA AskedLonger ==
    ASSUME NEW old \in Seq(Slots), NEW new, NEW lines \in Seq(Command), Longer(old, new, lines),
           NEW verbs, \A i \in DOMAIN lines : lines[i].verb \notin verbs,
           \E i \in DOMAIN new : new[i].verb \in verbs
    PROVE  \E i \in DOMAIN old : old[i].verb \in verbs
  <1>1. PICK i \in 1..Len(new) : new[i].verb \in verbs
    BY DEF Longer
  <1>2. CASE i \in 1..Len(old)
    BY <1>1, <1>2 DEF Longer
  <1>3. CASE i > Len(old)
    <2>1. i - Len(old) \in 1..Len(lines) /\ i = Len(old) + (i - Len(old))
      BY <1>3 DEF Longer
    <2>2. new[i].verb = lines[i - Len(old)].verb
      BY <2>1 DEF Longer
    <2> QED
      BY <1>1, <2>1, <2>2
  <1> QED
    BY <1>2, <1>3 DEF Longer

(* Whatever the panel writes keeps the books, provided it writes presses only with
   the gate open and closes the gate with a draining configure. *)
LEMMA WritingBooks ==
    ASSUME Typed, Books, ~teardown, NEW lines \in Seq(Command),
           Longer(acks.queue, acks'.queue, lines), wire' = Written(lines),
           sock' = sock, teardown' = teardown, epoch' = epoch, fresh' = fresh,
           replies' = replies, greeted' = greeted, claims' = claims,
           sock = "closed" => acks'.done = NoChord,
           \/ /\ Only(lines, {"down", "up", "hello", "ping"}) /\ gate' = gate
              /\ Downless(lines) \/ gate
           \/ Downless(lines) /\ gate /\ ~gate'
    PROVE  Books'
  <1> USE DEF Books
  <1>1. /\ wire' \in [Epochs -> Seq(Command)]
        /\ Here' = IF sock = "open" THEN Here \o lines ELSE Here
        /\ \A e \in Epochs : e # epoch => wire'[e] = wire[e]
    BY WrittenHere DEF Typed, Here
  <1>2. Here \in Seq(Command) /\ acks.queue \in Seq(Slots) /\ replies \in Seq(Answer)
        /\ epoch \in Epochs /\ Mine' = Mine
    BY DEF Typed, Here, Mine
  <1>3. gate' => gate
    OBVIOUS
  <1>4. gate /\ sock = "open" => ~fresh
    BY DEF FreshLane
  <1>5. Aligned'
    BY <1>1, <1>2, LongerMatches DEF Aligned
  <1>6. Worded'
    BY DEF Worded
  <1>7. Lost'
    BY <1>3 DEF Lost
  <1>8. Unborn'
    <2>1. \A e \in Epochs : e > epoch => e # epoch
      BY DEF Epochs
    <2> QED
      BY <1>1, <2>1 DEF Unborn
  <1>9. FreshLane'
    <2> SUFFICES ASSUME sock = "open" PROVE FreshLane'
      BY DEF FreshLane
    <2>1. CASE ~fresh
      BY <2>1 DEF FreshLane
    <2>2. CASE fresh
      <3>1. /\ ~gate /\ ~Asked /\ Mine = {}
            /\ \A i \in DOMAIN Here : Here[i].verb \notin {"down", "install"}
        BY <2>2 DEF FreshLane
      <3>2. Only(lines, {"down", "up", "hello", "ping"}) /\ Downless(lines) /\ ~gate'
        BY <3>1
      <3>3. \A i \in DOMAIN lines : lines[i].verb \notin {"down", "install", "refresh"}
        BY <3>2 DEF Only, Downless
      <3>4. ~Asked'
        <4>1. \A i \in DOMAIN lines : lines[i].verb \notin {"install", "refresh"}
          BY <3>3
        <4>2. ~(\E i \in DOMAIN acks.queue : acks.queue[i].verb \in {"install", "refresh"})
          BY <3>1 DEF Asked
        <4>3. ~(\E i \in DOMAIN acks'.queue : acks'.queue[i].verb \in {"install", "refresh"})
          BY <1>2, <4>1, <4>2, AskedLonger
        <4> QED
          BY <4>3 DEF Asked
      <3>5. \A i \in DOMAIN Here' : Here'[i].verb \notin {"down", "install"}
        BY <1>1, <1>2, <3>1, <3>3, InHere
      <3> QED
        BY <1>2, <2>2, <3>2, <3>4, <3>5 DEF FreshLane
    <2> QED
      BY <2>1, <2>2
  <1>10. Older'
    <2>1. Alike => Alike'
      <3>1. \A e \in Epochs : e < epoch => e # epoch
        BY DEF Epochs
      <3> QED
        BY <1>1, <3>1 DEF Alike
    <2>2. ASSUME sock = "open", Downless(Here), Downless(lines) PROVE Downless(Here')
      BY <1>1, <1>2, <2>2, InHere DEF Downless
    <2> QED
      BY <1>2, <1>3, <2>1, <2>2 DEF Older
  <1>11. Drained'
    <2>1. CASE gate'
      <3>1. Only(lines, {"down", "up", "hello", "ping"}) /\ gate
        BY <2>1
      <3>2. \A i \in DOMAIN lines : lines[i].verb \notin {"install"}
        BY <3>1 DEF Only
      <3>3. DrainAhead(acks)' => DrainAhead(acks)
        <4> SUFFICES ASSUME \E i \in DOMAIN acks'.queue : acks'.queue[i].verb \in {"install"}
                     PROVE  \E i \in DOMAIN acks.queue : acks.queue[i].verb \in {"install"}
          BY DEF DrainAhead
        <4> QED
          BY <1>2, <3>2, AskedLonger
      <3> QED
        BY <3>1, <3>3 DEF Drained
    <2>2. CASE ~gate'
      BY <2>2 DEF Drained
    <2> QED
      BY <2>1, <2>2
  <1>12. NoDowns'
    <2> SUFFICES ASSUME sock = "open" PROVE NoDowns'
      BY DEF NoDowns, Lane
    <2>1. Here' = Here \o lines
      BY <1>1
    <2>2. Covered(acks.queue, replies, Here) /\ Matched(acks.queue, replies)
      BY DEF Aligned
    <2>3. ASSUME ~Downless(lines)
          PROVE  /\ \A i \in DOMAIN Here : Here[i].verb # "install"
                 /\ \A i \in DOMAIN replies : replies[i].verb # "install"
                 /\ \A i \in DOMAIN lines : lines[i].verb # "install"
      <3>1. ~DrainAhead(acks) /\ Only(lines, {"down", "up", "hello", "ping"})
        BY <2>3 DEF Drained
      <3>2. \A i \in 1..Len(acks.queue) : acks.queue[i].verb # "install"
        BY <1>2, <3>1 DEF DrainAhead
      <3>3. \A i \in 1..Len(replies) : i \in 1..Len(acks.queue)
        BY <1>2, <2>2 DEF Matched
      <3>4. \A i \in 1..Len(Here) : Len(replies) + i \in 1..Len(acks.queue)
        BY <1>2, <2>2 DEF Covered
      <3>5. \A i \in DOMAIN lines : lines[i].verb # "install"
        BY <3>1 DEF Only
      <3>6. \A i \in 1..Len(replies) : replies[i].verb # "install"
        BY <2>2, <3>2, <3>3 DEF Matched
      <3>7. \A i \in 1..Len(Here) : Here[i].verb # "install"
        BY <2>2, <3>2, <3>4 DEF Covered
      <3>8. DOMAIN Here = 1..Len(Here) /\ DOMAIN replies = 1..Len(replies)
        BY <1>2
      <3> QED
        BY ONLY <3>5, <3>6, <3>7, <3>8
    <2>4. CASE ~Downless(lines)
      <3>1. \A i \in DOMAIN Here' : Here'[i].verb # "install"
        BY <1>2, <2>1, <2>3, <2>4, InHere
      <3> QED
        BY <2>3, <2>4, <3>1 DEF NoDowns
    <2>5. CASE Downless(lines)
      <3>1. \A i \in DOMAIN Here' : Here'[i].verb = "install" =>
               \A j \in DOMAIN Here' : i < j => Here'[j].verb # "down"
        <4> SUFFICES ASSUME NEW i \in DOMAIN Here', NEW j \in DOMAIN Here', i < j,
                            Here'[i].verb = "install", Here'[j].verb = "down"
                     PROVE  FALSE
          OBVIOUS
        <4>1. j \in DOMAIN Here /\ Here'[j] = Here[j] /\ j <= Len(Here)
          BY <1>2, <2>1, <2>5, InHere DEF Downless
        <4>2. i \in DOMAIN Here /\ Here'[i] = Here[i]
          BY <1>2, <2>1, <4>1, InHere
        <4> QED
          BY <4>1, <4>2 DEF NoDowns
      <3>2. Downless(Here) => Downless(Here')
        BY <1>2, <2>1, <2>5, InHere DEF Downless
      <3> QED
        BY <1>2, <3>1, <3>2 DEF NoDowns, Lane
    <2> QED
      BY <2>4, <2>5
  <1> QED
    BY <1>5, <1>6, <1>7, <1>8, <1>9, <1>10, <1>11, <1>12

-----------------------------------------------------------------------------

(* What the helper answers, and what it may leave of the claims. *)
LEMMA OutcomeIs ==
    ASSUME Typed, NEW e \in Epochs, NEW line \in Command, NEW out \in Outcomes(e, line)
    PROVE  /\ out[1] \in Words /\ out[2] \in [Epochs -> SUBSET Keys]
           /\ out[1] = "configured" => line.verb \in {"install", "refresh"}
           /\ out[1] = "refused" => line.verb = "install"
           /\ out[1] = "hello" => line.verb = "hello"
           /\ line.verb = "install" /\ e \in greeted => out[1] \in {"configured", "refused"}
           /\ line.verb = "down" => out[1] \in {"ok", "err"}
           /\ e \notin greeted /\ line.verb # "hello" => out[2] = claims
           /\ line.verb = "install" => out[2] = claims \/ \A o \in Epochs : out[2][o] = {}
           /\ line.verb = "install" /\ out[1] = "configured" => \A o \in Epochs : out[2][o] = {}
           /\ line.verb # "install" => \A o \in Epochs : o # e => out[2][o] = claims[o]
           /\ line.verb # "down" => \A o \in Epochs : out[2][o] \subseteq claims[o]
           /\ line.verb # "install" /\ e \in greeted =>
                /\ out[2][e] \subseteq Struck(claims[e], line)
                /\ out[2][e] \cap Modifiers = Struck(claims[e], line) \cap Modifiers
  <1>0. line.verb \in {"hello", "ping", "install", "refresh", "down", "up"}
    BY DEF Command, Line
  <1>1. claims \in [Epochs -> SUBSET Keys]
    BY DEF Typed
  <1>2. CASE e \notin greeted /\ line.verb # "hello"
    <2>1. out = <<"err", claims>>
      BY <1>2 DEF Outcomes
    <2> QED
      BY <1>1, <1>2, <2>1 DEF Words
  <1>3. CASE line.verb = "hello"
    <2>1. out = <<"hello", claims>>
      BY <1>3 DEF Outcomes
    <2> QED
      BY <1>1, <1>3, <2>1 DEF Words, Struck, IsUp, IsDown
  <1>4. CASE e \in greeted /\ line.verb = "ping"
    <2>1. out = <<"pong", claims>>
      BY <1>4 DEF Outcomes
    <2> QED
      BY <1>1, <1>4, <2>1 DEF Words, Struck, IsUp, IsDown
  <1>5. CASE e \in greeted /\ line.verb = "refresh"
    <2>1. out = <<"configured", claims>>
      BY <1>5 DEF Outcomes
    <2> QED
      BY <1>1, <1>5, <2>1 DEF Words, Struck, IsUp, IsDown
  <1>6. CASE e \in greeted /\ line.verb = "install"
    <2> DEFINE none == [o \in Epochs |-> {}]
    <2>1. \/ out = <<"configured", none>> \/ out = <<"refused", claims>>
          \/ out = <<"refused", none>>
      BY <1>6 DEF Outcomes
    <2> QED
      BY <1>1, <1>6, <2>1 DEF Words
  <1>7. CASE e \in greeted /\ line.verb = "down"
    <2> DEFINE k == line.key
               more == [claims EXCEPT ![e] = @ \cup {k}]
    <2>0. k \in Keys
      BY <1>7 DEF Command
    <2>1. out = <<"ok", more>> \/ (k = "V" /\ out = <<"err", claims>>)
      BY <1>7 DEF Outcomes
    <2>2. /\ more \in [Epochs -> SUBSET Keys] /\ more[e] = claims[e] \cup {k}
          /\ \A o \in Epochs : o # e => more[o] = claims[o]
      BY <1>1, <2>0
    <2>3. Struck(claims[e], line) = claims[e] \cup {k}
      BY <1>1, <1>7, <2>0 DEF Struck, IsUp, IsDown
    <2> HIDE DEF k, more
    <2>4. CASE out = <<"ok", more>>
      BY <1>1, <1>7, <2>2, <2>3, <2>4 DEF Words
    <2>5. CASE k = "V" /\ out = <<"err", claims>>
      BY <1>1, <1>7, <2>3, <2>5 DEF Words, Modifiers
    <2> QED
      BY <2>1, <2>4, <2>5
  <1>8. CASE e \in greeted /\ line.verb = "up"
    <2> DEFINE k == line.key
               less == [claims EXCEPT ![e] = @ \ {k}]
    <2>1. out = <<"ok", less>> \/ (k \notin claims[e] /\ out = <<"notHolding", claims>>)
      BY <1>8 DEF Outcomes
    <2>2. /\ less \in [Epochs -> SUBSET Keys] /\ less[e] = claims[e] \ {k}
          /\ \A o \in Epochs : o # e => less[o] = claims[o]
      BY <1>1
    <2>3. Struck(claims[e], line) = claims[e] \ {k}
      BY <1>1, <1>8 DEF Struck, IsUp, IsDown
    <2> HIDE DEF k, less
    <2>4. CASE out = <<"ok", less>>
      BY <1>1, <1>8, <2>2, <2>3, <2>4 DEF Words
    <2>5. CASE k \notin claims[e] /\ out = <<"notHolding", claims>>
      BY <1>1, <1>8, <2>3, <2>5 DEF Words
    <2> QED
      BY <2>1, <2>4, <2>5
  <1> QED
    BY <1>0, <1>2, <1>3, <1>4, <1>5, <1>6, <1>7, <1>8

(* What a run of one line does to the lane. *)
Runs(e, out) ==
    LET line == Head(wire[e])
    IN  /\ wire[e] # <<>> /\ InTurn(e) /\ line \in Command /\ out \in Outcomes(e, line)
        /\ claims' = out[2]
        /\ greeted' = IF line.verb = "hello" THEN greeted \cup {e} ELSE greeted
        /\ wire' = [wire EXCEPT ![e] = IF Heard(e) THEN Tail(wire[e]) ELSE <<>>]
        /\ replies' = IF Heard(e) THEN Append(replies, [word |-> out[1], verb |-> line.verb])
                                  ELSE replies
        /\ UNCHANGED <<panel, link>>

(* A run of the helper is of a line, with an outcome. *)
LEMMA RunIs ==
    ASSUME Typed, NEW e \in Epochs, Run(e)
    PROVE  \E out : Runs(e, out)
  <1>1. wire[e] # <<>> /\ wire[e] \in Seq(Command)
    BY DEF Run, Typed
  <1>2. Head(wire[e]) \in Command
    BY <1>1
  <1>3. PICK out \in Outcomes(e, Head(wire[e])) :
          /\ claims' = out[2]
          /\ greeted' = IF Head(wire[e]).verb = "hello" THEN greeted \cup {e} ELSE greeted
          /\ IF Heard(e)
             THEN /\ wire' = [wire EXCEPT ![e] = Tail(@)]
                  /\ replies' = Append(replies, [word |-> out[1],
                                                 verb |-> Head(wire[e]).verb])
             ELSE /\ wire' = [wire EXCEPT ![e] = <<>>]
                  /\ UNCHANGED replies
    BY DEF Run
  <1>4. Runs(e, out)
    BY <1>1, <1>2, <1>3 DEF Runs, Run
  <1> QED
    BY <1>4

(* A line that runs keeps the shape of the state. *)
LEMMA RunTyped ==
    ASSUME Typed, NEW e \in Epochs, NEW out, Runs(e, out)
    PROVE  Typed'
  <1> DEFINE line == Head(wire[e])
             answer == [word |-> out[1], verb |-> line.verb]
  <1>1. line \in Command /\ out \in Outcomes(e, line) /\ wire[e] # <<>>
    BY DEF Runs
  <1>2. out[1] \in Words /\ claims' \in [Epochs -> SUBSET Keys]
    BY <1>1, OutcomeIs DEF Runs
  <1>3. line.verb \in {"hello", "ping", "install", "refresh", "down", "up"}
    BY <1>1 DEF Command, Line
  <1>4. answer \in Answer
    BY <1>2, <1>3 DEF Answer
  <1> HIDE DEF answer
  <1>5. replies' \in Seq(Answer)
    <2>1. replies' = replies \/ replies' = Append(replies, answer)
      BY DEF Runs, answer
    <2>2. replies \in Seq(Answer)
      BY DEF Typed
    <2>3. Append(replies, answer) \in Seq(Answer)
      BY <1>4, <2>2
    <2> QED
      BY <2>1, <2>2, <2>3
  <1>6. wire' \in [Epochs -> Seq(Command)]
    <2>1. wire[e] \in Seq(Command) /\ Tail(wire[e]) \in Seq(Command)
      BY <1>1 DEF Typed
    <2> QED
      BY <2>1 DEF Runs, Typed
  <1>7. greeted' \in SUBSET Epochs
    BY DEF Runs, Typed
  <1> QED
    BY <1>2, <1>5, <1>6, <1>7 DEF Typed, Runs, panel, link

(* A line that runs keeps the books: its answer takes its place in them. *)
LEMMA RunBooks ==
    ASSUME Typed, Books, NEW e \in Epochs, NEW out, Runs(e, out)
    PROVE  Books'
  <1> USE DEF Books
  <1> DEFINE line == Head(wire[e])
             answer == [word |-> out[1], verb |-> line.verb]
  <1>1. line \in Command /\ out \in Outcomes(e, line) /\ wire[e] # <<>> /\ claims' = out[2]
    BY DEF Runs
  <1>2. /\ acks' = acks /\ gate' = gate /\ sock' = sock /\ teardown' = teardown
        /\ fresh' = fresh /\ epoch' = epoch
    BY DEF Runs, panel, link
  <1>3. /\ \A o \in Epochs : o # e => wire'[o] = wire[o]
        /\ wire'[e] = IF Heard(e) THEN Tail(wire[e]) ELSE <<>>
    BY DEF Runs, Typed
  <1>4. answer \in Answer /\ answer.verb = line.verb /\ answer.word = out[1]
    <2>1. line.verb \in {"hello", "ping", "install", "refresh", "down", "up"}
      BY <1>1 DEF Command, Line
    <2> QED
      BY <1>1, <2>1, OutcomeIs DEF Answer
  <1>5. replies' = IF Heard(e) THEN Append(replies, answer) ELSE replies
    BY DEF Runs
  <1>6. greeted \subseteq greeted' /\ (line.verb = "hello" => e \in greeted')
    BY DEF Runs
  <1>7. /\ acks.queue \in Seq(Slots) /\ replies \in Seq(Answer) /\ Here \in Seq(Command)
        /\ epoch \in Epochs
    BY DEF Typed, Here
  <1>8. e <= epoch
    BY <1>1, <1>7 DEF Unborn, Epochs
  <1>9. Heard(e) <=> e = epoch /\ sock = "open"
    BY DEF Heard
  <1> HIDE DEF answer
  <1>11. ASSUME sock = "open", e = epoch
         PROVE  /\ Here # <<>> /\ Head(Here) = line /\ Here' = Tail(Here)
                /\ Tail(Here) \in Seq(Command) /\ Len(Tail(Here)) = Len(Here) - 1
                /\ Here[1] = line
                /\ \A i \in 1..(Len(Here) - 1) : Tail(Here)[i] = Here[i + 1]
                /\ replies' = Append(replies, answer)
    BY <1>1, <1>2, <1>3, <1>5, <1>7, <1>9, <1>11 DEF Here
  <1>12. ASSUME sock = "open", e # epoch
         PROVE  Here' = Here /\ replies' = replies
    BY <1>2, <1>3, <1>5, <1>7, <1>9, <1>12 DEF Here
  <1>13. sock # "open" => replies' = replies
    BY <1>5, <1>9
  <1>14. DOMAIN Here = 1..Len(Here) /\ DOMAIN replies = 1..Len(replies)
         /\ Len(Here) \in Nat /\ Len(replies) \in Nat
    BY <1>7
  <1>15. \A i \in DOMAIN Append(replies, answer) :
            \/ i \in DOMAIN replies /\ Append(replies, answer)[i] = replies[i]
            \/ Append(replies, answer)[i] = answer
    BY <1>4, <1>7
  <1>16. ASSUME sock = "open"
         PROVE  /\ fresh => line.verb # "install" \/ e # epoch
                /\ (e = epoch /\ ~fresh => e \in greeted)
    BY <1>11, <1>14, <1>16, SMTT(40) DEF FreshLane
  <1>20. Aligned'
    <2> SUFFICES ASSUME ~teardown, sock # "closed" PROVE Aligned'
      BY <1>2 DEF Aligned
    <2>1. Matched(acks.queue, replies) /\ (sock = "open" => Covered(acks.queue, replies, Here))
      BY DEF Aligned
    <2>2. CASE sock = "open" /\ e = epoch
      <3>1. Here # <<>> /\ Head(Here) = line
        BY <1>11, <2>2
      <3>2. Matched(acks.queue, Append(replies, answer))
            /\ Covered(acks.queue, Append(replies, answer), Tail(Here))
        BY <1>4, <1>7, <2>1, <2>2, <3>1, RunMatches
      <3> QED
        BY <1>2, <1>11, <2>2, <3>2 DEF Aligned
    <2>3. CASE sock = "open" /\ e # epoch
      BY <1>2, <1>12, <2>1, <2>3 DEF Aligned
    <2>4. CASE sock # "open"
      BY <1>2, <1>13, <2>1, <2>4 DEF Aligned
    <2> QED
      BY <2>2, <2>3, <2>4
  <1>21. Worded'
    <2> SUFFICES ASSUME NEW i \in DOMAIN replies'
                 PROVE  /\ replies'[i].word = "configured"
                             => replies'[i].verb \in {"install", "refresh"}
                        /\ replies'[i].word = "refused" => replies'[i].verb = "install"
                        /\ replies'[i].word = "hello"
                             => replies'[i].verb = "hello" /\ epoch \in greeted'
                        /\ replies'[i].verb = "install"
                             => replies'[i].word \in {"configured", "refused"}
      BY <1>2 DEF Worded
    <2>1. CASE i \in DOMAIN replies /\ replies'[i] = replies[i]
      BY <1>6, <2>1 DEF Worded
    <2>2. CASE sock = "open" /\ e = epoch /\ replies'[i] = answer
      <3>1. line.verb = "install" => e \in greeted
        BY <1>16, <2>2
      <3>2. /\ out[1] = "configured" => line.verb \in {"install", "refresh"}
            /\ out[1] = "refused" => line.verb = "install"
            /\ out[1] = "hello" => line.verb = "hello"
            /\ line.verb = "install" /\ e \in greeted => out[1] \in {"configured", "refused"}
        BY <1>1, OutcomeIs
      <3> QED
        BY <1>4, <1>6, <2>2, <3>1, <3>2
    <2> QED
      BY <1>5, <1>9, <1>15, <2>1, <2>2
  <1>22. Lost'
    BY <1>2, <1>13 DEF Lost
  <1>23. Unborn'
    <2> SUFFICES ASSUME NEW o \in Epochs, o > epoch PROVE wire'[o] = <<>> /\ claims'[o] = {}
      BY <1>2 DEF Unborn
    <2>1. o # e /\ wire[o] = <<>> /\ claims[o] = {}
      BY <1>7, <1>8 DEF Unborn, Epochs
    <2>2. claims'[o] = {}
      BY <1>1, <2>1, OutcomeIs
    <2> QED
      BY <1>3, <2>1, <2>2
  <1>24. FreshLane'
    <2> SUFFICES ASSUME sock = "open" PROVE FreshLane'
      BY <1>2 DEF FreshLane
    <2>1. CASE ~fresh
      BY <1>2, <1>6, <2>1 DEF FreshLane
    <2>2. CASE fresh
      <3>1. ~gate /\ ~Asked /\ Mine = {}
            /\ \A i \in DOMAIN Here : Here[i].verb \notin {"down", "install"}
        BY <2>2 DEF FreshLane
      <3>2. \A i \in DOMAIN Here' : Here'[i].verb \notin {"down", "install"}
        <4>1. CASE e = epoch
          BY <1>11, <1>14, <3>1, <4>1, SMTT(30)
        <4>2. CASE e # epoch
          BY <1>12, <3>1, <4>2
        <4> QED
          BY <4>1, <4>2
      <3>3. line.verb # "down" \/ e # epoch
        BY <1>11, <1>14, <3>1
      <3>4. claims'[epoch] = {}
        BY <1>1, <1>7, <3>1, <3>3, OutcomeIs DEF Mine
      <3> QED
        BY <1>2, <2>2, <3>1, <3>2, <3>4 DEF FreshLane, Asked, Mine
    <2> QED
      BY <2>1, <2>2
  <1>25. Older'
    <2> SUFFICES ASSUME sock = "open" PROVE Older'
      BY <1>2 DEF Older
    <2>1. Alike => Alike'
      <3> SUFFICES ASSUME Alike, NEW o \in Epochs, o < epoch PROVE wire'[o] = <<>>
        BY <1>2 DEF Alike
      <3>1. wire[o] = <<>>
        BY DEF Alike
      <3>2. o # e
        BY <1>1, <3>1
      <3> QED
        BY <1>3, <3>1, <3>2
    <2>2. CASE ~Alike
      <3>1. /\ Mine = {} /\ Downless(Here) /\ ~gate
            /\ \A i \in DOMAIN replies : replies[i].word # "configured"
        BY <2>2 DEF Older
      <3>2. line.verb # "down" \/ e # epoch
        BY <1>11, <1>14, <3>1 DEF Downless
      <3>3. Mine' = {}
        BY <1>1, <1>2, <1>7, <3>1, <3>2, OutcomeIs DEF Mine
      <3>4. Downless(Here')
        <4>1. CASE e = epoch
          BY <1>11, <1>14, <3>1, <4>1 DEF Downless
        <4>2. CASE e # epoch
          BY <1>12, <3>1, <4>2
        <4> QED
          BY <4>1, <4>2
      <3>5. e = epoch => out[1] # "configured"
        <4> SUFFICES ASSUME e = epoch, out[1] = "configured" PROVE FALSE
          OBVIOUS
        <4>1. line.verb \in {"install", "refresh"}
          BY <1>1, OutcomeIs
        <4>2. \A o \in 1..(e - 1) : wire[o] = <<>>
          BY <4>1 DEF Runs, InTurn
        <4>3. Alike
          BY <1>7, <4>2 DEF Alike, Epochs
        <4> QED
          BY <2>2, <4>3
      <3>6. \A i \in DOMAIN replies' : replies'[i].word # "configured"
        <4>1. CASE e = epoch
          BY <1>4, <1>11, <1>15, <3>1, <3>5, <4>1
        <4>2. CASE e # epoch
          BY <1>12, <3>1, <4>2
        <4> QED
          BY <4>1, <4>2
      <3> QED
        BY <1>2, <3>1, <3>3, <3>4, <3>6 DEF Older
    <2> QED
      BY <2>1, <2>2 DEF Older
  <1>26. Drained'
    BY <1>2 DEF Drained, DrainAhead
  <1>27. NoDowns'
    <2> SUFFICES ASSUME sock = "open" PROVE NoDowns'
      BY <1>2 DEF NoDowns, Lane
    <2>1. CASE e # epoch
      <3>1. Here' = Here /\ replies' = replies
        BY <1>12, <2>1
      <3>2. Mine = {} => Mine' = {}
        <4>1. claims'[epoch] \subseteq claims[epoch]
          BY <1>1, <1>7, <2>1, OutcomeIs
        <4> QED
          BY <1>2, <4>1 DEF Mine
      <3> QED
        BY <1>2, <3>1, <3>2 DEF NoDowns, Lane
    <2>2. CASE e = epoch
      <3>1. \A i \in DOMAIN Here' : Here'[i].verb = "install" =>
               \A j \in DOMAIN Here' : i < j => Here'[j].verb # "down"
        <4> SUFFICES ASSUME NEW i \in DOMAIN Here', NEW j \in DOMAIN Here', i < j,
                            Here'[i].verb = "install", Here'[j].verb = "down"
                     PROVE  FALSE
          OBVIOUS
        <4>1. i \in 1..(Len(Here) - 1) /\ j \in 1..(Len(Here) - 1)
          BY <1>11, <2>2
        <4>2. Here[i + 1].verb = "install" /\ Here[j + 1].verb = "down"
              /\ i + 1 \in DOMAIN Here /\ j + 1 \in DOMAIN Here /\ i + 1 < j + 1
          BY <1>11, <1>14, <2>2, <4>1
        <4> QED
          BY <4>2 DEF NoDowns
      <3>2. Downless(Here) => Downless(Here')
        BY <1>11, <1>14, <2>2 DEF Downless
      <3>3. line.verb = "install" => Downless(Here')
        BY <1>11, <1>14, <2>2 DEF NoDowns, Downless
      <3>4. ASSUME ~teardown, NEW i \in DOMAIN replies', replies'[i].verb = "install"
            PROVE  Downless(Here') /\ (replies'[i].word = "configured" => Mine' = {})
        <4>1. CASE i \in DOMAIN replies /\ replies'[i] = replies[i]
          <5>1. Downless(Here) /\ (replies[i].word = "configured" => Mine = {})
            BY <3>4, <4>1 DEF NoDowns, Lane
          <5>2. line.verb # "down"
            BY <1>11, <1>14, <2>2, <5>1 DEF Downless
          <5>3. claims'[epoch] \subseteq claims[epoch]
            BY <1>1, <1>7, <5>2, OutcomeIs
          <5> QED
            BY <1>2, <3>2, <4>1, <5>1, <5>3 DEF Mine
        <4>2. CASE replies'[i] = answer
          <5>1. line.verb = "install"
            BY <1>4, <3>4, <4>2
          <5>2. out[1] = "configured" => claims'[epoch] = {}
            BY <1>1, <1>7, <5>1, OutcomeIs
          <5> QED
            BY <1>2, <1>4, <3>3, <4>2, <5>1, <5>2 DEF Mine
        <4> QED
          BY <1>11, <1>15, <2>2, <3>4, <4>1, <4>2
      <3> QED
        BY <1>2, <3>1, <3>4 DEF NoDowns, Lane
    <2> QED
      BY <2>1, <2>2
  <1> QED
    BY <1>20, <1>21, <1>22, <1>23, <1>24, <1>25, <1>26, <1>27

-----------------------------------------------------------------------------

(* The end of an old connection keeps the books. *)
LEMMA DepartBooks ==
    ASSUME Typed, Books, NEW e \in Epochs, Depart(e)
    PROVE  Typed' /\ Books'
  <1>1. /\ UNCHANGED <<panel, link, wire, replies, greeted>>
        /\ claims' = [claims EXCEPT ![e] = {}] /\ ~Heard(e)
    BY DEF Depart
  <1>2. Typed'
    BY <1>1 DEF Typed, panel, link
  <1>3. \A o \in Epochs : claims'[o] \in {claims[o], {}}
    BY <1>1 DEF Typed
  <1>4. sock = "open" => Mine' = Mine
    BY <1>1 DEF Heard, Typed, link, Mine
  <1>5. Books'
    BY <1>1, <1>3, <1>4
    DEF Books, Aligned, Worded, Lost, Unborn, FreshLane, Older, Alike, Drained, NoDowns,
        Lane, Here, Asked, DrainAhead, panel, link
  <1> QED
    BY <1>2, <1>5

(* The helper's stop keeps them: the panel cannot tell yet. *)
LEMMA DiesBooks ==
    ASSUME Typed, Books, HelperDies
    PROVE  Typed' /\ Books'
  <1>1. /\ UNCHANGED <<panel, teardown, probe, hello, fresh, epoch, replies, greeted>>
        /\ sock = "open" /\ sock' = "stale"
        /\ wire' = [e \in Epochs |-> <<>>] /\ claims' = [e \in Epochs |-> {}]
    BY DEF HelperDies
  <1>2. Typed'
    BY <1>1 DEF Typed, panel
  <1>3. Books'
    BY <1>1
    DEF Books, Aligned, Worded, Lost, Unborn, FreshLane, Older, Drained, NoDowns, Lane,
        Asked, DrainAhead, panel
  <1> QED
    BY <1>2, <1>3

(* The empty ledger. *)
LEMMA InitialQueue ==
    /\ Initial.queue = <<>> /\ Initial.done = NoChord /\ Initial.from = 0 /\ Initial.error = FALSE
    /\ Initial.queue \in Seq(Slots) /\ Initial.from \in Nat /\ Initial.error \in BOOLEAN
  BY DEF Initial

(* A socket object dials after the ledger was emptied. *)
LEMMA DialBooks ==
    ASSUME Typed, Books, Dial, acks' = Initial, ~gate', replies' = <<>>,
           gate' \in BOOLEAN, shift' \in BOOLEAN, pending' \in BOOLEAN, chord' = chord,
           wire' = wire, greeted' = greeted, claims' = claims
    PROVE  Typed' /\ Books'
  <1>0. epoch \in Epochs /\ MaxConns \in Nat
    BY PasteAssumption DEF Typed
  <1>1. /\ acks'.queue = <<>> /\ acks'.done = NoChord /\ acks'.from = 0 /\ acks'.error = FALSE
        /\ acks'.queue \in Seq(Slots) /\ acks'.from \in Nat /\ acks'.error \in BOOLEAN
    BY InitialQueue
  <1>2. CASE epoch < MaxConns /\ epoch' = epoch + 1 /\ sock' = "open" /\ fresh' = TRUE
    <2>1. epoch' \in Epochs /\ epoch' > epoch
      BY <1>0, <1>2 DEF Epochs
    <2>2. wire[epoch'] = <<>> /\ claims[epoch'] = {}
      BY <2>1 DEF Books, Unborn
    <2>3. Typed'
      BY <1>1, <1>2, <2>1 DEF Typed
    <2>4. Here' = <<>> /\ Mine' = {}
      BY <2>2 DEF Here, Mine
    <2>5. Aligned'
      BY <1>1, <2>4 DEF Aligned, Matched, Covered
    <2>6. Unborn'
      BY <1>0, <1>2, <2>1 DEF Books, Unborn, Epochs
    <2> QED
      BY <1>1, <1>2, <2>3, <2>4, <2>5, <2>6
      DEF Books, Worded, Lost, FreshLane, Older, Downless, Drained, NoDowns, Lane, Asked,
          DrainAhead
  <1>3. CASE sock' = "closed" /\ UNCHANGED <<epoch, fresh, hello>>
    <2>1. Typed'
      BY <1>1, <1>3 DEF Typed
    <2>2. Unborn'
      BY <1>3 DEF Books, Unborn
    <2> QED
      BY <1>1, <1>3, <2>1, <2>2
      DEF Books, Aligned, Worded, Lost, FreshLane, Older, Drained, NoDowns, Lane
  <1> QED
    BY <1>2, <1>3 DEF Dial

(* A disconnect that is reported keeps the books. *)
LEMMA NoticeBooks ==
    ASSUME Typed, Books, Notice
    PROVE  Typed' /\ Books'
  <1>1. /\ acks' = Initial /\ gate' = FALSE /\ Dial /\ replies' = <<>>
        /\ UNCHANGED <<chord, shift, pending, wire, greeted, claims>>
    BY DEF Notice, ConnectionLost, device
  <1>2. shift' \in BOOLEAN /\ pending' \in BOOLEAN
    BY <1>1 DEF Typed
  <1> QED
    BY <1>1, <1>2, DialBooks

(* So does the deferred half of a rebuild. *)
LEMMA TeardownBooks ==
    ASSUME Typed, Books, Teardown
    PROVE  Typed' /\ Books'
  <1>1. /\ acks' = Initial /\ gate' = gate /\ ~gate /\ Dial /\ replies' = <<>>
        /\ UNCHANGED <<chord, shift, pending, wire, greeted, claims>>
    BY DEF Teardown, panel, device, Books, Lost
  <1>2. shift' \in BOOLEAN /\ pending' \in BOOLEAN /\ gate' \in BOOLEAN
    BY <1>1 DEF Typed
  <1> QED
    BY <1>1, <1>2, DialBooks

(* So does its first half. *)
LEMMA RebuildBooks ==
    ASSUME Typed, Books, Rebuild
    PROVE  Typed' /\ Books'
  <1>1. /\ acks' = Initial /\ gate' = FALSE /\ teardown' = TRUE
        /\ UNCHANGED <<chord, shift, pending, sock, fresh, epoch, wire, replies, greeted, claims>>
    BY DEF Rebuild, ConnectionLost, device
  <1>2. /\ acks'.queue = <<>> /\ acks'.done = NoChord /\ acks'.from = 0 /\ acks'.error = FALSE
        /\ acks'.queue \in Seq(Slots) /\ acks'.from \in Nat /\ acks'.error \in BOOLEAN
        /\ gate' \in BOOLEAN
    BY <1>1, InitialQueue
  <1>3. Typed'
    BY <1>1, <1>2 DEF Typed
  <1>4. Books'
    BY <1>1, <1>2
    DEF Books, Aligned, Worded, Lost, Unborn, FreshLane, Older, Alike, Drained, NoDowns,
        Lane, Here, Mine, Asked, DrainAhead
  <1> QED
    BY <1>3, <1>4

-----------------------------------------------------------------------------
(* The answer the panel reads, the command it is of, and the ledger it leaves. *)
Word == Head(replies).word
Verb == Head(replies).verb
Popped == ReplyReceived(acks, Word)

(* What a reply's route sets, and the lines it writes. *)
Routed(lines) ==
    \/ /\ Word = "hello" /\ gate' = FALSE /\ fresh' = FALSE
       /\ IF fresh THEN shift' = FALSE /\ pending' = FALSE
                   ELSE shift' = shift /\ pending' = pending
       /\ \E verb \in {"install", "refresh"} :
            (fresh \/ verb = "refresh") /\ lines = <<Cmd(verb)>>
    \/ /\ Word = "configured" /\ gate' = ~DrainAhead(Popped)
       /\ IF Verb = "install" THEN shift' = FALSE /\ pending' = FALSE
                              ELSE shift' = shift /\ pending' = pending
       /\ fresh' = fresh /\ lines = <<>>
    \/ /\ Word = "refused" /\ gate' = FALSE /\ shift' = FALSE
       /\ pending' = pending /\ fresh' = fresh /\ lines = When(shift, <<Up("Shift")>>)
    \/ /\ Word \notin {"hello", "configured", "refused"} /\ (Word = "err" => gate' = FALSE)
       /\ (Word # "err" => gate' = gate)
       /\ shift' = shift /\ pending' = pending /\ fresh' = fresh /\ lines = <<>>

(* What the pop of a slot leaves of the ledger. *)
LEMMA PoppedIs ==
    ASSUME acks.queue # <<>>
    PROVE  /\ Popped.queue = Tail(acks.queue)
           /\ Popped.done = IF Head(acks.queue).final THEN NoChord ELSE acks.done
           /\ Popped.from = IF acks.from > 0 THEN acks.from - 1 ELSE 0
           /\ Popped.error = (acks.error \/ Spoils(acks, Word))
  BY DEF Popped, ReplyReceived

(* What a reply does to the lane. *)
Answered(lines) ==
    /\ ~teardown /\ sock # "closed" /\ replies # <<>> /\ Routed(lines)
    /\ lines \in Seq(Command) /\ Only(lines, {"up", "install", "refresh"})
    /\ acks' = Sent(Popped, lines) /\ wire' = Written(lines) /\ replies' = Tail(replies)
    /\ UNCHANGED <<chord, sock, teardown, epoch, greeted, claims, landed, strays, pastes>>
    /\ drained' = IF flow = "paced" /\ Drains(Word, Verb)
                  THEN drained \cup {pastes} ELSE drained
    /\ acks.queue # <<>> /\ Head(acks.queue).verb = Verb

(* Reading an answer pops its slot, then routes it, which may write lines. *)
LEMMA ReplyIs ==
    ASSUME Typed, Books, Reply, NextTick = TRUE
    PROVE  \E lines : Answered(lines)
  <1>1. /\ ~teardown /\ sock # "closed" /\ replies # <<>>
        /\ replies' = Tail(replies)
        /\ UNCHANGED <<chord, sock, teardown, epoch, greeted, claims, landed, strays, pastes>>
    BY DEF Reply, Awake, counts
  <1>2. Matched(acks.queue, replies)
    BY <1>1 DEF Books, Aligned
  <1>3. acks.queue # <<>> /\ Head(acks.queue).verb = Verb
    <2>1. acks.queue \in Seq(Slots) /\ replies \in Seq(Answer)
      BY DEF Typed
    <2> QED
      BY <1>1, <1>2, <2>1, PopMatches, NoneIsLines DEF Verb
  <1>4. /\ Route(Word, Verb, Popped)
        /\ drained' = IF flow = "paced" /\ Drains(Word, Verb)
                      THEN drained \cup {pastes} ELSE drained
    BY <1>3 DEF Reply, Word, Popped
  <1>5. \E lines : Routed(lines) /\ acks' = Sent(Popped, lines) /\ wire' = Written(lines)
    <2>1. CASE Word = "hello"
      BY <1>4, <2>1 DEF Route, HelloAcked, Routed, Emit
    <2>2. CASE Word = "configured"
      BY <1>4, <2>2 DEF Route, Configured, Routed, Emit
    <2>3. CASE Word = "refused"
      BY <1>4, <2>3 DEF Route, Refused, Routed, Emit
    <2>4. CASE Word \notin {"hello", "configured", "refused"}
      BY <1>4, <2>4 DEF Route, Routed, Emit
    <2> QED
      BY <2>1, <2>2, <2>3, <2>4
  <1>6. PICK lines : Routed(lines) /\ acks' = Sent(Popped, lines) /\ wire' = Written(lines)
    BY <1>5
  <1>7. lines \in Seq(Command) /\ Only(lines, {"up", "install", "refresh"})
    <2>1. CASE lines = <<>>
      BY <2>1, NoneIsLines
    <2>2. ASSUME NEW verb \in {"install", "refresh"}, lines = <<Cmd(verb)>>
          PROVE  lines \in Seq(Command) /\ Only(lines, {"up", "install", "refresh"})
      BY <2>2, CmdShape, OneIsLines
    <2>3. CASE lines = When(shift, <<Up("Shift")>>)
      <3>1. shift \in BOOLEAN /\ "Shift" \in Keys
        BY DEF Typed, Keys, Modifiers
      <3>2. lines \in Seq(Command) /\ Only(lines, {"up"})
        BY <2>3, <3>1, LiftOne
      <3> QED
        BY <3>2 DEF Only
    <2> QED
      BY <1>6, <2>1, <2>2, <2>3 DEF Routed
  <1> QED
    BY <1>1, <1>3, <1>4, <1>6, <1>7 DEF Answered

(* The ledger and the answers after a reply, element by element. *)
LEMMA ReplyQueue ==
    ASSUME Typed, Books, NEW lines, Answered(lines)
    PROVE  /\ Matched(acks.queue, replies) /\ replies \in Seq(Answer)
           /\ acks.queue \in Seq(Slots) /\ Popped.queue = Tail(acks.queue)
           /\ Popped.queue \in Seq(Slots)
           /\ Len(Popped.queue) = Len(acks.queue) - 1
           /\ \A i \in 1..Len(Popped.queue) : Popped.queue[i] = acks.queue[i + 1]
           /\ Len(replies') = Len(replies) - 1
           /\ \A i \in 1..Len(replies') : replies'[i] = replies[i + 1]
           /\ Longer(Popped.queue, acks'.queue, lines)
           /\ Matched(Popped.queue, replies')
           /\ sock = "open" => Covered(Popped.queue, replies', Here)
           /\ replies' \in Seq(Answer)
           /\ wire' \in [Epochs -> Seq(Command)]
           /\ Here' = IF sock = "open" THEN Here \o lines ELSE Here
           /\ \A e \in Epochs : e # epoch => wire'[e] = wire[e]
           /\ replies[1].word = Word /\ replies[1].verb = Verb
           /\ Here \in Seq(Command) /\ Len(replies) > 0 /\ Len(replies) \in Nat
  <1>1. /\ acks.queue \in Seq(Slots) /\ replies \in Seq(Answer) /\ Here \in Seq(Command)
        /\ epoch \in Epochs /\ wire \in [Epochs -> Seq(Command)]
    BY DEF Typed, Here
  <1>2. Matched(acks.queue, replies) /\ (sock = "open" => Covered(acks.queue, replies, Here))
    BY DEF Books, Aligned, Answered
  <1>3. Popped.queue = Tail(acks.queue) /\ replies' = Tail(replies) /\ replies # <<>>
    BY PoppedIs DEF Answered
  <1>4. /\ Tail(acks.queue) \in Seq(Slots) /\ Tail(replies) \in Seq(Answer)
        /\ Len(Tail(acks.queue)) = Len(acks.queue) - 1
        /\ \A i \in 1..(Len(acks.queue) - 1) : Tail(acks.queue)[i] = acks.queue[i + 1]
        /\ Len(Tail(replies)) = Len(replies) - 1
        /\ \A i \in 1..(Len(replies) - 1) : Tail(replies)[i] = replies[i + 1]
        /\ Matched(Tail(acks.queue), Tail(replies))
        /\ Covered(acks.queue, replies, Here)
             => Covered(Tail(acks.queue), Tail(replies), Here)
    BY <1>1, <1>2, <1>3, PopMatches
  <1>5. Longer(Popped.queue, acks'.queue, lines)
    BY <1>3, <1>4, SentLonger DEF Answered
  <1>6. /\ Written(lines) \in [Epochs -> Seq(Command)]
        /\ Written(lines)[epoch] = IF sock = "open" THEN Here \o lines ELSE Here
        /\ \A e \in Epochs : e # epoch => Written(lines)[e] = wire[e]
    BY <1>1, WrittenHere DEF Answered
  <1>7. wire' = Written(lines) /\ Here' = wire'[epoch]
    BY DEF Answered, Here
  <1>8. replies[1].word = Word /\ replies[1].verb = Verb /\ Len(replies) > 0 /\ Len(replies) \in Nat
    BY <1>1, <1>3 DEF Word, Verb
  <1> QED
    BY <1>1, <1>2, <1>3, <1>4, <1>5, <1>6, <1>7, <1>8

(* A reply keeps the shape of the state. *)
LEMMA ReplyTyped ==
    ASSUME Typed, Books, NEW lines, Answered(lines)
    PROVE  Typed'
  <1>1. /\ Popped.queue \in Seq(Slots) /\ replies' \in Seq(Answer)
        /\ wire' \in [Epochs -> Seq(Command)]
    BY ReplyQueue
  <1>2. Popped.from \in Nat /\ Popped.error \in BOOLEAN
    <2>1. Popped.from = IF acks.from > 0 THEN acks.from - 1 ELSE 0
      BY PoppedIs DEF Answered
    <2>2. Popped.error = (acks.error \/ Spoils(acks, Word))
      BY PoppedIs DEF Answered
    <2>3. Popped.from \in Nat
      BY <2>1 DEF Typed
    <2>4. Popped.error \in BOOLEAN
      BY <2>2
    <2> QED
      BY <2>3, <2>4
  <1>3. /\ acks'.queue \in Seq(Slots) /\ acks'.from = Popped.from /\ acks'.error = Popped.error
    <2>1. acks' = Sent(Popped, lines) /\ lines \in Seq(Command)
      BY DEF Answered
    <2> QED
      BY <1>1, <2>1, SentQueue
  <1>4. gate' \in BOOLEAN /\ shift' \in BOOLEAN /\ pending' \in BOOLEAN
    <2>1. gate \in BOOLEAN /\ shift \in BOOLEAN /\ pending \in BOOLEAN
      BY DEF Typed
    <2>2. gate' \in {TRUE, FALSE, gate, ~DrainAhead(Popped)}
          /\ shift' \in {FALSE, shift} /\ pending' \in {FALSE, pending}
      BY DEF Answered, Routed
    <2> QED
      BY <2>1, <2>2
  <1> QED
    BY <1>1, <1>2, <1>3, <1>4 DEF Typed, Answered

(* With no lines to write, no slot is added and no verb changes. *)
LEMMA LongerNone ==
    ASSUME NEW old, NEW new, Longer(old, new, <<>>), Len(old) \in Nat
    PROVE  /\ new \in Seq(Slots) /\ Len(new) = Len(old)
           /\ \A i \in 1..Len(old) : new[i].verb = old[i].verb
  BY DEF Longer

(* A reply keeps the books, whatever it is routed to. *)
LEMMA ReplyBooks ==
    ASSUME Typed, Books, NEW lines, Answered(lines)
    PROVE  Books'
  <1> USE DEF Books
  <1>1. /\ Matched(acks.queue, replies) /\ replies \in Seq(Answer)
        /\ acks.queue \in Seq(Slots) /\ Popped.queue = Tail(acks.queue)
        /\ Popped.queue \in Seq(Slots)
        /\ Len(Popped.queue) = Len(acks.queue) - 1
        /\ \A i \in 1..Len(Popped.queue) : Popped.queue[i] = acks.queue[i + 1]
        /\ Len(replies') = Len(replies) - 1
        /\ \A i \in 1..Len(replies') : replies'[i] = replies[i + 1]
        /\ Longer(Popped.queue, acks'.queue, lines)
        /\ Matched(Popped.queue, replies')
        /\ sock = "open" => Covered(Popped.queue, replies', Here)
        /\ replies' \in Seq(Answer)
        /\ wire' \in [Epochs -> Seq(Command)]
        /\ Here' = IF sock = "open" THEN Here \o lines ELSE Here
        /\ \A e \in Epochs : e # epoch => wire'[e] = wire[e]
        /\ replies[1].word = Word /\ replies[1].verb = Verb
        /\ Here \in Seq(Command) /\ Len(replies) > 0 /\ Len(replies) \in Nat
    BY ReplyQueue
  <1>2. /\ ~teardown /\ sock # "closed" /\ Routed(lines) /\ lines \in Seq(Command)
        /\ Only(lines, {"up", "install", "refresh"}) /\ acks' = Sent(Popped, lines)
        /\ sock' = sock /\ teardown' = teardown /\ epoch' = epoch /\ greeted' = greeted
        /\ claims' = claims
    BY DEF Answered
  <1>3. Mine' = Mine /\ epoch \in Epochs
    BY <1>2 DEF Mine, Typed
  <1>4. Downless(lines)
    BY <1>2 DEF Downless, Only
  <1>5. /\ DOMAIN replies' = 1..Len(replies') /\ DOMAIN replies = 1..Len(replies)
        /\ \A i \in 1..Len(replies') : i + 1 \in 1..Len(replies)
        /\ 1 \in 1..Len(replies) /\ DOMAIN Here = 1..Len(Here)
    BY <1>1
  <1>6. /\ Word = "configured" => Verb \in {"install", "refresh"}
        /\ Word = "refused" => Verb = "install"
        /\ Word = "hello" => epoch \in greeted
    <2>1. 1 \in DOMAIN replies
      BY <1>5
    <2> QED
      BY <1>1, <2>1 DEF Worded
  <1>7. Verb \in {"install", "refresh"} => Asked
    <2>1. 1 \in DOMAIN acks.queue /\ acks.queue[1].verb = Verb
      BY <1>1, <1>5 DEF Matched
    <2> QED
      BY <2>1 DEF Asked
  <1>8. Downless(Here) => Downless(Here')
    <2>1. CASE sock = "open"
      BY <1>1, <1>2, <1>4, <2>1, InHere DEF Downless
    <2>2. CASE sock # "open"
      BY <1>1, <2>2
    <2> QED
      BY <2>1, <2>2
  <1>9. Popped.queue \in Seq(Slots) /\ Len(Popped.queue) \in Nat
    BY <1>1
  <1>10. Aligned'
    <2>1. sock = "open" => Covered(acks'.queue, replies', Here \o lines)
      BY <1>1, <1>2, LongerMatches
    <2>2. Matched(acks'.queue, replies')
      BY <1>1, <1>2, LongerMatches
    <2> QED
      BY <1>1, <1>2, <2>1, <2>2 DEF Aligned
  <1>11. Worded'
    <2> SUFFICES ASSUME NEW i \in DOMAIN replies'
                 PROVE  /\ replies'[i].word = "configured"
                             => replies'[i].verb \in {"install", "refresh"}
                        /\ replies'[i].word = "refused" => replies'[i].verb = "install"
                        /\ replies'[i].word = "hello"
                             => replies'[i].verb = "hello" /\ epoch \in greeted
                        /\ replies'[i].verb = "install"
                             => replies'[i].word \in {"configured", "refused"}
      BY <1>2 DEF Worded
    <2>1. replies'[i] = replies[i + 1] /\ i + 1 \in DOMAIN replies
      BY <1>1, <1>5
    <2> QED
      BY <2>1 DEF Worded
  <1>12. Lost'
    BY <1>2 DEF Lost
  <1>13. Unborn'
    <2>1. SUFFICES ASSUME NEW e \in Epochs, e > epoch PROVE wire'[e] = <<>> /\ claims[e] = {}
      BY <1>2 DEF Unborn
    <2>2. wire[e] = <<>> /\ claims[e] = {} /\ e # epoch
      BY <2>1, <1>3 DEF Unborn, Epochs
    <2> QED
      BY <2>1, <2>2, <1>1
  <1>14. FreshLane'
    <2> SUFFICES ASSUME sock = "open" PROVE FreshLane'
      BY <1>2 DEF FreshLane
    <2>1. CASE ~fresh'
      <3>1. ~fresh \/ Word = "hello"
        BY <1>2, <2>1 DEF Routed
      <3> QED
        BY <1>2, <1>6, <2>1, <3>1 DEF FreshLane
    <2>2. CASE fresh'
      <3>1. fresh /\ Word # "hello"
        BY <1>2, <2>2 DEF Routed
      <3>2. /\ ~gate /\ ~Asked /\ Mine = {}
            /\ \A i \in DOMAIN Here : Here[i].verb \notin {"down", "install"}
        BY <3>1 DEF FreshLane
      <3>3. Word \notin {"configured", "refused", "hello"}
        BY <1>6, <1>7, <3>1, <3>2
      <3>4. lines = <<>> /\ ~gate'
        BY <1>2, <3>2, <3>3 DEF Routed
      <3>5. acks'.queue \in Seq(Slots) /\ Len(acks'.queue) = Len(Popped.queue)
            /\ \A i \in 1..Len(Popped.queue) : acks'.queue[i].verb = Popped.queue[i].verb
        <4>1. Longer(Popped.queue, acks'.queue, <<>>)
          BY <1>1, <3>4
        <4> QED
          BY <1>9, <4>1, LongerNone
      <3>6. ~Asked'
        <4> SUFFICES ASSUME NEW i \in DOMAIN acks'.queue,
                            acks'.queue[i].verb \in {"install", "refresh"}
                     PROVE  FALSE
          BY DEF Asked
        <4>1. i \in 1..Len(Popped.queue) /\ i + 1 \in DOMAIN acks.queue
          BY <1>1, <3>5, SMTT(40)
        <4>2. acks.queue[i + 1].verb \in {"install", "refresh"}
          BY <1>1, <3>5, <4>1
        <4> QED
          BY <3>2, <4>1, <4>2 DEF Asked
      <3>7. \A i \in DOMAIN Here' : Here'[i].verb \notin {"down", "install"}
        BY <1>1, <3>2, <3>4, InHere
      <3> QED
        BY ONLY <1>3, <2>2, <3>2, <3>4, <3>6, <3>7 DEF FreshLane
    <2> QED
      BY <2>1, <2>2
  <1>15. Older'
    <2> SUFFICES ASSUME sock = "open" PROVE Older'
      BY <1>2 DEF Older
    <2>1. Alike => Alike'
      BY <1>1, <1>2, <1>3, SMTT(40) DEF Alike, Epochs
    <2>2. CASE ~Alike
      <3>1. /\ Mine = {} /\ Downless(Here) /\ ~gate
            /\ \A i \in DOMAIN replies : replies[i].word # "configured"
        BY <2>2 DEF Older
      <3>2. Word # "configured"
        BY <1>1, <1>5, <3>1
      <3>3. ~gate'
        BY <1>2, <3>1, <3>2 DEF Routed
      <3>4. \A i \in DOMAIN replies' : replies'[i].word # "configured"
        BY <1>1, <1>5, <3>1
      <3> QED
        BY <1>3, <1>8, <3>1, <3>3, <3>4 DEF Older
    <2> QED
      BY <2>1, <2>2 DEF Older
  <1>16. Drained'
    <2> SUFFICES ASSUME gate', DrainAhead(acks') PROVE FALSE
      BY DEF Drained
    <2>1. lines = <<>>
      BY <1>2 DEF Routed
    <2>2. acks'.queue \in Seq(Slots) /\ Len(acks'.queue) = Len(Popped.queue)
          /\ \A i \in 1..Len(Popped.queue) : acks'.queue[i].verb = Popped.queue[i].verb
      <3>1. Longer(Popped.queue, acks'.queue, <<>>)
        BY <1>1, <2>1
      <3> QED
        BY <1>9, <3>1, LongerNone
    <2>3. PICK i \in DOMAIN acks'.queue : acks'.queue[i].verb = "install"
      BY DEF DrainAhead
    <2>4. i \in 1..Len(Popped.queue) /\ i \in DOMAIN Popped.queue
      BY <1>1, <2>2, <2>3
    <2>5. DrainAhead(Popped)
      BY <2>2, <2>3, <2>4 DEF DrainAhead
    <2>6. DrainAhead(acks)
      <3>0. Popped.queue[i].verb = "install"
        BY <2>2, <2>3, <2>4
      <3>1. i + 1 \in DOMAIN acks.queue /\ acks.queue[i + 1].verb = "install"
        BY <1>1, <2>4, <3>0
      <3> QED
        BY <3>1 DEF DrainAhead
    <2>7. ~gate
      BY <2>6 DEF Drained
    <2> QED
      BY <1>2, <2>5, <2>7 DEF Routed
  <1>17. NoDowns'
    <2> SUFFICES ASSUME sock = "open" PROVE NoDowns'
      BY <1>2 DEF NoDowns, Lane
    <2>1. Here' = Here \o lines
      BY <1>1
    <2>2. \A i \in DOMAIN Here' : Here'[i].verb = "install" =>
             \A j \in DOMAIN Here' : i < j => Here'[j].verb # "down"
      <3> SUFFICES ASSUME NEW i \in DOMAIN Here', NEW j \in DOMAIN Here', i < j,
                          Here'[i].verb = "install", Here'[j].verb = "down"
                   PROVE  FALSE
        OBVIOUS
      <3>1. j \in DOMAIN Here /\ Here'[j] = Here[j] /\ j <= Len(Here)
        BY <1>1, <1>2, <1>4, <2>1, InHere, SMTT(40) DEF Downless
      <3>2. i \in DOMAIN Here /\ Here'[i] = Here[i]
        BY <1>1, <1>2, <2>1, <3>1, InHere
      <3> QED
        BY <3>1, <3>2 DEF NoDowns
    <2>3. \A i \in DOMAIN replies' : replies'[i].verb = "install" =>
             Downless(Here') /\ (replies'[i].word = "configured" => Mine' = {})
      <3> SUFFICES ASSUME NEW i \in DOMAIN replies', replies'[i].verb = "install"
                   PROVE  Downless(Here') /\ (replies'[i].word = "configured" => Mine' = {})
        OBVIOUS
      <3>1. replies'[i] = replies[i + 1] /\ i + 1 \in DOMAIN replies
        BY <1>1, <1>5
      <3> QED
        BY <1>2, <1>3, <1>8, <3>1 DEF NoDowns, Lane
    <2> QED
      BY <2>2, <2>3 DEF NoDowns
  <1> QED
    BY <1>10, <1>11, <1>12, <1>13, <1>14, <1>15, <1>16, <1>17

-----------------------------------------------------------------------------
(* What the lane will hold, and what the panel shows. *)

(* What the live connection will hold once every line in its queue has run. *)
Rest == Left(Mine, Here)
(* What the panel shows as held: the lock, the key under the pointer, and the part
   of a paced chord that is down. *)
Allowed == {k \in Keys :
              \/ k = "Shift" /\ shift
              \/ k = "A" /\ pending
              \/ flow = "paced" /\ k = "Ctrl" /\ CtrlOpen
              \/ flow = "paced" /\ k = "V" /\ KeyOpen}
(* Every press queued on the live connection will find its own modifiers, but for
   that of a chord that a keymap change was answered under. *)
Planned == sock = "open" => Clean(Mine, Here, drained)
(* The lane leaves nothing held that the panel does not show ... *)
Shown == Lane => Rest \subseteq Allowed
(* ... and does leave the lock the panel shows, once no draining configure is due. *)
Locked == Lane /\ ~fresh /\ flow # "paced" /\ shift /\ ~DrainAhead(acks) => "Shift" \in Rest
(* A paced chord that no keymap change has come under, answered or not. *)
Unshaken == ~fresh /\ pastes \notin drained /\ ~DrainAhead(acks)
(* In the middle of such a chord its Ctrl is down as it believes, and the user's
   Shift is out of its way. *)
PacedHolds ==
    Lane /\ flow = "paced" /\ Unshaken =>
       /\ CtrlOpen => "Ctrl" \in Rest
       /\ "Shift" \in Rest <=> chord.lock /\ chord.sent = 0
(* What the lane and the panel's beliefs have to do with each other. *)
Device == Planned /\ PacedShape /\ Shown /\ Locked /\ PacedHolds

(* The shapes of the live connection's queue and claims. *)
LEMMA MineHere ==
    ASSUME Typed
    PROVE  /\ Mine \in SUBSET Keys /\ Here \in Seq(Command) /\ Rest \in SUBSET Keys
           /\ epoch \in Epochs
  BY LeftKeys DEF Typed, Mine, Here, Rest

(* Lines written to the live connection run on what its queue leaves. *)
LEMMA RestGrows ==
    ASSUME Typed, sock = "open", NEW lines \in Seq(Command), wire' = Written(lines),
           epoch' = epoch, claims' = claims, drained \subseteq drained'
    PROVE  /\ Rest' = Left(Rest, lines)
           /\ Clean(Mine, Here, drained) /\ Clean(Rest, lines, drained)
                => Clean(Mine', Here', drained')
  <1>1. Mine' = Mine /\ Here' = Here \o lines
    BY WrittenHere DEF Typed, Mine, Here
  <1>2. Here \in Seq(Command)
    BY MineHere
  <1>3. Left(Mine, Here \o lines) = Left(Left(Mine, Here), lines)
    BY <1>2, LeftConcat
  <1>4. Clean(Mine, Here \o lines, drained)
          <=> Clean(Mine, Here, drained) /\ Clean(Left(Mine, Here), lines, drained)
    BY <1>2, CleanConcat
  <1>5. Clean(Mine, Here \o lines, drained) => Clean(Mine, Here \o lines, drained')
    BY CleanGrows
  <1> QED
    BY <1>1, <1>3, <1>4, <1>5 DEF Rest

(* With the gate open and no chord under way the helper holds what is shown. *)
LEMMA Hands ==
    ASSUME Typed, Books, Device, gate, sock = "open", flow # "paced"
    PROVE  /\ "Shift" \in Rest <=> shift
           /\ "Ctrl" \notin Rest /\ "V" \notin Rest
           /\ "A" \in Rest => pending
  <1>1. ~teardown /\ ~fresh /\ ~DrainAhead(acks)
    BY DEF Books, Lost, FreshLane, Drained
  <1>2. Rest \subseteq Allowed
    BY <1>1 DEF Device, Shown, Lane
  <1>3. shift => "Shift" \in Rest
    BY <1>1 DEF Device, Locked, Lane
  <1> QED
    BY <1>2, <1>3 DEF Allowed

(* The panel's writes keep the device, if the lines are clean on what the queue
   leaves and leave what the panel then shows. *)
LEMMA WritingDevice ==
    ASSUME Typed, Device, NEW lines \in Seq(Command), wire' = Written(lines),
           sock' = sock, teardown' = teardown, epoch' = epoch, claims' = claims,
           drained \subseteq drained', PacedShape',
           sock = "open" => Clean(Rest, lines, drained),
           sock = "open" /\ ~teardown =>
             /\ Left(Rest, lines) \subseteq Allowed'
             /\ ~fresh' /\ flow' # "paced" /\ shift' /\ ~DrainAhead(acks')
                  => "Shift" \in Left(Rest, lines)
             /\ flow' = "paced" /\ Unshaken' =>
                  /\ CtrlOpen' => "Ctrl" \in Left(Rest, lines)
                  /\ "Shift" \in Left(Rest, lines) <=> chord'.lock /\ chord'.sent = 0
    PROVE  Device'
  <1>1. CASE sock = "open"
    <2>1. /\ Rest' = Left(Rest, lines)
          /\ Clean(Mine, Here, drained) /\ Clean(Rest, lines, drained)
               => Clean(Mine', Here', drained')
      BY <1>1, RestGrows
    <2>2. Planned'
      BY <1>1, <2>1 DEF Planned, Device
    <2>3. Shown'
      BY <2>1 DEF Shown, Lane
    <2>4. Locked'
      BY <2>1 DEF Locked, Lane
    <2>5. PacedHolds'
      BY <2>1 DEF PacedHolds, Lane
    <2> QED
      BY <2>2, <2>3, <2>4, <2>5 DEF Device
  <1>2. CASE sock # "open"
    BY <1>2 DEF Device, Planned, Shown, Locked, PacedHolds, Lane
  <1> QED
    BY <1>1, <1>2

(* An abort lifts whatever the lane would leave held. *)
LEMMA AbortLifts ==
    ASSUME Typed, Device, flow = "paced", pastes \in 0..MaxPastes
    PROVE  /\ AbortLines \in Seq(Command) /\ Only(AbortLines, {"up"})
           /\ Lane => Left(Rest, AbortLines) = {}
  <1> DEFINE a == Owed(chord.sent)
             b == ReleaseAll
  <1>1. /\ a \in Seq(Command) /\ Only(a, {"up"})
        /\ \A set \in SUBSET Keys :
             Left(set, a) = {k \in set : ~(k = "Ctrl" /\ CtrlOpen) /\ ~(k = "V" /\ KeyOpen)}
    BY OwedLifts DEF Typed, Device
  <1>2. /\ b \in Seq(Command) /\ Only(b, {"up"})
        /\ \A set \in SUBSET Keys :
             Left(set, b) = {k \in set : ~(k = "A" /\ pending) /\ ~(k = "Shift" /\ shift)}
    BY ReleaseAllLifts DEF Typed
  <1>3. AbortLines = a \o b
    BY DEF AbortLines, When
  <1> HIDE DEF a, b
  <1>4. a \o b \in Seq(Command) /\ Only(a \o b, {"up"})
    BY <1>1, <1>2, OnlyConcat, ConcatIsLines
  <1>5. ASSUME Lane PROVE Left(Rest, a \o b) = {}
    <2>1. Left(Rest, a \o b) = Left(Left(Rest, a), b)
      BY <1>1, <1>2, LeftConcat
    <2>2. Rest \subseteq Allowed /\ Rest \in SUBSET Keys
      BY <1>5, MineHere DEF Device, Shown
    <2>3. Left(Rest, a) = {k \in Rest : ~(k = "Ctrl" /\ CtrlOpen) /\ ~(k = "V" /\ KeyOpen)}
      BY <1>1, <2>2
    <2>4. Left(Rest, a) \in SUBSET Keys
      BY <2>2, <2>3
    <2>5. Left(Left(Rest, a), b)
            = {k \in Left(Rest, a) : ~(k = "A" /\ pending) /\ ~(k = "Shift" /\ shift)}
      BY <1>2, <2>4
    <2> QED
      BY <2>1, <2>2, <2>3, <2>5 DEF Allowed
  <1> QED
    BY <1>3, <1>4, <1>5

(* Without a paced chord an abort writes nothing. *)
LEMMA NoAbort ==
    ASSUME flow # "paced"
    PROVE  AbortLines = <<>>
  BY DEF AbortLines, When

-----------------------------------------------------------------------------
(* The invariant of the lane: its shape, its books and its device. *)
Core ==
    /\ Typed /\ Books /\ Device
    /\ pastes \in 0..MaxPastes /\ drained \subseteq 1..pastes

(* What the gate being open says of the lane. *)
LEMMA GateOpen ==
    ASSUME Core, gate
    PROVE  /\ ~teardown /\ sock # "closed" /\ ~DrainAhead(acks)
           /\ sock = "open" => ~fresh
  BY DEF Core, Books, Lost, FreshLane, Drained

(* With the gate open, an abort leaves the lock only where the panel still shows
   it, and nothing of the chord. *)
LEMMA Cleared ==
    ASSUME Core
    PROVE  /\ AbortLines \in Seq(Command) /\ Only(AbortLines, {"up"})
           /\ Lane /\ gate =>
                /\ "Shift" \in Left(Rest, AbortLines) <=> LockLeft
                /\ "Ctrl" \notin Left(Rest, AbortLines)
                /\ "V" \notin Left(Rest, AbortLines)
                /\ "A" \in Left(Rest, AbortLines) => pending /\ flow # "paced"
  <1>1. CASE flow = "paced"
    <2>1. /\ AbortLines \in Seq(Command) /\ Only(AbortLines, {"up"})
          /\ Lane => Left(Rest, AbortLines) = {}
      BY <1>1, AbortLifts DEF Core
    <2>2. ~LockLeft
      BY <1>1 DEF LockLeft
    <2> QED
      BY <2>1, <2>2
  <1>2. CASE flow # "paced"
    <2>1. AbortLines = <<>> /\ Left(Rest, AbortLines) = Rest
      BY <1>2, NoAbort, LeftNone, MineHere DEF Core
    <2>2. LockLeft <=> shift
      BY <1>2 DEF LockLeft
    <2> QED
      BY <1>2, <2>1, <2>2, NoneIsLines, Hands DEF Core, Lane
  <1> QED
    BY <1>1, <1>2

(* Writing lines, in the ledger and on the wire. *)
LEMMA EmitIs ==
    ASSUME Typed, NEW lines \in Seq(Command), Emit(acks, lines)
    PROVE  /\ Longer(acks.queue, acks'.queue, lines) /\ wire' = Written(lines)
           /\ acks'.done = acks.done /\ acks'.from = acks.from /\ acks'.error = acks.error
           /\ acks'.queue \in Seq(Slots) /\ acks'.from \in Nat /\ acks'.error \in BOOLEAN
           /\ wire' \in [Epochs -> Seq(Command)]
  <1>1. acks' = Sent(acks, lines) /\ wire' = Written(lines)
    BY DEF Emit
  <1>2. acks.queue \in Seq(Slots) /\ acks.from \in Nat /\ acks.error \in BOOLEAN
    BY DEF Typed
  <1>3. Longer(acks.queue, Sent(acks, lines).queue, lines)
    BY <1>2, SentLonger
  <1>4. /\ Sent(acks, lines).queue \in Seq(Slots) /\ Sent(acks, lines).done = acks.done
        /\ Sent(acks, lines).from = acks.from /\ Sent(acks, lines).error = acks.error
    BY <1>2, SentQueue
  <1>5. Written(lines) \in [Epochs -> Seq(Command)]
    BY WrittenHere DEF Typed
  <1> QED
    BY <1>1, <1>2, <1>3, <1>4, <1>5

(* What a write leaves alone, when it may press, and what the helper holds after it. *)
Framed ==
    UNCHANGED <<sock, teardown, epoch, fresh, replies, greeted, claims, drained>>
(* What a handler may write: presses only with the gate open, and a draining
   configure only with the gate closing. *)
Permitted(lines) ==
    \/ /\ Only(lines, {"down", "up", "hello", "ping"}) /\ gate' = gate
       /\ Downless(lines) \/ gate
    \/ Downless(lines) /\ gate /\ ~gate'
(* The lines are clean, and leave what the panel then shows. *)
Leaves(lines) ==
    /\ sock = "open" => Clean(Rest, lines, drained)
    /\ Lane =>
         /\ Left(Rest, lines) \subseteq Allowed'
         /\ ~fresh /\ flow' # "paced" /\ shift' /\ ~DrainAhead(acks')
              => "Shift" \in Left(Rest, lines)
         /\ flow' = "paced" /\ Unshaken' =>
              /\ CtrlOpen' => "Ctrl" \in Left(Rest, lines)
              /\ "Shift" \in Left(Rest, lines) <=> chord'.lock /\ chord'.sent = 0

(* A handler that writes such lines keeps the invariant ... *)
LEMMA WriteKeeps ==
    ASSUME Core, ~teardown, NEW lines \in Seq(Command),
           Longer(acks.queue, acks'.queue, lines), wire' = Written(lines),
           acks'.from \in Nat, acks'.error \in BOOLEAN,
           sock = "closed" => acks'.done = NoChord,
           gate' \in BOOLEAN, shift' \in BOOLEAN, pending' \in BOOLEAN,
           chord'.lines \in Seq(Command), chord'.sent \in Nat, chord'.lock \in BOOLEAN,
           pastes' \in 0..MaxPastes, pastes' >= pastes,
           Framed, Permitted(lines), PacedShape', Leaves(lines)
    PROVE  Core'
  <1>1. /\ acks'.queue \in Seq(Slots) /\ wire' \in [Epochs -> Seq(Command)]
    BY WrittenHere DEF Longer, Core, Typed
  <1>3. Typed'
    BY <1>1 DEF Core, Typed, Framed
  <1>5. Books'
    BY WritingBooks DEF Core, Framed, Permitted
  <1>6. Device'
    BY WritingDevice DEF Core, Framed, Leaves, Lane
  <1>7. drained' \subseteq 1..pastes'
    BY DEF Core, Framed
  <1> QED
    BY <1>3, <1>5, <1>6, <1>7 DEF Core

(* ... in the form most of them have. *)
LEMMA EmitKeeps ==
    ASSUME Core, ~teardown, NEW lines \in Seq(Command), Emit(acks, lines),
           gate' \in BOOLEAN, shift' \in BOOLEAN, pending' \in BOOLEAN,
           chord' = chord \/ chord' = NoPace, pastes' = pastes,
           Framed, Permitted(lines), PacedShape', Leaves(lines)
    PROVE  Core'
  <1>1. /\ Longer(acks.queue, acks'.queue, lines) /\ wire' = Written(lines)
        /\ acks'.done = acks.done
        /\ acks'.from \in Nat /\ acks'.error \in BOOLEAN
    BY EmitIs DEF Core
  <1>2. chord'.lines \in Seq(Command) /\ chord'.sent \in Nat /\ chord'.lock \in BOOLEAN
    <2>1. NoPace.lines = <<>> /\ NoPace.sent = 0 /\ NoPace.lock = FALSE
      BY DEF NoPace
    <2>2. CASE chord' = chord
      BY <2>2 DEF Core, Typed
    <2>3. CASE chord' = NoPace
      <3>1. chord'.lines = <<>> /\ chord'.sent = 0 /\ chord'.lock = FALSE
        BY <2>1, <2>3
      <3>2. <<>> \in Seq(Command) /\ 0 \in Nat
        OBVIOUS
      <3> QED
        BY ONLY <3>1, <3>2
    <2> QED
      BY <2>2, <2>3
  <1>4. sock = "closed" => acks'.done = NoChord
    BY <1>1 DEF Core, Books, Lost
  <1>5. pastes' \in 0..MaxPastes /\ pastes' >= pastes
    BY DEF Core
  <1> QED
    BY <1>1, <1>2, <1>4, <1>5, WriteKeeps

-----------------------------------------------------------------------------
(* The handlers that write. *)

(* After an abort no chord is paced. *)
LEMMA AbortedIs ==
    ASSUME Aborted
    PROVE  /\ flow' # "paced" /\ (chord' = chord \/ chord' = NoPace) /\ PacedShape'
           /\ flow # "paced" => flow' = flow /\ verdict' = verdict
           /\ flow = "paced" => flow' = "idle" /\ verdict' = Told(pastes, "failed")
  <1>1. CASE flow = "paced"
    BY <1>1 DEF Aborted, PacedShape
  <1>2. CASE flow # "paced"
    BY <1>2 DEF Aborted, PacedShape
  <1> QED
    BY <1>1, <1>2

(* A draining configure that was unanswered still is after a write. *)
LEMMA DrainLonger ==
    ASSUME NEW lines, Longer(acks.queue, acks'.queue, lines), acks.queue \in Seq(Slots),
           lines \in Seq(Command)
    PROVE  /\ DrainAhead(acks) => DrainAhead(acks')
           /\ (\E i \in DOMAIN lines : lines[i].verb = "install") => DrainAhead(acks')
  <1>1. /\ Len(acks.queue) \in Nat /\ Len(lines) \in Nat /\ Len(acks'.queue) \in Nat
        /\ DOMAIN acks.queue = 1..Len(acks.queue)
        /\ DOMAIN acks'.queue = 1..Len(acks'.queue) /\ DOMAIN lines = 1..Len(lines)
    BY DEF Longer
  <1>2. ASSUME NEW i \in DOMAIN acks.queue, acks.queue[i].verb = "install"
        PROVE  DrainAhead(acks')
    <2>1. i \in DOMAIN acks'.queue /\ acks'.queue[i].verb = "install"
      BY <1>1, <1>2 DEF Longer
    <2> QED
      BY <2>1 DEF DrainAhead
  <1>3. ASSUME NEW i \in DOMAIN lines, lines[i].verb = "install"
        PROVE  DrainAhead(acks')
    <2>1. Len(acks.queue) + i \in DOMAIN acks'.queue
      BY <1>1, <1>3 DEF Longer
    <2>2. acks'.queue[Len(acks.queue) + i].verb = "install"
      BY <1>1, <1>3 DEF Longer
    <2> QED
      BY <2>1, <2>2 DEF DrainAhead
  <1> QED
    BY <1>2, <1>3 DEF DrainAhead

(* Lifting everything the panel shows keeps the invariant. *)
LEMMA AllLifted ==
    ASSUME Core, ~teardown, Emit(acks, IF flow = "paced" THEN AbortLines ELSE ReleaseAll),
           Aborted, shift' = FALSE, pending' = FALSE, gate' = gate, Framed, pastes' = pastes
    PROVE  Core'
  <1> DEFINE lines == IF flow = "paced" THEN AbortLines ELSE ReleaseAll
  <1>1. /\ lines \in Seq(Command) /\ Only(lines, {"up"})
        /\ Lane => Left(Rest, lines) = {}
    <2>1. CASE flow = "paced"
      BY <2>1, AbortLifts DEF Core
    <2>2. CASE flow # "paced"
      <3>1. Rest \in SUBSET Keys /\ pending \in BOOLEAN /\ shift \in BOOLEAN
        BY MineHere DEF Core, Typed
      <3>2. /\ ReleaseAll \in Seq(Command) /\ Only(ReleaseAll, {"up"})
            /\ Left(Rest, ReleaseAll)
                 = {k \in Rest : ~(k = "A" /\ pending) /\ ~(k = "Shift" /\ shift)}
        BY <3>1, ReleaseAllLifts
      <3>3. Lane => Rest \subseteq Allowed
        BY DEF Core, Device, Shown
      <3> QED
        BY <2>2, <3>2, <3>3 DEF Allowed
    <2> QED
      BY <2>1, <2>2
  <1>2. Emit(acks, lines)
    OBVIOUS
  <1> HIDE DEF lines
  <1>3. /\ flow' # "paced" /\ (chord' = chord \/ chord' = NoPace) /\ PacedShape'
    BY AbortedIs
  <1>4. /\ Clean(Rest, lines, drained) /\ Downless(lines)
        /\ Only(lines, {"down", "up", "hello", "ping"})
    BY <1>1, UpsAreClean DEF Only
  <1>5. Leaves(lines)
    BY <1>1, <1>3, <1>4 DEF Leaves
  <1>6. Permitted(lines)
    BY <1>4 DEF Permitted
  <1>7. gate' \in BOOLEAN /\ shift' \in BOOLEAN /\ pending' \in BOOLEAN
    BY DEF Core, Typed
  <1> QED
    BY <1>1, <1>2, <1>3, <1>5, <1>6, <1>7, EmitKeeps

(* releaseModifiers lifts everything. *)
LEMMA ClosePanelCore ==
    ASSUME Core, ClosePanel, NextTick = TRUE
    PROVE  Core'
  <1>1. ~teardown
    BY DEF ClosePanel, Awake
  <1>2. /\ Emit(acks, IF flow = "paced" THEN AbortLines ELSE ReleaseAll) /\ Aborted
        /\ shift' = FALSE /\ pending' = FALSE
    BY DEF ClosePanel
  <1>3. gate' = gate /\ Framed /\ pastes' = pastes
    BY DEF ClosePanel, User, link, device, Framed
  <1> QED
    BY <1>1, <1>2, <1>3, AllLifted

(* What a line of the user's, written after what an abort lifts, leaves held. *)
LEMMA AfterAbort ==
    ASSUME Core, gate, NEW line \in Command
    PROVE  LET lines == AbortLines \o <<line>>
               held  == Left(Rest, AbortLines)
           IN  /\ lines \in Seq(Command)
               /\ line.verb \in {"down", "up"} => Only(lines, {"down", "up", "hello", "ping"})
               /\ held \in SUBSET Keys /\ Left(Rest, lines) = Struck(held, line)
               /\ Fits(held, line, drained) => Clean(Rest, lines, drained)
  <1> DEFINE a == AbortLines
             b == <<line>>
             held == Left(Rest, a)
  <1>1. a \in Seq(Command) /\ Only(a, {"up"})
    BY Cleared
  <1>2. b \in Seq(Command) /\ (\A verbs : Only(b, verbs) <=> line.verb \in verbs)
    BY OneIsLines
  <1>3. held \in SUBSET Keys
    BY LeftKeys
  <1>4. Left(held, b) = Struck(held, line)
    BY <1>3, LeftOne
  <1>5. Clean(held, b, drained) <=> Fits(held, line, drained)
    BY <1>3, CleanOne
  <1>6. Clean(Rest, a, drained)
    BY <1>1, UpsAreClean
  <1>7. Only(a, {"down", "up", "hello", "ping"})
    BY <1>1 DEF Only
  <1> HIDE DEF a, b
  <1>8. a \o b \in Seq(Command)
    BY <1>1, <1>2, ConcatIsLines
  <1>9. Left(Rest, a \o b) = Left(Left(Rest, a), b)
    BY <1>1, <1>2, LeftConcat
  <1>10. Clean(Rest, a \o b, drained)
           <=> Clean(Rest, a, drained) /\ Clean(Left(Rest, a), b, drained)
    BY <1>1, <1>2, CleanConcat
  <1>11. line.verb \in {"down", "up"} => Only(a \o b, {"down", "up", "hello", "ping"})
    <2>1. line.verb \in {"down", "up"} => Only(b, {"down", "up", "hello", "ping"})
      BY <1>2
    <2> QED
      BY <1>1, <1>2, <1>7, <2>1, OnlyConcat
  <1> QED
    BY <1>3, <1>4, <1>5, <1>6, <1>8, <1>9, <1>10, <1>11 DEF a, b

(* A cap going down aborts the chord before its own press is planned. *)
LEMMA PressCore ==
    ASSUME Core, Press
    PROVE  Core'
  <1> DEFINE want == IF LockLeft THEN {"Shift"} ELSE {}
             press == [Down("A") EXCEPT !.want = want]
             lines == AbortLines \o <<press>>
             held == Left(Rest, AbortLines)
  <1>1. "A" \in Keys /\ want \in SUBSET Modifiers /\ 0 \in 0..MaxPastes
    BY PasteAssumption DEF Keys, Modifiers
  <1>2. press = [verb |-> "down", key |-> "A", of |-> 0, want |-> want]
    <2>1. Down("A") = [verb |-> "down", key |-> "A", of |-> 0, want |-> {}]
      BY <1>1, LineShape
    <2> QED
      BY <2>1
  <1>3. press \in Command
    BY <1>1, <1>2 DEF Command, Line
  <1>4. gate /\ ~pending /\ Emit(acks, lines)
    BY DEF Press
  <1>5. ~teardown /\ sock # "closed"
    BY <1>4, GateOpen
  <1>6. /\ lines \in Seq(Command) /\ Only(lines, {"down", "up", "hello", "ping"})
        /\ held \in SUBSET Keys /\ Left(Rest, lines) = Struck(held, press)
        /\ held \cap Modifiers = press.want => Clean(Rest, lines, drained)
    BY <1>2, <1>3, <1>4, AfterAbort DEF Fits
  <1>7. Lane =>
          /\ "Shift" \in held <=> LockLeft
          /\ "Ctrl" \notin held /\ "V" \notin held /\ "A" \notin held
    BY <1>4, Cleared
  <1>8. Struck(held, press) = held \cup {"A"}
    BY <1>1, <1>2, <1>6 DEF Struck, IsUp, IsDown
  <1>9. sock = "open" => Clean(Rest, lines, drained)
    BY <1>2, <1>5, <1>6, <1>7 DEF Lane, Modifiers
  <1>10. /\ flow' # "paced" /\ (chord' = chord \/ chord' = NoPace) /\ PacedShape'
    BY AbortedIs DEF Press
  <1>11. pending' = TRUE /\ shift' = LockLeft /\ gate' = gate /\ Framed /\ pastes' = pastes
    BY DEF Press, User, Framed, link, device
  <1> HIDE DEF want, press, lines, held
  <1>12. Leaves(lines)
    <2>1. Lane => Left(Rest, lines) \subseteq Allowed'
      BY <1>6, <1>7, <1>8, <1>11 DEF Allowed, Keys, Modifiers
    <2> QED
      BY <1>6, <1>7, <1>8, <1>9, <1>10, <1>11, <2>1 DEF Leaves
  <1>13. Permitted(lines)
    BY <1>4, <1>6, <1>11 DEF Permitted
  <1>14. gate' \in BOOLEAN /\ shift' \in BOOLEAN /\ pending' \in BOOLEAN
    BY <1>11 DEF Core, Typed, LockLeft
  <1> QED
    BY <1>4, <1>5, <1>6, <1>10, <1>11, <1>12, <1>13, <1>14, EmitKeeps

(* So does a click on Shift. *)
LEMMA ClickShiftCore ==
    ASSUME Core, ClickShift
    PROVE  Core'
  <1> DEFINE turn == IF LockLeft THEN Up("Shift") ELSE Down("Shift")
             lines == AbortLines \o <<turn>>
             held == Left(Rest, AbortLines)
  <1>1. "Shift" \in Keys
    BY DEF Keys, Modifiers
  <1>2. turn.key = "Shift" /\ turn.verb = (IF LockLeft THEN "up" ELSE "down") /\ turn \in Command
    BY <1>1, LineShape
  <1>4. gate /\ Emit(acks, lines)
    BY DEF ClickShift
  <1>5. ~teardown /\ sock # "closed"
    BY <1>4, GateOpen
  <1> HIDE DEF turn
  <1>6. /\ lines \in Seq(Command) /\ Only(lines, {"down", "up", "hello", "ping"})
        /\ held \in SUBSET Keys /\ Left(Rest, lines) = Struck(held, turn)
        /\ Clean(Rest, lines, drained)
    BY <1>2, <1>4, AfterAbort DEF Fits, IsPress
  <1>7. Lane =>
          /\ "Shift" \in held <=> LockLeft
          /\ "Ctrl" \notin held /\ "V" \notin held
          /\ "A" \in held => pending /\ flow # "paced"
    BY <1>4, Cleared
  <1>8. Struck(held, turn) = IF LockLeft THEN held \ {"Shift"} ELSE held \cup {"Shift"}
    BY <1>1, <1>2, <1>6 DEF Struck, IsUp, IsDown
  <1>10. /\ flow' # "paced" /\ (chord' = chord \/ chord' = NoPace) /\ PacedShape'
    BY AbortedIs DEF ClickShift
  <1>11. /\ pending' = (pending /\ flow # "paced") /\ shift' = ~LockLeft /\ gate' = gate
         /\ Framed /\ pastes' = pastes
    BY DEF ClickShift, User, Framed, link, device
  <1> HIDE DEF lines, held
  <1>12. Leaves(lines)
    <2>1. Lane => Left(Rest, lines) \subseteq Allowed'
      BY <1>6, <1>7, <1>8, <1>11 DEF Allowed, Keys, Modifiers
    <2> QED
      BY <1>6, <1>7, <1>8, <1>10, <1>11, <2>1 DEF Leaves
  <1>13. Permitted(lines)
    BY <1>4, <1>6, <1>11 DEF Permitted
  <1>14. gate' \in BOOLEAN /\ shift' \in BOOLEAN /\ pending' \in BOOLEAN
    BY <1>11 DEF Core, Typed, LockLeft
  <1> QED
    BY <1>4, <1>5, <1>6, <1>10, <1>11, <1>12, <1>13, <1>14, EmitKeeps DEF lines

(* A cap coming up lifts the key under the pointer, whatever the gate says. *)
LEMMA ReleaseCore ==
    ASSUME Core, Release, NextTick = TRUE
    PROVE  Core'
  <1> DEFINE lines == <<Up("A")>>
  <1>1. ~teardown /\ pending /\ Emit(acks, lines) /\ pending' = FALSE
        /\ gate' = gate /\ shift' = shift /\ flow' = flow /\ chord' = chord /\ Framed
        /\ pastes' = pastes
    BY DEF Release, Awake, User, Framed, link, device
  <1>2. flow # "paced"
    BY <1>1 DEF Core, Device, PacedShape
  <1>3. "A" \in Keys /\ Up("A") \in Command /\ Up("A").verb = "up" /\ Up("A").key = "A"
    BY LineShape DEF Keys
  <1>4. lines \in Seq(Command) /\ Only(lines, {"up"})
    BY <1>3, OneIsLines
  <1>5. Rest \in SUBSET Keys
    BY MineHere DEF Core
  <1>6. Left(Rest, lines) = Rest \ {"A"}
    <2>1. Struck(Rest, Up("A")) = Rest \ {"A"}
      BY <1>3, <1>5 DEF Struck, IsUp, IsDown
    <2> QED
      BY <1>5, <2>1, LeftOne
  <1> HIDE DEF lines
  <1>7. /\ Clean(Rest, lines, drained) /\ Downless(lines)
        /\ Only(lines, {"down", "up", "hello", "ping"})
    BY <1>4, UpsAreClean DEF Only
  <1>8. Longer(acks.queue, acks'.queue, lines)
    BY <1>1, <1>4, EmitIs DEF Core
  <1>9. DrainAhead(acks) => DrainAhead(acks')
    BY <1>4, <1>8, DrainLonger DEF Core, Typed
  <1>10. PacedShape'
    BY <1>1, <1>2 DEF PacedShape
  <1>11. Leaves(lines)
    <2>1. Lane => Left(Rest, lines) \subseteq Allowed'
      BY <1>1, <1>2, <1>6 DEF Core, Device, Shown, Allowed
    <2>2. Lane /\ ~fresh /\ shift /\ ~DrainAhead(acks) => "Shift" \in Rest
      BY <1>2 DEF Core, Device, Locked
    <2> QED
      BY <1>1, <1>2, <1>6, <1>7, <1>9, <2>1, <2>2 DEF Leaves
  <1>12. Permitted(lines)
    BY <1>1, <1>7 DEF Permitted
  <1>13. gate' \in BOOLEAN /\ shift' \in BOOLEAN /\ pending' \in BOOLEAN
    BY <1>1 DEF Core, Typed
  <1> QED
    BY <1>1, <1>4, <1>10, <1>11, <1>12, <1>13, EmitKeeps

(* A line that moves no key. *)
LEMMA StillKeeps ==
    ASSUME Core, ~teardown, NEW verb \in {"hello", "ping", "install", "refresh"},
           Emit(acks, <<Cmd(verb)>>), Framed,
           UNCHANGED <<flow, chord, shift, pending, pastes>>,
           Lane /\ flow = "paced" => ~fresh,
           \/ verb \in {"hello", "ping"} /\ gate' = gate
           \/ gate /\ gate' = FALSE
    PROVE  Core'
  <1> DEFINE lines == <<Cmd(verb)>>
  <1>1. Cmd(verb) \in Command /\ Cmd(verb).verb = verb /\ Rest \in SUBSET Keys
    BY CmdShape, MineHere DEF Core
  <1>2. lines \in Seq(Command) /\ (\A verbs : Only(lines, verbs) <=> verb \in verbs)
    BY <1>1, OneIsLines
  <1>3. Left(Rest, lines) = Rest
    BY <1>1, CmdShape, LeftOne
  <1>4. Downless(lines)
    BY <1>1 DEF Downless
  <1> HIDE DEF lines
  <1>5. Clean(Rest, lines, drained)
    BY <1>2, <1>4, LeftDownless
  <1>6. Emit(acks, lines)
    BY DEF lines
  <1>7. Longer(acks.queue, acks'.queue, lines)
    BY <1>2, <1>6, EmitIs DEF Core
  <1>8. DrainAhead(acks) => DrainAhead(acks')
    BY <1>2, <1>7, DrainLonger DEF Core, Typed
  <1>9. PacedShape'
    BY DEF Core, Device, PacedShape, Lane, Framed
  <1>10. /\ Allowed' = Allowed /\ CtrlOpen' = CtrlOpen
         /\ Unshaken' => Unshaken
    BY <1>8 DEF Allowed, CtrlOpen, KeyOpen, Unshaken, Framed
  <1>11. Leaves(lines)
    BY <1>3, <1>5, <1>8, <1>10 DEF Leaves, Core, Device, Shown, Locked, PacedHolds
  <1>12. Permitted(lines)
    BY <1>2, <1>4 DEF Permitted
  <1>13. gate' \in BOOLEAN /\ shift' \in BOOLEAN /\ pending' \in BOOLEAN
    BY DEF Core, Typed
  <1> QED
    BY <1>2, <1>6, <1>9, <1>11, <1>12, <1>13, EmitKeeps

(* A configure closes the gate behind it. *)
LEMMA InstallCore ==
    ASSUME Core, Install
    PROVE  Core'
  <1>1. ~teardown /\ (Lane => ~fresh)
    BY GateOpen DEF Install, Lane
  <1> QED
    BY <1>1, StillKeeps DEF Install, Framed, link, device

(* The hello timer writes a hello and moves nothing the device rests on. *)
LEMMA HelloTimerCore ==
    ASSUME Core, HelloTimer
    PROVE  Core'
  BY StillKeeps DEF HelloTimer, Framed, device, counts

(* Nothing the lane rests on changes. *)
LEMMA SameCore ==
    ASSUME Core, UNCHANGED <<acks, gate, shift, pending, chord, flow, sock, epoch, wire,
                             replies, greeted, claims, teardown, fresh, pastes, drained>>
    PROVE  Core'
  <1>1. Typed'
    BY DEF Core, Typed
  <1>2. /\ Here' = Here /\ Mine' = Mine /\ Asked' = Asked /\ Rest' = Rest
        /\ DrainAhead(acks)' = DrainAhead(acks) /\ Lane' = Lane
    BY DEF Here, Mine, Asked, Rest, DrainAhead, Lane
  <1>3. Books'
    <2>1. Aligned'
      BY <1>2 DEF Core, Books, Aligned
    <2>2. Worded' /\ Lost' /\ Unborn' /\ Drained'
      BY <1>2 DEF Core, Books, Worded, Lost, Unborn, Drained
    <2>3. FreshLane'
      BY <1>2 DEF Core, Books, FreshLane
    <2>4. Older'
      BY <1>2 DEF Core, Books, Older, Alike
    <2>5. NoDowns'
      BY <1>2 DEF Core, Books, NoDowns
    <2> QED
      BY <2>1, <2>2, <2>3, <2>4, <2>5 DEF Books
  <1>4. Device'
    <2>1. Allowed' = Allowed /\ CtrlOpen' = CtrlOpen
      BY DEF Allowed, CtrlOpen, KeyOpen
    <2>2. Planned' /\ PacedShape' /\ Shown'
      BY <1>2, <2>1 DEF Core, Device, Planned, PacedShape, Shown
    <2>3. Locked' /\ PacedHolds'
      BY <1>2, <2>1 DEF Core, Device, Locked, PacedHolds, Unshaken
    <2> QED
      BY <2>2, <2>3 DEF Device
  <1> QED
    BY <1>1, <1>3, <1>4 DEF Core

(* Nor does the repair timer's probe. *)
LEMMA RepairTickCore ==
    ASSUME Core, RepairTick
    PROVE  Core'
  <1>1. CASE gate /\ ~Asked
    <2>1. Emit(acks, <<Cmd("ping")>>) /\ flow # "paced"
      BY <1>1 DEF RepairTick, ProbeHold
    <2> QED
      BY <2>1, StillKeeps DEF RepairTick, Framed, device, counts
  <1>2. CASE ~(gate /\ ~Asked)
    BY <1>2, SameCore DEF RepairTick, device, counts
  <1> QED
    BY <1>1, <1>2

-----------------------------------------------------------------------------
(* A click that writes nothing begins a region of the ledger at most. *)
LEMMA ClickIs ==
    ASSUME Core, Clicked, NextTick = TRUE
    PROVE  /\ ~teardown /\ flow = "idle" /\ pastes' = pastes + 1 /\ pastes' \in 1..MaxPastes
           /\ pastes' >= pastes /\ pastes' \notin drained /\ drained' \subseteq 1..pastes'
           /\ Framed /\ gate' = gate /\ shift' = shift /\ pending' = pending
           /\ UNCHANGED <<sock, teardown, epoch, fresh, replies, greeted, claims,
                          landed, strays>>
  BY PasteAssumption DEF Core, Clicked, Awake, Framed, link, device

(* A paste that starts clears what earlier slots would mean for it, and leaves the
   slots. *)
LEMMA StartKeepsBooks ==
    ASSUME Core, ~teardown, acks' = ChordStart(acks), wire' = wire, Framed,
           UNCHANGED <<gate, shift, pending>>
    PROVE  /\ Books' /\ Planned' /\ Rest' = Rest /\ Lane' = Lane
           /\ DrainAhead(acks)' = DrainAhead(acks)
           /\ acks'.queue \in Seq(Slots) /\ acks'.from \in Nat /\ acks'.error \in BOOLEAN
  <1>1. acks'.queue = acks.queue /\ acks'.done = acks.done /\ acks'.from = Len(acks.queue)
        /\ acks'.error = FALSE
    BY DEF ChordStart
  <1>2. /\ Here' = Here /\ Mine' = Mine /\ Asked' = Asked /\ Rest' = Rest
        /\ DrainAhead(acks)' = DrainAhead(acks) /\ Lane' = Lane
    BY <1>1 DEF Here, Mine, Asked, Rest, DrainAhead, Lane, Framed
  <1>3. Aligned'
    BY <1>1, <1>2 DEF Core, Books, Aligned, Framed
  <1>4. Worded' /\ Lost' /\ Unborn' /\ Drained'
    BY <1>1, <1>2 DEF Core, Books, Worded, Lost, Unborn, Drained, Framed
  <1>5. FreshLane'
    BY <1>2 DEF Core, Books, FreshLane, Framed
  <1>6. Older'
    BY <1>2 DEF Core, Books, Older, Alike, Framed
  <1>7. NoDowns'
    BY <1>2 DEF Core, Books, NoDowns, Framed
  <1>8. Planned'
    BY <1>2 DEF Core, Device, Planned, Framed
  <1>9. acks'.queue \in Seq(Slots) /\ acks'.from \in Nat /\ acks'.error \in BOOLEAN
    <2>1. acks.queue \in Seq(Slots) /\ Len(acks.queue) \in Nat /\ FALSE \in BOOLEAN
      BY DEF Core, Typed
    <2> QED
      BY ONLY <1>1, <2>1
  <1> QED
    BY <1>2, <1>3, <1>4, <1>5, <1>6, <1>7, <1>8, <1>9 DEF Books

(* A paste that is refused writes nothing. *)
LEMMA PasteRefusedCore ==
    ASSUME Core, PasteRefused, NextTick = TRUE
    PROVE  Core'
  <1>1. /\ ~teardown /\ flow = "idle" /\ pastes' \in 1..MaxPastes /\ pastes' >= pastes
        /\ pastes' \notin drained /\ drained' \subseteq 1..pastes'
        /\ Framed /\ gate' = gate /\ shift' = shift /\ pending' = pending
    BY ClickIs DEF PasteRefused
  <1>2. acks' = ChordStart(acks) /\ wire' = wire /\ flow' = flow /\ chord' = chord
    BY DEF PasteRefused
  <1>3. /\ Books' /\ Planned' /\ Rest' = Rest /\ Lane' = Lane
        /\ DrainAhead(acks)' = DrainAhead(acks)
        /\ acks'.queue \in Seq(Slots) /\ acks'.from \in Nat /\ acks'.error \in BOOLEAN
    BY <1>1, <1>2, StartKeepsBooks
  <1>4. Typed'
    BY <1>1, <1>2, <1>3 DEF Core, Typed, Framed
  <1>5. Allowed' = Allowed
    BY <1>1, <1>2 DEF Allowed
  <1>6. PacedShape' /\ Shown' /\ Locked' /\ PacedHolds'
    BY <1>1, <1>2, <1>3, <1>5 DEF Core, Device, PacedShape, Shown, Locked, PacedHolds, Framed
  <1>7. pastes' \in 0..MaxPastes
    BY <1>1, PasteAssumption
  <1> QED
    BY <1>1, <1>3, <1>4, <1>6, <1>7 DEF Core, Device

(* A paste that is paced sees the lock and writes nothing yet. *)
LEMMA PastePacedCore ==
    ASSUME Core, NEW kind \in Kinds, PastePaced(kind), NextTick = TRUE
    PROVE  Core'
  <1>1. /\ ~teardown /\ flow = "idle" /\ pastes' \in 1..MaxPastes /\ pastes' >= pastes
        /\ pastes' \notin drained /\ drained' \subseteq 1..pastes'
        /\ Framed /\ gate' = gate /\ shift' = shift /\ pending' = pending
    BY ClickIs DEF PastePaced
  <1>2. /\ acks' = ChordStart(acks) /\ wire' = wire /\ flow' = "paced" /\ kind = "wine"
        /\ gate /\ ~pending
        /\ chord' = [lines |-> ChordLines(kind, pastes'), sent |-> 0, lock |-> shift]
    BY DEF PastePaced
  <1>3. /\ Books' /\ Planned' /\ Rest' = Rest /\ Lane' = Lane
        /\ DrainAhead(acks)' = DrainAhead(acks)
        /\ acks'.queue \in Seq(Slots) /\ acks'.from \in Nat /\ acks'.error \in BOOLEAN
    BY <1>1, <1>2, StartKeepsBooks
  <1>4. pastes' \in 0..MaxPastes /\ shift \in BOOLEAN
    BY <1>1, PasteAssumption DEF Core, Typed
  <1>5. /\ chord'.lines = WineLines(shift, pastes') /\ chord'.sent = 0 /\ chord'.lock = shift
        /\ chord'.lines \in Seq(Command)
    BY <1>2, <1>4, WineIs
  <1>6. Len(chord'.lines) > 0
    <2>1. CASE shift
      BY <1>5, <2>1 DEF WineLines
    <2>2. CASE ~shift
      BY <1>5, <2>2 DEF WineLines
    <2> QED
      BY <2>1, <2>2
  <1>7. Typed'
    BY <1>1, <1>2, <1>3, <1>4, <1>5 DEF Core, Typed, Framed
  <1>8. PacedShape'
    <2>1. Lane => ~fresh
      BY <1>2, GateOpen DEF Lane
    <2> QED
      BY <1>1, <1>2, <1>3, <1>5, <1>6, <2>1 DEF PacedShape, Framed
  <1>9. ~CtrlOpen' /\ ~KeyOpen'
    BY <1>5 DEF CtrlOpen, KeyOpen
  <1>10. Allowed' = Allowed
    BY <1>1, <1>2, <1>9 DEF Allowed
  <1>11. Shown' /\ Locked'
    BY <1>1, <1>2, <1>3, <1>10 DEF Core, Device, Shown, Locked
  <1>12. PacedHolds'
    <2>1. Lane => ("Shift" \in Rest <=> shift)
      BY <1>1, <1>2, Hands DEF Core, Lane
    <2> QED
      BY <1>3, <1>5, <1>9, <2>1 DEF PacedHolds
  <1> QED
    BY <1>1, <1>3, <1>4, <1>7, <1>8, <1>11, <1>12 DEF Core, Device

(* A paste that is sent at once is clean under the lock the panel shows. *)
LEMMA PasteAtOnceCore ==
    ASSUME Core, NEW kind \in Kinds, PasteAtOnce(kind), NextTick = TRUE
    PROVE  Core'
  <1> DEFINE lines == ChordLines(kind, pastes')
  <1>1. /\ ~teardown /\ flow = "idle" /\ pastes' \in 1..MaxPastes /\ pastes' >= pastes
        /\ pastes' \notin drained /\ drained' \subseteq 1..pastes'
        /\ Framed /\ gate' = gate /\ shift' = shift /\ pending' = pending
    BY ClickIs DEF PasteAtOnce
  <1>2. /\ acks' = ChordArmed(Sent(ChordStart(acks), lines), pastes')
        /\ wire' = Written(lines)
        /\ flow' = "awaiting" /\ gate /\ ~pending /\ chord' = chord
    BY DEF PasteAtOnce
  <1>3. pastes' \in 0..MaxPastes /\ shift \in BOOLEAN /\ Rest \in SUBSET Keys
        /\ kind \in {"gtk", "terminal", "wine"}
    BY <1>1, PasteAssumption, MineHere DEF Core, Typed
  <1>4. ~teardown /\ sock # "closed" /\ ~DrainAhead(acks)
    BY <1>2, GateOpen
  <1>5. sock = "open" => /\ "Shift" \in Rest <=> shift
                         /\ "Ctrl" \notin Rest /\ "V" \notin Rest
    BY <1>1, <1>2, Hands DEF Core
  <1>6. /\ lines \in Seq(Command) /\ Only(lines, {"down", "up"})
        /\ sock = "open" => Clean(Rest, lines, drained) /\ Left(Rest, lines) = Rest
    <2>1. CASE sock = "open"
      BY <1>3, <1>5, <2>1, ChordIsClean
    <2>2. CASE sock # "open"
      <3> DEFINE set == IF shift THEN {"Shift"} ELSE {}
      <3>1. set \in SUBSET Keys /\ ("Shift" \in set <=> shift)
            /\ "Ctrl" \notin set /\ "V" \notin set
        BY DEF Keys, Modifiers
      <3> HIDE DEF set
      <3> QED
        BY <1>3, <2>2, <3>1, ChordIsClean
    <2> QED
      BY <2>1, <2>2
  <1> HIDE DEF lines
  <1>7. /\ Longer(acks.queue, acks'.queue, lines) /\ acks'.from \in Nat
        /\ acks'.error \in BOOLEAN
    <2> DEFINE s == ChordStart(acks)
               q == Sent(s, lines).queue
    <2>1. s.queue = acks.queue /\ s.from = Len(acks.queue) /\ s.error = FALSE
      BY DEF ChordStart
    <2>2. acks.queue \in Seq(Slots)
      BY DEF Core, Typed
    <2> HIDE DEF s
    <2>3. Longer(acks.queue, q, lines)
      <3>1. s.queue \in Seq(Slots) /\ lines \in Seq(Command)
        BY <1>6, <2>1, <2>2
      <3>2. Longer(s.queue, Sent(s, lines).queue, lines)
        BY ONLY <3>1, SentLonger
      <3> QED
        BY <2>1, <3>2
    <2>4. q \in Seq(Slots)
      BY <2>3 DEF Longer
    <2>5. acks'.queue = MarkedAt(q, Len(q))
      BY <1>2 DEF ChordArmed, s
    <2>6. acks'.from = s.from /\ acks'.error = s.error
      BY <1>2 DEF ChordArmed, Sent, s
    <2> HIDE DEF q
    <2>7. Longer(acks.queue, MarkedAt(q, Len(q)), lines)
      BY <2>3, <2>4, MarkedLonger
    <2>8. Len(acks.queue) \in Nat /\ FALSE \in BOOLEAN
      BY <2>2
    <2> QED
      BY ONLY <2>1, <2>5, <2>6, <2>7, <2>8
  <1>8. PacedShape'
    BY <1>2 DEF PacedShape
  <1>9. Allowed' = Allowed
    BY <1>1, <1>2 DEF Allowed
  <1>10. Lane => Rest \subseteq Allowed
    BY DEF Core, Device, Shown
  <1>11. Leaves(lines)
    <2>1. flow' # "paced"
      BY <1>2
    <2>2. sock = "open" => Clean(Rest, lines, drained)
      BY <1>6
    <2>3. Lane => Left(Rest, lines) = Rest
      BY <1>6 DEF Lane
    <2>4. Lane /\ shift' => "Shift" \in Rest
      BY <1>1, <1>5 DEF Lane
    <2> QED
      BY ONLY <1>9, <1>10, <2>1, <2>2, <2>3, <2>4 DEF Leaves
  <1>12. Permitted(lines)
    <2>1. Only(lines, {"down", "up", "hello", "ping"})
      BY <1>6 DEF Only
    <2> QED
      BY <1>1, <1>2, <2>1 DEF Permitted
  <1>13. /\ gate' \in BOOLEAN /\ shift' \in BOOLEAN /\ pending' \in BOOLEAN
         /\ chord'.lines \in Seq(Command) /\ chord'.sent \in Nat /\ chord'.lock \in BOOLEAN
    BY <1>1, <1>2 DEF Core, Typed
  <1> QED
    BY <1>1, <1>2, <1>3, <1>4, <1>6, <1>7, <1>8, <1>11, <1>12, <1>13, WriteKeeps

-----------------------------------------------------------------------------
(* The next line of a paced chord, and what it moves. *)
LEMMA NextLine ==
    ASSUME flow = "paced", PacedShape, chord.sent \in Nat, chord.lock \in BOOLEAN,
           pastes \in 0..MaxPastes,
           NEW next, next = chord.lines[chord.sent + 1]
    PROVE  /\ next \in Command /\ next.verb \in {"down", "up"}
           /\ ~chord.lock => chord.sent \in 0..3 /\ Len(chord.lines) = 4
           /\ chord.lock => chord.sent \in 0..5 /\ Len(chord.lines) = 6
           /\ IsPress(next) <=> chord.sent = IF chord.lock THEN 2 ELSE 1
           /\ IsPress(next) => next.want = {"Ctrl"} /\ next.of = pastes
           /\ IsDown(next, "Ctrl") <=> chord.sent = IF chord.lock THEN 1 ELSE 0
           /\ IsUp(next, "Ctrl") <=> chord.sent = IF chord.lock THEN 4 ELSE 3
           /\ IsDown(next, "V") <=> chord.sent = IF chord.lock THEN 2 ELSE 1
           /\ IsUp(next, "V") <=> chord.sent = IF chord.lock THEN 3 ELSE 2
           /\ IsUp(next, "Shift") <=> chord.lock /\ chord.sent = 0
           /\ IsDown(next, "Shift") <=> chord.lock /\ chord.sent = 5
           /\ ~IsDown(next, "A") /\ ~IsUp(next, "A")
  <1> DEFINE press == [verb |-> "down", key |-> "V", of |-> pastes, want |-> {"Ctrl"}]
  <1>1. chord.lines = WineLines(chord.lock, pastes) /\ chord.sent < Len(chord.lines)
    BY DEF PacedShape
  <1>2. /\ Up("Shift").verb = "up" /\ Up("Shift").key = "Shift" /\ Up("Shift") \in Command
        /\ Up("Ctrl").verb = "up" /\ Up("Ctrl").key = "Ctrl" /\ Up("Ctrl") \in Command
        /\ Up("V").verb = "up" /\ Up("V").key = "V" /\ Up("V") \in Command
        /\ Down("Ctrl").verb = "down" /\ Down("Ctrl").key = "Ctrl" /\ Down("Ctrl") \in Command
        /\ Down("Shift").verb = "down" /\ Down("Shift").key = "Shift"
        /\ Down("Shift") \in Command
    <2>1. "Shift" \in Keys /\ "Ctrl" \in Keys /\ "V" \in Keys
      BY DEF Keys, Modifiers
    <2> QED
      BY <2>1, LineShape
  <1>3. press \in Command /\ press.verb = "down" /\ press.key = "V" /\ press.of = pastes
        /\ press.want = {"Ctrl"}
    BY DEF Command, Line, Keys, Modifiers
  <1> HIDE DEF press
  <1>4. CASE chord.lock
    <2>1. chord.lines = <<Up("Shift"), Down("Ctrl"), press, Up("V"), Up("Ctrl"), Down("Shift")>>
      BY <1>1, <1>4 DEF WineLines, press
    <2>2. Len(chord.lines) = 6 /\ chord.sent \in 0..5
      BY <1>1, <2>1
    <2>3. /\ chord.sent = 0 => next = Up("Shift")
          /\ chord.sent = 1 => next = Down("Ctrl")
          /\ chord.sent = 2 => next = press
          /\ chord.sent = 3 => next = Up("V")
          /\ chord.sent = 4 => next = Up("Ctrl")
          /\ chord.sent = 5 => next = Down("Shift")
      BY <2>1
    <2>4. chord.sent = 0 \/ chord.sent = 1 \/ chord.sent = 2 \/ chord.sent = 3
          \/ chord.sent = 4 \/ chord.sent = 5
      BY <2>2
    <2> QED
      BY <1>2, <1>3, <1>4, <2>2, <2>3, <2>4 DEF IsPress, IsDown, IsUp
  <1>5. CASE ~chord.lock
    <2>1. chord.lines = <<Down("Ctrl"), press, Up("V"), Up("Ctrl")>>
      BY <1>1, <1>5 DEF WineLines, press
    <2>2. Len(chord.lines) = 4 /\ chord.sent \in 0..3
      BY <1>1, <2>1
    <2>3. /\ chord.sent = 0 => next = Down("Ctrl")
          /\ chord.sent = 1 => next = press
          /\ chord.sent = 2 => next = Up("V")
          /\ chord.sent = 3 => next = Up("Ctrl")
      BY <2>1
    <2>4. chord.sent = 0 \/ chord.sent = 1 \/ chord.sent = 2 \/ chord.sent = 3
      BY <2>2
    <2> QED
      BY <1>2, <1>3, <1>5, <2>2, <2>3, <2>4 DEF IsPress, IsDown, IsUp
  <1> QED
    BY <1>4, <1>5

(* The pacer keeps its three fields. *)
ChordShape == chord = [lines |-> chord.lines, sent |-> chord.sent, lock |-> chord.lock]

(* A tick of the pacer that sends its next line. *)
LEMMA TickSends ==
    ASSUME Core, ChordShape, Tick, AssumptionsHold, NextTick = TRUE
    PROVE  Core'
  <1> DEFINE next == chord.lines[chord.sent + 1]
             last == chord.sent + 1 = Len(chord.lines)
             lines == <<next>>
  <1>1. /\ ~teardown /\ flow = "paced" /\ gate /\ ~pending /\ shift = chord.lock
        /\ acks' = IF last THEN ChordArmed(Sent(acks, lines), pastes)
                           ELSE Sent(acks, lines)
        /\ wire' = Written(lines)
        /\ flow' = IF last THEN "awaiting" ELSE "paced"
        /\ chord' = IF last THEN NoPace ELSE [chord EXCEPT !.sent = @ + 1]
        /\ UNCHANGED <<shift, pending, gate>> /\ Framed /\ pastes' = pastes
    BY DEF Tick, AssumptionsHold, Awake, Framed, link, device, counts
  <1>2. /\ PacedShape /\ chord.sent \in Nat /\ chord.lock \in BOOLEAN
        /\ pastes \in 0..MaxPastes /\ Rest \in SUBSET Keys
    BY MineHere DEF Core, Typed, Device
  <1>3. sock # "closed" /\ ~DrainAhead(acks) /\ (sock = "open" => ~fresh)
    BY <1>1, GateOpen
  <1>4. /\ next \in Command /\ next.verb \in {"down", "up"}
        /\ ~chord.lock => chord.sent \in 0..3 /\ Len(chord.lines) = 4
        /\ chord.lock => chord.sent \in 0..5 /\ Len(chord.lines) = 6
        /\ IsPress(next) <=> chord.sent = IF chord.lock THEN 2 ELSE 1
        /\ IsPress(next) => next.want = {"Ctrl"} /\ next.of = pastes
        /\ IsDown(next, "Ctrl") <=> chord.sent = IF chord.lock THEN 1 ELSE 0
        /\ IsUp(next, "Ctrl") <=> chord.sent = IF chord.lock THEN 4 ELSE 3
        /\ IsDown(next, "V") <=> chord.sent = IF chord.lock THEN 2 ELSE 1
        /\ IsUp(next, "V") <=> chord.sent = IF chord.lock THEN 3 ELSE 2
        /\ IsUp(next, "Shift") <=> chord.lock /\ chord.sent = 0
        /\ IsDown(next, "Shift") <=> chord.lock /\ chord.sent = 5
        /\ ~IsDown(next, "A") /\ ~IsUp(next, "A")
    BY <1>1, <1>2, NextLine
  <1> DEFINE held == Struck(Rest, next)
  <1>5. /\ lines \in Seq(Command) /\ Only(lines, {"down", "up", "hello", "ping"})
        /\ Left(Rest, lines) = held
        /\ Clean(Rest, lines, drained) <=> Fits(Rest, next, drained)
    <2>1. lines \in Seq(Command) /\ \A verbs : Only(lines, verbs) <=> next.verb \in verbs
      BY <1>4, OneIsLines
    <2>2. next.verb \in {"down", "up", "hello", "ping"}
      BY <1>4
    <2> QED
      BY <1>2, <2>1, <2>2, LeftOne, CleanOne
  <1>6. /\ Lane => /\ "Ctrl" \in Rest => CtrlOpen
                   /\ "Shift" \in Rest => chord.lock
                   /\ "V" \in Rest => KeyOpen
                   /\ "A" \notin Rest
        /\ Lane /\ pastes \notin drained => /\ CtrlOpen => "Ctrl" \in Rest
                                            /\ "Shift" \in Rest <=> chord.lock /\ chord.sent = 0
        /\ pastes \in drained => ~chord.lock
    <2>1. Lane => Rest \subseteq Allowed
      BY DEF Core, Device, Shown
    <2>2. Lane /\ pastes \notin drained => Unshaken
      BY <1>3 DEF Unshaken, Lane
    <2>3. Lane /\ pastes \notin drained => /\ CtrlOpen => "Ctrl" \in Rest
                                           /\ "Shift" \in Rest <=> chord.lock /\ chord.sent = 0
      BY <1>1, <2>2 DEF Core, Device, PacedHolds
    <2>4. pastes \in drained => ~chord.lock
      BY <1>1, <1>2 DEF PacedShape
    <2> QED
      BY <1>1, <2>1, <2>3, <2>4 DEF Allowed
  <1>7. sock = "open" => Clean(Rest, lines, drained)
    <2>1. ASSUME Lane, IsPress(next), pastes \notin drained PROVE Rest \cap Modifiers = {"Ctrl"}
      BY <1>4, <1>6, <2>1 DEF CtrlOpen, Modifiers
    <2>2. Lane => Fits(Rest, next, drained)
      BY <1>4, <2>1 DEF Fits
    <2> QED
      BY <1>1, <1>5, <2>2 DEF Lane
  <1> HIDE DEF next, lines, held
  <1>8. \A k \in Keys : k \in held <=> IsDown(next, k) \/ (k \in Rest /\ ~IsUp(next, k))
    BY DEF held, Struck
  <1>9. held \in SUBSET Keys /\ "Ctrl" \in Keys /\ "Shift" \in Keys /\ "V" \in Keys /\ "A" \in Keys
    BY DEF held, Struck, Keys, Modifiers
  <1>10. /\ Lane => /\ "Ctrl" \in held => chord.sent + 1 \in IF chord.lock THEN 2..4 ELSE 1..3
                    /\ "Shift" \in held => chord.lock /\ chord.sent = 5
                    /\ "V" \in held => chord.sent + 1 = IF chord.lock THEN 3 ELSE 2
                    /\ "A" \notin held
         /\ Lane /\ pastes \notin drained =>
              /\ chord.sent + 1 \in (IF chord.lock THEN 2..4 ELSE 1..3) => "Ctrl" \in held
              /\ chord.lock /\ chord.sent = 5 => "Shift" \in held
    <2> SUFFICES ASSUME Lane
                 PROVE  /\ "Ctrl" \in held => chord.sent + 1 \in IF chord.lock THEN 2..4 ELSE 1..3
                        /\ "Shift" \in held => chord.lock /\ chord.sent = 5
                        /\ "V" \in held => chord.sent + 1 = IF chord.lock THEN 3 ELSE 2
                        /\ "A" \notin held
                        /\ pastes \notin drained =>
                             /\ chord.sent + 1 \in (IF chord.lock THEN 2..4 ELSE 1..3)
                                  => "Ctrl" \in held
                             /\ chord.lock /\ chord.sent = 5 => "Shift" \in held
      OBVIOUS
    <2>1. CASE chord.lock
      <3>1. pastes \notin drained
        BY <1>6, <2>1
      <3> QED
        BY <1>2, <1>4, <1>6, <1>8, <1>9, <2>1, <3>1 DEF CtrlOpen, KeyOpen
    <2>2. CASE ~chord.lock
      BY <1>2, <1>4, <1>6, <1>8, <1>9, <2>2 DEF CtrlOpen, KeyOpen
    <2> QED
      BY <2>1, <2>2
  <1>11. Longer(acks.queue, Sent(acks, lines).queue, lines)
    BY <1>5, SentLonger DEF Core, Typed
  <1>12. Sent(acks, lines).done = acks.done /\ Sent(acks, lines).from = acks.from
         /\ Sent(acks, lines).error = acks.error /\ acks.from \in Nat /\ acks.error \in BOOLEAN
    BY DEF Sent, Core, Typed
  <1>13. Permitted(lines)
    BY <1>1, <1>5 DEF Permitted
  <1>14. gate' \in BOOLEAN /\ shift' \in BOOLEAN /\ pending' \in BOOLEAN /\ pastes' \in 0..MaxPastes
    BY <1>1, <1>2 DEF Core, Typed
  <1>15. CASE last
    <2>1. acks' = ChordArmed(Sent(acks, lines), pastes) /\ flow' = "awaiting" /\ chord' = NoPace
      BY <1>1, <1>15
    <2>2. Longer(acks.queue, acks'.queue, lines) /\ acks'.from \in Nat /\ acks'.error \in BOOLEAN
      <3> DEFINE q == Sent(acks, lines).queue
      <3>1. q \in Seq(Slots)
        BY <1>11 DEF Longer
      <3>2. acks'.queue = MarkedAt(q, Len(q)) /\ acks'.from = acks.from /\ acks'.error = acks.error
        BY <1>12, <2>1 DEF ChordArmed
      <3> HIDE DEF q
      <3>3. Longer(acks.queue, MarkedAt(q, Len(q)), lines)
        BY <1>11, <3>1, MarkedLonger DEF q
      <3> QED
        BY <1>12, <3>2, <3>3
    <2>3. chord'.lines \in Seq(Command) /\ chord'.sent \in Nat /\ chord'.lock \in BOOLEAN
      <3>1. chord'.lines = <<>> /\ chord'.sent = 0 /\ chord'.lock = FALSE
        BY <2>1 DEF NoPace
      <3>2. <<>> \in Seq(Command) /\ 0 \in Nat
        OBVIOUS
      <3> QED
        BY ONLY <3>1, <3>2
    <2>4. PacedShape'
      BY <2>1 DEF PacedShape
    <2>5. chord.sent = IF chord.lock THEN 5 ELSE 3
      <3>1. CASE chord.lock
        <4>1. chord.sent \in 0..5 /\ Len(chord.lines) = 6 /\ chord.sent + 1 = Len(chord.lines)
          BY <1>4, <1>15, <3>1
        <4> QED
          BY ONLY <3>1, <4>1
      <3>2. CASE ~chord.lock
        <4>1. chord.sent \in 0..3 /\ Len(chord.lines) = 4 /\ chord.sent + 1 = Len(chord.lines)
          BY <1>4, <1>15, <3>2
        <4> QED
          BY ONLY <3>2, <4>1
      <3> QED
        BY <3>1, <3>2
    <2>6. Lane =>
            /\ "Shift" \in held <=> shift
            /\ "Ctrl" \notin held /\ "V" \notin held /\ "A" \notin held
      BY <1>1, <1>2, <1>6, <1>10, <2>5
    <2>7. Lane => held \subseteq Allowed'
      BY <1>1, <1>9, <2>6 DEF Allowed, Keys, Modifiers
    <2>8. Leaves(lines)
      BY <1>1, <1>5, <1>7, <2>1, <2>6, <2>7 DEF Leaves
    <2> QED
      BY <1>1, <1>3, <1>5, <1>13, <1>14, <2>2, <2>3, <2>4, <2>8, WriteKeeps
  <1>16. CASE ~last
    <2>1. acks' = Sent(acks, lines) /\ flow' = "paced" /\ chord' = [chord EXCEPT !.sent = @ + 1]
      BY <1>1, <1>16
    <2>2. Longer(acks.queue, acks'.queue, lines) /\ acks'.from \in Nat /\ acks'.error \in BOOLEAN
      BY <1>11, <1>12, <2>1
    <2>3. chord'.sent = chord.sent + 1 /\ chord'.lock = chord.lock /\ chord'.lines = chord.lines
      <3> DEFINE c == [lines |-> chord.lines, sent |-> chord.sent, lock |-> chord.lock]
      <3>1. [c EXCEPT !.sent = @ + 1]
              = [lines |-> chord.lines, sent |-> chord.sent + 1, lock |-> chord.lock]
        OBVIOUS
      <3>2. chord' = [lines |-> chord.lines, sent |-> chord.sent + 1, lock |-> chord.lock]
        BY <2>1, <3>1 DEF ChordShape
      <3> QED
        BY <3>2
    <2>4. /\ chord'.lines \in Seq(Command) /\ chord'.sent \in Nat /\ chord'.lock \in BOOLEAN
      BY <1>2, <2>3 DEF Core, Typed
    <2>5. chord'.sent < Len(chord'.lines) /\ chord'.sent # 0
          /\ chord.sent + 1 = chord'.sent
      <3>1. chord.sent < Len(chord.lines) /\ Len(chord.lines) \in Nat
            /\ chord.sent + 1 # Len(chord.lines)
        BY <1>1, <1>2, <1>4, <1>16 DEF PacedShape
      <3> QED
        BY <1>2, <2>3, <3>1
    <2>6. PacedShape'
      <3>1. /\ ~pending' /\ chord'.lines = WineLines(chord'.lock, pastes') /\ pastes' # 0
            /\ pastes' \in drained' => ~shift'
        BY <1>1, <1>2, <2>3 DEF PacedShape, Framed
      <3>2. Lane' => ~fresh' /\ shift' = chord'.lock
        BY <1>1, <1>3, <2>3 DEF Lane, Framed
      <3> QED
        BY <2>5, <3>1, <3>2 DEF PacedShape
    <2>7. /\ CtrlOpen' <=> chord.sent + 1 \in IF chord.lock THEN 2..4 ELSE 1..3
          /\ KeyOpen' <=> chord.sent + 1 = IF chord.lock THEN 3 ELSE 2
      BY <2>3 DEF CtrlOpen, KeyOpen
    <2>8. Lane => "Shift" \notin held
      <3>1. ~(chord.lock /\ chord.sent = 5)
        <4>1. chord.lock => Len(chord.lines) = 6
          BY <1>4
        <4>2. chord.sent + 1 # Len(chord.lines)
          BY <1>16
        <4>3. SUFFICES ASSUME chord.lock, chord.sent = 5 PROVE FALSE
          OBVIOUS
        <4>4. Len(chord.lines) = 6
          BY ONLY <4>1, <4>3
        <4>5. chord.sent + 1 = 6
          BY ONLY <4>3
        <4> QED
          BY ONLY <4>2, <4>4, <4>5
      <3> QED
        BY <1>10, <3>1
    <2>9. Lane => held \subseteq Allowed'
      BY <1>9, <1>10, <2>1, <2>7, <2>8 DEF Allowed, Keys, Modifiers
    <2>10. Leaves(lines)
      <3>1. Unshaken' => pastes \notin drained
        BY <1>1 DEF Unshaken, Framed
      <3>2. Lane /\ Unshaken' =>
              /\ CtrlOpen' => "Ctrl" \in held
              /\ "Shift" \in held <=> chord'.lock /\ chord'.sent = 0
        BY <1>10, <2>5, <2>7, <2>8, <3>1
      <3> QED
        BY <1>5, <1>7, <2>1, <2>9, <3>2 DEF Leaves
    <2> QED
      BY <1>1, <1>3, <1>5, <1>13, <1>14, <2>2, <2>4, <2>6, <2>10, WriteKeeps
  <1> QED
    BY <1>15, <1>16

(* A tick of the pacer, which sends or aborts. *)
LEMMA TickCore ==
    ASSUME Core, ChordShape, Tick, NextTick = TRUE
    PROVE  Core'
  <1>1. CASE AssumptionsHold
    BY <1>1, TickSends
  <1>2. CASE ~AssumptionsHold
    <2>1. ~teardown
      BY DEF Tick, Awake
    <2>2. /\ Emit(acks, AbortLines) /\ Aborted /\ shift' = FALSE /\ pending' = FALSE
          /\ flow = "paced"
      BY <1>2 DEF Tick
    <2>3. Emit(acks, IF flow = "paced" THEN AbortLines ELSE ReleaseAll)
      BY <2>2
    <2>4. gate' = gate /\ Framed /\ pastes' = pastes
      BY DEF Tick, Framed, link, device, counts
    <2> QED
      BY <2>1, <2>2, <2>3, <2>4, AllLifted
  <1> QED
    BY <1>1, <1>2

-----------------------------------------------------------------------------
(* The helper, the connection and the replies. *)

(* What the head of the queue of the live connection says of the lane. *)
LEMMA RunDevice ==
    ASSUME Core, NEW e \in Epochs, NEW out, Runs(e, out), pastes' = pastes, drained' = drained
    PROVE  Device'
  <1> DEFINE line == Head(wire[e])
             tl == Tail(Here)
  <1>1. line \in Command /\ out \in Outcomes(e, line) /\ wire[e] # <<>> /\ claims' = out[2]
    BY DEF Runs
  <1>2. /\ acks' = acks /\ gate' = gate /\ sock' = sock /\ teardown' = teardown
        /\ fresh' = fresh /\ epoch' = epoch /\ flow' = flow /\ chord' = chord
        /\ shift' = shift /\ pending' = pending /\ pastes' = pastes
    BY DEF Runs, panel, link
  <1>3. PacedShape' /\ Allowed' = Allowed /\ CtrlOpen' = CtrlOpen /\ Lane' = Lane
        /\ DrainAhead(acks)' = DrainAhead(acks) /\ Unshaken' = Unshaken
    <2>1. /\ Allowed' = Allowed /\ CtrlOpen' = CtrlOpen /\ Lane' = Lane
          /\ DrainAhead(acks)' = DrainAhead(acks)
      BY <1>2 DEF Allowed, CtrlOpen, KeyOpen, Lane, DrainAhead
    <2>2. Unshaken' = Unshaken
      BY <1>2, <2>1 DEF Unshaken
    <2>3. ASSUME flow = "paced", Lane, fresh PROVE replies' = replies /\ Here' = Here
      <3>1. Here = <<>>
        BY <2>3 DEF Core, Device, PacedShape
      <3>2. e # epoch
        BY <1>1, <3>1 DEF Here
      <3>3. epoch \in Epochs /\ wire \in [Epochs -> Seq(Command)]
        BY DEF Core, Typed
      <3> QED
        BY <1>2, <3>2, <3>3 DEF Runs, Heard, Here
    <2>4. PacedShape'
      BY <1>2, <2>1, <2>3 DEF Core, Device, PacedShape
    <2> QED
      BY <2>1, <2>2, <2>4
  <1>4. CASE sock # "open"
    BY <1>2, <1>3, <1>4 DEF Device, Planned, Shown, Locked, PacedHolds, Lane
  <1>5. CASE sock = "open"
    <2>1. Typed /\ Books /\ epoch \in Epochs /\ Mine \in SUBSET Keys /\ Here \in Seq(Command)
          /\ Rest \in SUBSET Keys
      BY MineHere DEF Core
    <2>2. Clean(Mine, Here, drained)
      BY <1>5 DEF Core, Device, Planned
    <2>3. /\ \A o \in Epochs : o # e => wire'[o] = wire[o]
          /\ wire'[e] = IF Heard(e) THEN Tail(wire[e]) ELSE <<>>
      BY <2>1 DEF Runs, Typed
    <2>4. CASE e # epoch
      <3>1. Here' = Here
        BY <1>2, <2>1, <2>3, <2>4 DEF Here
      <3>2. Mine' = Mine
        <4>1. CASE line.verb # "install"
          BY <1>1, <1>2, <2>1, <2>4, <4>1, OutcomeIs DEF Mine
        <4>2. CASE line.verb = "install"
          <5>1. e < epoch
            BY <1>1, <2>1, <2>4 DEF Books, Unborn, Epochs
          <5>2. Mine = {}
            BY <1>1, <1>5, <2>1, <5>1 DEF Books, Older, Alike
          <5>3. out[2] = claims \/ \A o \in Epochs : out[2][o] = {}
            BY <1>1, <2>1, <4>2, OutcomeIs
          <5> QED
            BY <1>1, <1>2, <2>1, <5>2, <5>3 DEF Mine
        <4> QED
          BY <4>1, <4>2
      <3>3. Rest' = Rest
        BY <3>1, <3>2 DEF Rest
      <3> QED
        BY <1>2, <1>3, <3>1, <3>2, <3>3
           DEF Core, Device, Planned, Shown, Locked, PacedHolds
    <2>5. CASE e = epoch
      <3>1. /\ Heard(e) /\ Here # <<>> /\ line = Head(Here) /\ Here' = tl
            /\ tl \in Seq(Command) /\ Mine' = out[2][e] /\ claims[e] = Mine
        <4>1. Heard(e)
          BY <1>5, <2>5 DEF Heard
        <4>2. Here # <<>> /\ line = Head(Here) /\ Here' = tl
          BY <1>1, <1>2, <2>3, <2>5, <4>1 DEF Here
        <4> QED
          BY <1>1, <1>2, <2>1, <2>5, <4>1, <4>2 DEF Mine
      <3> HIDE DEF tl, line
      <3> DEFINE struck == Struck(Mine, line)
      <3>2. struck \in SUBSET Keys
        BY DEF Struck
      <3>3. Rest = Left(struck, tl) /\ Clean(struck, tl, drained)
        <4>1. /\ Left(Mine, Here) = Left(Struck(Mine, Head(Here)), Tail(Here))
              /\ Clean(Mine, Here, drained) =>  Clean(Struck(Mine, Head(Here)), Tail(Here), drained)
          BY <2>1, <3>1, LeftTail
        <4> QED
          BY <2>2, <3>1, <4>1 DEF Rest, tl
      <3>4. Rest' = Left(Mine', tl)
        BY <3>1 DEF Rest
      <3> HIDE DEF struck
      <3>5. CASE e \in greeted /\ line.verb # "install"
        <4>1. Mine' \subseteq struck /\ Mine' \cap Modifiers = struck \cap Modifiers
          BY <1>1, <2>1, <3>1, <3>5, OutcomeIs DEF struck
        <4>2. Rest' \subseteq Rest
          BY <3>3, <3>4, <4>1, LeftGrows
        <4>3. Clean(Mine', tl, drained') /\ Rest' \cap Modifiers = Rest \cap Modifiers
          BY <3>3, <3>4, <4>1, SameModifiers
        <4>4. ("Shift" \in Rest' <=> "Shift" \in Rest) /\ ("Ctrl" \in Rest' <=> "Ctrl" \in Rest)
          BY <4>3 DEF Modifiers
        <4>5. Planned' /\ Shown'
          BY <1>2, <1>3, <3>1, <4>2, <4>3 DEF Core, Device, Planned, Shown
        <4>6. Locked' /\ PacedHolds'
          BY <1>2, <1>3, <4>4 DEF Core, Device, Locked, PacedHolds
        <4> QED
          BY <1>3, <4>5, <4>6 DEF Device
      <3>6. CASE e \in greeted /\ line.verb = "install"
        <4>1. struck = Mine
          BY <2>1, <3>6 DEF struck, Struck, IsUp, IsDown
        <4>2. Mine' \subseteq Mine
          BY <1>1, <2>1, <3>1, <3>6, OutcomeIs
        <4>3. Here[1].verb = "install" /\ 1 \in DOMAIN Here /\ Len(Here) \in Nat /\ Len(Here) > 0
          BY <2>1, <3>1, <3>6
        <4>4. Downless(tl)
          <5>1. \A j \in DOMAIN Here : 1 < j => Here[j].verb # "down"
            BY <1>5, <2>1, <4>3 DEF Books, NoDowns
          <5>2. DOMAIN tl = 1..(Len(Here) - 1)
                /\ \A j \in 1..(Len(Here) - 1) : tl[j] = Here[j + 1] /\ j + 1 \in DOMAIN Here
            BY <2>1, <3>1, <4>3 DEF tl
          <5>3. \A j \in 1..(Len(Here) - 1) : 1 < j + 1
            BY <4>3
          <5> QED
            BY <5>1, <5>2, <5>3 DEF Downless
        <4>5. Clean(Mine', tl, drained')
          BY <3>1, <4>4, LeftDownless
        <4>6. Rest' \subseteq Rest
          BY <3>3, <3>4, <4>1, <4>2, LeftGrows
        <4>7. Lane => DrainAhead(acks) /\ ~gate
          <5> SUFFICES ASSUME Lane PROVE DrainAhead(acks) /\ ~gate
            OBVIOUS
          <5>1. Covered(acks.queue, replies, Here)
            BY <1>5, <2>1 DEF Books, Aligned, Lane
          <5>2. acks.queue[Len(replies) + 1].verb = "install"
            BY <4>3, <5>1 DEF Covered
          <5>3. Len(replies) + 1 \in DOMAIN acks.queue
            BY <2>1, <4>3, <5>1 DEF Covered, Typed
          <5> QED
            BY <2>1, <5>2, <5>3 DEF DrainAhead, Books, Drained
        <4>8. Planned' /\ Shown'
          BY <1>2, <1>3, <3>1, <4>5, <4>6 DEF Core, Device, Planned, Shown
        <4>9. Locked' /\ PacedHolds'
          BY <1>2, <1>3, <4>7 DEF Locked, PacedHolds, Unshaken
        <4> QED
          BY <1>3, <4>8, <4>9 DEF Device
      <3>7. CASE e \notin greeted
        <4>1. fresh /\ ~gate /\ Mine = {}
              /\ \A i \in DOMAIN Here : Here[i].verb \notin {"down", "install"}
          BY <1>5, <2>1, <2>5, <3>7 DEF Books, FreshLane
        <4>2. Downless(tl)
          <5>1. Len(Here) \in Nat /\ Len(Here) > 0
            BY <2>1, <3>1
          <5>2. DOMAIN tl = 1..(Len(Here) - 1)
                /\ \A j \in 1..(Len(Here) - 1) : tl[j] = Here[j + 1] /\ j + 1 \in DOMAIN Here
            BY <2>1, <3>1, <5>1 DEF tl
          <5> QED
            BY <4>1, <5>2 DEF Downless
        <4>3. Mine' = {}
          <5>1. line.verb \notin {"down", "install"}
            BY <2>1, <3>1, <4>1
          <5>2. \A o \in Epochs : out[2][o] \subseteq claims[o]
            BY <1>1, <2>1, <5>1, OutcomeIs
          <5> QED
            BY <2>1, <2>5, <3>1, <4>1, <5>2
        <4>4. Clean(Mine', tl, drained') /\ Rest' = {}
          BY <3>1, <3>4, <4>2, <4>3, LeftDownless
        <4>5. Planned' /\ Shown'
          BY <1>2, <3>1, <4>4 DEF Planned, Shown
        <4>6. Locked' /\ PacedHolds'
          BY <1>2, <4>1 DEF Locked, PacedHolds, Unshaken
        <4> QED
          BY <1>3, <4>5, <4>6 DEF Device
      <3> QED
        BY <3>5, <3>6, <3>7
    <2> QED
      BY <2>4, <2>5
  <1> QED
    BY <1>4, <1>5

(* A line that runs: what it presses was planned, what it leaves was expected. *)
LEMMA RunCore ==
    ASSUME Core, NEW e \in Epochs, Run(e)
    PROVE  Core'
  <1>1. PICK out : Runs(e, out)
    BY RunIs DEF Core
  <1>2. pastes' = pastes /\ drained' = drained
    BY DEF Run, counts
  <1>3. Typed' /\ Books' /\ Device'
    BY <1>1, <1>2, RunTyped, RunBooks, RunDevice DEF Core
  <1> QED
    BY <1>2, <1>3 DEF Core

(* A press is run under the modifiers it was planned for, but for that of a chord
   that a keymap change was answered under. *)
LEMMA RunPlanned ==
    ASSUME Core, NEW e \in Epochs, Run(e), strays \subseteq drained
    PROVE  strays' \subseteq drained'
  <1> DEFINE line == Head(wire[e])
  <1>1. ASSUME Heard(e), line.verb = "down", line.key \in {"V", "A"}, line.of \notin drained
        PROVE  Held(e) = line.want
    <2>1. e = epoch /\ sock = "open" /\ Here # <<>> /\ line = Head(Here) /\ Mine = claims[e]
      BY <1>1 DEF Heard, Run, Here, Mine
    <2>2. Clean(Mine, Here, drained) /\ Here \in Seq(Command) /\ Mine \in SUBSET Keys
      BY <2>1, MineHere DEF Core, Device, Planned
    <2>3. Fits(Mine, Head(Here), drained)
      BY <2>1, <2>2, LeftTail
    <2>4. IsPress(Head(Here))
      BY <1>1, <2>1 DEF IsPress
    <2> QED
      BY <1>1, <2>1, <2>3, <2>4 DEF Held, Fits
  <1>2. strays' = strays \/ (strays' = strays \cup {line.of} /\ line.of \in drained)
    BY <1>1 DEF Run
  <1> QED
    BY <1>2 DEF Run

-----------------------------------------------------------------------------

(* The end of an old connection does not touch the live one. *)
LEMMA DepartCore ==
    ASSUME Core, NEW e \in Epochs, Depart(e)
    PROVE  Core'
  <1>1. Typed' /\ Books'
    BY DepartBooks DEF Core
  <1>2. /\ acks' = acks /\ gate' = gate /\ sock' = sock /\ teardown' = teardown
        /\ fresh' = fresh /\ epoch' = epoch /\ flow' = flow /\ chord' = chord
        /\ shift' = shift /\ pending' = pending /\ pastes' = pastes /\ wire' = wire
        /\ replies' = replies /\ drained' = drained
        /\ claims' = [claims EXCEPT ![e] = {}] /\ ~Heard(e)
    BY DEF Depart, panel, link, counts
  <1>3. PacedShape' /\ Allowed' = Allowed /\ CtrlOpen' = CtrlOpen /\ Lane' = Lane
        /\ DrainAhead(acks)' = DrainAhead(acks) /\ Unshaken' = Unshaken
    <2>1. /\ Allowed' = Allowed /\ CtrlOpen' = CtrlOpen /\ Lane' = Lane /\ Here' = Here
          /\ DrainAhead(acks)' = DrainAhead(acks)
      BY <1>2 DEF Allowed, CtrlOpen, KeyOpen, Lane, DrainAhead, Here
    <2>2. Unshaken' = Unshaken
      BY <1>2, <2>1 DEF Unshaken
    <2>3. PacedShape'
      BY <1>2, <2>1 DEF Core, Device, PacedShape
    <2> QED
      BY <2>1, <2>2, <2>3
  <1>4. ASSUME sock # "open" PROVE Device'
    BY <1>2, <1>3, <1>4 DEF Device, Planned, Shown, Locked, PacedHolds, Lane
  <1>5. ASSUME sock = "open" PROVE Device'
    <2>1. e # epoch
      BY <1>2, <1>5 DEF Heard
    <2>2. Here' = Here /\ Mine' = Mine
      BY <1>2, <2>1 DEF Here, Mine, Core, Typed
    <2>3. Rest' = Rest
      BY <2>2 DEF Rest
    <2> QED
      BY <1>2, <1>3, <2>2, <2>3 DEF Core, Device, Planned, Shown, Locked, PacedHolds
  <1>6. Device'
    BY <1>4, <1>5
  <1> QED
    BY <1>1, <1>2, <1>6 DEF Core

(* The helper's stop empties the lane. *)
LEMMA DiesCore ==
    ASSUME Core, HelperDies
    PROVE  Core'
  <1>1. Typed' /\ Books'
    BY DiesBooks DEF Core
  <1>2. sock' = "stale" /\ pastes' = pastes /\ drained' = drained /\ PacedShape'
    BY DEF HelperDies, panel, counts, Core, Device, PacedShape, Lane
  <1>3. Device'
    BY <1>2 DEF Device, Planned, Shown, Locked, PacedHolds, Lane
  <1> QED
    BY <1>1, <1>2, <1>3 DEF Core

(* A connection dialled holds nothing and has nothing under way. *)
LEMMA DialDevice ==
    ASSUME Core, Dial, ~gate', wire' = wire, claims' = claims, replies' = <<>>,
           drained' = drained,
           flow' = "paced" =>
             /\ flow = "paced" /\ pending' = pending /\ chord' = chord
             /\ pastes' = pastes /\ shift' = shift
    PROVE  Device'
  <1>1. CASE sock' = "closed"
    BY <1>1 DEF Core, Device, Planned, PacedShape, Shown, Locked, PacedHolds, Lane
  <1>2. CASE epoch < MaxConns /\ epoch' = epoch + 1 /\ fresh' = TRUE
    <2>1. epoch + 1 \in Epochs /\ epoch + 1 > epoch
      BY <1>2, PasteAssumption DEF Core, Typed, Epochs
    <2>2. Here' = <<>> /\ Mine' = {}
      BY <1>2, <2>1 DEF Core, Books, Unborn, Here, Mine
    <2>3. Rest' = {} /\ Clean(Mine', Here', drained')
      BY <2>2, LeftNone, CleanNone DEF Rest
    <2>4. PacedShape'
      BY <1>2, <2>2 DEF Core, Device, PacedShape
    <2> QED
      BY <1>2, <2>3, <2>4 DEF Device, Planned, Shown, Locked, PacedHolds, Unshaken
  <1> QED
    BY <1>1, <1>2 DEF Dial

(* A lost connection closes the gate, so a paced chord will abort at its tick. *)
LEMMA LostFlow ==
    ASSUME Core, ConnectionLost
    PROVE  /\ gate' = FALSE /\ shift' = shift /\ pending' = pending /\ chord' = chord
           /\ flow' = "paced" => flow = "paced"
  BY DEF ConnectionLost

(* A disconnect that is reported keeps the invariant. *)
LEMMA NoticeCore ==
    ASSUME Core, Notice
    PROVE  Core'
  <1>1. Typed' /\ Books'
    BY NoticeBooks DEF Core
  <1>2. /\ ConnectionLost /\ Dial /\ wire' = wire /\ claims' = claims /\ pastes' = pastes
        /\ drained' = drained /\ replies' = <<>>
    BY DEF Notice, device, counts
  <1>3. Device'
    BY <1>2, LostFlow, DialDevice
  <1> QED
    BY <1>1, <1>2, <1>3 DEF Core

(* So does the deferred half of a rebuild. *)
LEMMA TeardownCore ==
    ASSUME Core, Teardown
    PROVE  Core'
  <1>1. Typed' /\ Books'
    BY TeardownBooks DEF Core
  <1>2. /\ Dial /\ wire' = wire /\ claims' = claims /\ pastes' = pastes /\ teardown
        /\ drained' = drained /\ replies' = <<>> /\ UNCHANGED panel
    BY DEF Teardown, device, counts
  <1>3. /\ ~gate' /\ flow' = flow /\ pending' = pending /\ chord' = chord
        /\ shift' = shift
    BY <1>2 DEF Core, Books, Lost, panel
  <1>4. Device'
    BY <1>2, <1>3, DialDevice
  <1> QED
    BY <1>1, <1>2, <1>4 DEF Core

(* So does its first half. *)
LEMMA RebuildCore ==
    ASSUME Core, Rebuild
    PROVE  Core'
  <1>1. Typed' /\ Books'
    BY RebuildBooks DEF Core
  <1>2. /\ ConnectionLost /\ wire' = wire /\ claims' = claims /\ pastes' = pastes /\ teardown'
        /\ sock' = sock /\ epoch' = epoch /\ drained' = drained
    BY DEF Rebuild, device, counts
  <1>3. PacedShape'
    BY <1>2, LostFlow DEF Core, Device, PacedShape, Lane
  <1>4. Planned'
    BY <1>2 DEF Core, Device, Planned, Here, Mine
  <1>5. Device'
    BY <1>2, <1>3, <1>4 DEF Device, Shown, Locked, PacedHolds, Lane
  <1> QED
    BY <1>1, <1>2, <1>5 DEF Core

-----------------------------------------------------------------------------
(* A pop that is not of a draining configure leaves every such ahead. *)
LEMMA PoppedDrain ==
    ASSUME Typed, Books, NEW lines, Answered(lines), Verb # "install"
    PROVE  DrainAhead(acks) => DrainAhead(acks') /\ DrainAhead(Popped)
  <1>1. /\ acks.queue \in Seq(Slots) /\ Popped.queue \in Seq(Slots)
        /\ Len(Popped.queue) = Len(acks.queue) - 1
        /\ \A i \in 1..Len(Popped.queue) : Popped.queue[i] = acks.queue[i + 1]
        /\ Longer(Popped.queue, acks'.queue, lines)
    BY ReplyQueue
  <1>2. acks.queue # <<>> /\ Head(acks.queue).verb = Verb /\ lines \in Seq(Command)
    BY DEF Answered
  <1>3. SUFFICES ASSUME NEW i \in DOMAIN acks.queue, acks.queue[i].verb = "install"
                 PROVE  DrainAhead(acks') /\ DrainAhead(Popped)
    BY DEF DrainAhead
  <1>4. i \in 1..Len(acks.queue) /\ Len(acks.queue) \in Nat /\ Head(acks.queue) = acks.queue[1]
    BY <1>1, <1>2
  <1>5. i # 1
    BY <1>2, <1>3, <1>4
  <1>6. i - 1 \in 1..Len(Popped.queue) /\ (i - 1) + 1 = i
    BY <1>1, <1>4, <1>5
  <1>7. Popped.queue[i - 1].verb = "install"
    BY <1>1, <1>3, <1>6
  <1>8. DOMAIN Popped.queue = 1..Len(Popped.queue) /\ Len(Popped.queue) \in Nat
        /\ DOMAIN acks'.queue = 1..Len(acks'.queue) /\ Len(lines) \in Nat
    BY <1>1, <1>2, SMTT(30) DEF Longer
  <1>9. i - 1 \in DOMAIN acks'.queue /\ acks'.queue[i - 1].verb = "install"
    <2>1. acks'.queue[i - 1].verb = Popped.queue[i - 1].verb
      BY <1>1, <1>6 DEF Longer
    <2>2. Len(acks'.queue) = Len(Popped.queue) + Len(lines)
      BY <1>1 DEF Longer
    <2> QED
      BY <1>6, <1>7, <1>8, <2>1, <2>2
  <1> QED
    BY <1>6, <1>7, <1>8, <1>9 DEF DrainAhead

(* A reply: what the route writes keeps what is held in step with the panel. *)
LEMMA ReplyDevice ==
    ASSUME Core, NEW lines, Answered(lines),
           flow = "paced" => flow' = "paced", flow # "paced" => flow' # "paced"
    PROVE  Device'
  <1>1. /\ Typed /\ Books /\ Device /\ lines \in Seq(Command) /\ Routed(lines)
        /\ ~teardown /\ sock # "closed"
        /\ wire' = Written(lines) /\ sock' = sock /\ teardown' = teardown
        /\ epoch' = epoch /\ claims' = claims /\ chord' = chord /\ pastes' = pastes
        /\ replies # <<>> /\ shift \in BOOLEAN /\ pending \in BOOLEAN
        /\ Rest \in SUBSET Keys
    BY MineHere DEF Answered, Core, Typed
  <1>2. /\ 1 \in DOMAIN replies /\ replies[1].word = Word /\ replies[1].verb = Verb
    BY ReplyQueue DEF Core, Typed, Answered
  <1>3. /\ Word = "configured" => Verb \in {"install", "refresh"}
        /\ Word = "refused" => Verb = "install"
        /\ Word = "hello" => Verb = "hello"
        /\ Verb = "install" => Word \in {"configured", "refused"}
    BY <1>1, <1>2 DEF Books, Worded
  <1>4. Verb # "install" => (DrainAhead(acks) => DrainAhead(acks') /\ DrainAhead(Popped))
    BY <1>1, PoppedDrain
  <1>5. CtrlOpen' = CtrlOpen /\ KeyOpen' = KeyOpen
    BY <1>1 DEF CtrlOpen, KeyOpen
  <1>6. Lane /\ fresh => Rest = {}
    <2> SUFFICES ASSUME Lane, fresh PROVE Rest = {}
      OBVIOUS
    <2>1. Mine = {} /\ Downless(Here)
      BY <1>1 DEF Lane, Books, FreshLane, Downless
    <2> QED
      BY <1>1, <2>1, LeftDownless, MineHere DEF Rest
  <1>7. Lane /\ Word = "configured" /\ Verb = "install" => Rest = {}
    <2> SUFFICES ASSUME Lane, Word = "configured", Verb = "install" PROVE Rest = {}
      OBVIOUS
    <2>1. Mine = {} /\ Downless(Here)
      BY <1>1, <1>2 DEF Books, NoDowns
    <2> QED
      BY <1>1, <2>1, LeftDownless, MineHere DEF Rest
  <1>8. /\ drained' = IF flow = "paced" /\ Drains(Word, Verb)
                      THEN drained \cup {pastes} ELSE drained
        /\ Drains(Word, Verb) => shift' = FALSE
        /\ ~Drains(Word, Verb) => shift' = shift \/ (fresh /\ shift' = FALSE)
    BY <1>1, <1>3 DEF Answered, Routed, Drains
  <1>9. PacedShape'
    <2> SUFFICES ASSUME flow' = "paced" PROVE PacedShape'
      BY DEF PacedShape
    <2>1. flow = "paced" /\ PacedShape /\ (Lane => ~fresh) /\ Lane' = Lane
      BY <1>1 DEF Device, PacedShape, Lane
    <2>2. ~pending'
      BY <1>1, <2>1 DEF PacedShape, Routed
    <2>3. Lane => ~fresh'
      BY <1>1, <2>1 DEF Routed
    <2>4. CASE Drains(Word, Verb)
      BY <1>1, <1>8, <2>1, <2>2, <2>3, <2>4 DEF PacedShape
    <2>5. CASE ~Drains(Word, Verb)
      BY <1>1, <1>8, <2>1, <2>2, <2>3, <2>5 DEF PacedShape
    <2> QED
      BY <2>4, <2>5
  <1>10. Lane => Rest \subseteq Allowed
    BY <1>1 DEF Device, Shown
  <1>11. Lane /\ ~fresh /\ flow # "paced" /\ shift /\ ~DrainAhead(acks) => "Shift" \in Rest
    BY <1>1 DEF Device, Locked
  <1>12. ASSUME Lane, flow' = "paced", Unshaken'
         PROVE  /\ ~Drains(Word, Verb)
                /\ CtrlOpen' => "Ctrl" \in Rest
                /\ "Shift" \in Rest <=> chord'.lock /\ chord'.sent = 0
    <2>1. flow = "paced" /\ ~fresh
      BY <1>1, <1>12 DEF Device, PacedShape, Lane
    <2>2. ~Drains(Word, Verb) /\ pastes \notin drained
      BY <1>1, <1>8, <1>12, <2>1 DEF Unshaken
    <2>3. Verb # "install" /\ ~DrainAhead(acks)
      BY <1>3, <1>4, <1>12, <2>2 DEF Unshaken, Drains
    <2>4. PacedHolds /\ Unshaken
      BY <1>1, <2>1, <2>2, <2>3 DEF Device, Unshaken
    <2> QED
      BY <1>1, <1>5, <1>12, <2>1, <2>2, <2>4 DEF PacedHolds
  <1>13. drained \subseteq drained'
    BY <1>8
  <1>14. CASE Word = "hello"
    <2>1. /\ gate' = FALSE /\ fresh' = FALSE
          /\ fresh => shift' = FALSE /\ pending' = FALSE
          /\ ~fresh => shift' = shift /\ pending' = pending
          /\ \E verb \in {"install", "refresh"} : lines = <<Cmd(verb)>>
      BY <1>1, <1>14 DEF Routed
    <2>2. PICK verb \in {"install", "refresh"} : lines = <<Cmd(verb)>>
      BY <2>1
    <2>3. Left(Rest, lines) = Rest
      BY <1>1, <2>2, CmdShape, LeftOne
    <2>4. Clean(Rest, lines, drained)
      <3>1. Downless(lines)
        BY <2>2, CmdShape DEF Downless
      <3> QED
        BY <1>1, <3>1, LeftDownless
    <2>5. Lane => Rest \subseteq Allowed'
      <3>1. CASE fresh
        BY <1>6, <3>1
      <3>2. CASE ~fresh
        BY <1>1, <1>5, <1>10, <2>1, <3>2 DEF Allowed
      <3> QED
        BY <3>1, <3>2
    <2>6. Lane /\ flow' # "paced" /\ shift' /\ ~DrainAhead(acks') => "Shift" \in Rest
      BY <1>3, <1>4, <1>11, <1>14, <2>1
    <2> QED
      BY <1>1, <1>9, <1>12, <1>13, <2>3, <2>4, <2>5, <2>6, WritingDevice DEF Lane
  <1>15. CASE Word = "configured"
    <2>1. /\ fresh' = fresh /\ lines = <<>>
          /\ Verb = "install" => shift' = FALSE /\ pending' = FALSE
          /\ Verb # "install" => shift' = shift /\ pending' = pending
      BY <1>1, <1>15 DEF Routed
    <2>2. Left(Rest, lines) = Rest /\ Clean(Rest, lines, drained)
      BY <1>1, <2>1, LeftNone, CleanNone
    <2>3. Lane => Rest \subseteq Allowed'
      <3>1. CASE Verb = "install"
        BY <1>7, <1>15, <3>1
      <3>2. CASE Verb # "install"
        BY <1>1, <1>5, <1>10, <2>1, <3>2 DEF Allowed
      <3> QED
        BY <3>1, <3>2
    <2>4. Lane /\ ~fresh' /\ flow' # "paced" /\ shift' /\ ~DrainAhead(acks')
            => "Shift" \in Rest
      BY <1>4, <1>11, <2>1
    <2> QED
      BY <1>1, <1>9, <1>12, <1>13, <2>2, <2>3, <2>4, WritingDevice DEF Lane
  <1>16. CASE Word = "refused"
    <2>1. /\ gate' = FALSE /\ shift' = FALSE /\ pending' = pending
          /\ lines = When(shift, <<Up("Shift")>>)
      BY <1>1, <1>16 DEF Routed
    <2>2. Left(Rest, lines) = IF shift THEN Rest \ {"Shift"} ELSE Rest
      BY <1>1, <2>1, LiftOne, ZenonT(40) DEF Keys, Modifiers
    <2>3. Clean(Rest, lines, drained)
      <3>1. "Shift" \in Keys
        BY DEF Keys, Modifiers
      <3>2. Only(lines, {"up"})
        BY <1>1, <2>1, <3>1, LiftOne
      <3> QED
        BY <1>1, <3>2, UpsAreClean
    <2>4. Lane => Left(Rest, lines) \subseteq Allowed'
      BY <1>1, <1>5, <1>10, <2>1, <2>2 DEF Allowed
    <2>5. Lane => ~(flow' = "paced" /\ Unshaken')
      BY <1>12, <1>16 DEF Drains
    <2> QED
      BY <1>1, <1>9, <1>13, <2>1, <2>3, <2>4, <2>5, WritingDevice DEF Lane
  <1>17. CASE Word \notin {"hello", "configured", "refused"}
    <2>1. /\ shift' = shift /\ pending' = pending /\ fresh' = fresh /\ lines = <<>>
      BY <1>1, <1>17 DEF Routed
    <2>2. Left(Rest, lines) = Rest /\ Clean(Rest, lines, drained)
      BY <1>1, <2>1, LeftNone, CleanNone
    <2>3. Lane => Rest \subseteq Allowed'
      BY <1>1, <1>5, <1>10, <2>1 DEF Allowed
    <2>4. Lane /\ ~fresh' /\ flow' # "paced" /\ shift' /\ ~DrainAhead(acks') => "Shift" \in Rest
      BY <1>3, <1>4, <1>11, <1>17, <2>1
    <2> QED
      BY <1>1, <1>9, <1>12, <1>13, <2>2, <2>3, <2>4, WritingDevice DEF Lane
  <1> QED
    BY <1>14, <1>15, <1>16, <1>17

(* A reply: a configured drain forgets the lock the helper has lifted, a refused one
   lifts the lock itself.  A chord that is paced has no answer to settle by. *)
LEMMA ReplyCore ==
    ASSUME Core, Reply, NextTick = TRUE, flow = "paced" => ~Settles(acks)
    PROVE  Core'
  <1>1. PICK lines : Answered(lines)
    BY ReplyIs DEF Core
  <1>2. (flow = "paced" => flow' = "paced") /\ (flow # "paced" => flow' # "paced")
    BY DEF Reply
  <1>3. pastes' = pastes
    BY DEF Reply, counts
  <1>4. Typed' /\ Books' /\ Device'
    BY <1>1, <1>2, ReplyTyped, ReplyBooks, ReplyDevice DEF Core
  <1>5. drained' \subseteq drained \cup {pastes} /\ (flow # "paced" => drained' = drained)
    BY <1>1 DEF Answered
  <1>6. flow = "paced" => pastes \in 1..pastes
    BY DEF Core, Device, PacedShape
  <1>7. drained' \subseteq 1..pastes'
    BY <1>3, <1>5, <1>6 DEF Core
  <1> QED
    BY <1>3, <1>4, <1>7 DEF Core

-----------------------------------------------------------------------------
(* No key is mixed, and a quiet lane holds what shows. *)

(* The first state: nothing is queued and nothing held. *)
LEMMA InitCore == ASSUME Init PROVE Core /\ ChordShape /\ strays \subseteq drained
  <1>1. /\ acks = Initial /\ flow = "idle" /\ chord = NoPace
        /\ gate = TRUE /\ shift = FALSE /\ pending = FALSE
        /\ sock = "open" /\ teardown = FALSE
        /\ fresh = FALSE /\ epoch = 1
        /\ wire = [e \in Epochs |-> <<>>] /\ replies = <<>> /\ greeted = {1}
        /\ claims = [e \in Epochs |-> {}] /\ strays = {} /\ drained = {} /\ pastes = 0
    BY DEF Init
  <1>2. 1 \in Epochs /\ 0 \in 0..MaxPastes
    BY PasteAssumption DEF Epochs
  <1>3. acks.queue = <<>> /\ acks.done = NoChord /\ acks.queue \in Seq(Slots)
        /\ acks.from \in Nat /\ acks.error \in BOOLEAN
    BY <1>1, InitialQueue
  <1>4. Here = <<>> /\ Mine = {} /\ Rest = {} /\ Clean(Mine, Here, drained)
    <2>1. Here = <<>> /\ Mine = {}
      BY <1>1, <1>2 DEF Here, Mine
    <2> QED
      BY <2>1, LeftNone, CleanNone DEF Rest
  <1>5. chord.lines = <<>> /\ chord.sent = 0 /\ chord.lock = FALSE /\ ChordShape
    BY <1>1 DEF NoPace, ChordShape
  <1>6. Typed
    <2>1. <<>> \in Seq(Command) /\ <<>> \in Seq(Answer)
      OBVIOUS
    <2>2. wire \in [Epochs -> Seq(Command)] /\ claims \in [Epochs -> SUBSET Keys]
      BY <1>1, <2>1
    <2>3. chord.lines \in Seq(Command) /\ chord.sent \in Nat /\ chord.lock \in BOOLEAN
      BY ONLY <1>5, <2>1, 0 \in Nat, FALSE \in BOOLEAN
    <2>4. replies \in Seq(Answer)
      BY <1>1, <2>1
    <2>5. gate \in BOOLEAN /\ shift \in BOOLEAN /\ pending \in BOOLEAN
      BY <1>1
    <2>6. sock \in {"open", "stale", "closed"} /\ epoch \in Epochs /\ greeted \in SUBSET Epochs
      BY <1>1, <1>2
    <2> QED
      BY <1>3, <2>2, <2>3, <2>4, <2>5, <2>6 DEF Typed
  <1>7. Books
    <2>1. Aligned
      BY <1>1, <1>3, <1>4 DEF Aligned, Matched, Covered
    <2>2. Worded /\ Lost /\ Older
      BY <1>1, <1>2 DEF Worded, Lost, Older, Alike
    <2>3. Unborn /\ FreshLane
      BY <1>1, <1>2 DEF Unborn, FreshLane
    <2>4. ~DrainAhead(acks)
      BY <1>3 DEF DrainAhead
    <2>5. Drained /\ NoDowns
      BY <1>1, <1>4, <2>4 DEF Drained, NoDowns
    <2> QED
      BY <2>1, <2>2, <2>3, <2>5 DEF Books
  <1>8. Device
    BY <1>1, <1>4 DEF Device, Planned, PacedShape, Shown, Locked, PacedHolds
  <1> QED
    BY <1>1, <1>2, <1>5, <1>6, <1>7, <1>8 DEF Core

(* No step gives the pacer another shape. *)
LEMMA ChordStays ==
    ASSUME ChordShape, [Next]_vars
    PROVE  ChordShape'
  <1>1. \/ chord' = chord \/ chord' = NoPace
        \/ chord' = [chord EXCEPT !.sent = @ + 1]
        \/ \E lines, lock : chord' = [lines |-> lines, sent |-> 0, lock |-> lock]
    <2>1. CASE Paste
      BY <2>1 DEF Paste, PasteRefused, PasteAtOnce, PastePaced
    <2>2. CASE Tick
      BY <2>2 DEF Tick, Aborted
    <2>3. CASE Press \/ ClickShift \/ ClosePanel
      BY <2>3 DEF Press, ClickShift, ClosePanel, Aborted
    <2>4. CASE Release \/ Install \/ HelperDies \/ Reply \/ Notice \/ Rebuild \/ Teardown
                 \/ HelloTimer \/ RepairTick
      BY <2>4 DEF Release, Install, HelperDies, Reply, Notice, Rebuild, ConnectionLost,
                  Teardown, HelloTimer, RepairTick, panel
    <2>5. CASE \E e \in Epochs : Run(e) \/ Depart(e)
      BY <2>5 DEF Run, Depart, panel
    <2>6. CASE UNCHANGED vars
      BY <2>6 DEF vars, panel
    <2> QED
      BY <2>1, <2>2, <2>3, <2>4, <2>5, <2>6 DEF Next
  <1>2. CASE chord' = chord
    BY <1>2 DEF ChordShape
  <1>3. CASE chord' = NoPace
    BY <1>3 DEF ChordShape, NoPace
  <1>4. CASE chord' = [chord EXCEPT !.sent = @ + 1]
    <2> DEFINE c == [lines |-> chord.lines, sent |-> chord.sent, lock |-> chord.lock]
    <2>1. [c EXCEPT !.sent = @ + 1]
            = [lines |-> chord.lines, sent |-> chord.sent + 1, lock |-> chord.lock]
      OBVIOUS
    <2>2. chord' = [lines |-> chord.lines, sent |-> chord.sent + 1, lock |-> chord.lock]
      BY <1>4, <2>1 DEF ChordShape
    <2> QED
      BY <2>2 DEF ChordShape
  <1>5. CASE \E lines, lock : chord' = [lines |-> lines, sent |-> 0, lock |-> lock]
    BY <1>5 DEF ChordShape
  <1> QED
    BY <1>1, <1>2, <1>3, <1>4, <1>5

(* Every step keeps the invariant, and a stray press is of a chord that a keymap
   change was answered under. *)
LEMMA StepCore ==
    ASSUME IInv, Core, ChordShape, strays \subseteq drained, [Next]_vars, NextTick = TRUE
    PROVE  Core' /\ strays' \subseteq drained'
  <1>1. CASE Paste
    <2>1. CASE PasteRefused
      BY <2>1, PasteRefusedCore, ClickIs DEF PasteRefused, Framed
    <2>2. ASSUME NEW kind \in Kinds, PasteAtOnce(kind) PROVE Core' /\ strays' \subseteq drained'
      BY <2>2, PasteAtOnceCore, ClickIs DEF PasteAtOnce, Framed
    <2>3. ASSUME NEW kind \in Kinds, PastePaced(kind) PROVE Core' /\ strays' \subseteq drained'
      BY <2>3, PastePacedCore, ClickIs DEF PastePaced, Framed
    <2> QED
      BY <1>1, <2>1, <2>2, <2>3 DEF Paste
  <1>2. CASE Tick
    BY <1>2, TickCore DEF Tick, device
  <1>3. CASE Press
    BY <1>3, PressCore DEF Press, User, device
  <1>4. CASE Release
    BY <1>4, ReleaseCore DEF Release, User, device
  <1>5. CASE ClickShift
    BY <1>5, ClickShiftCore DEF ClickShift, User, device
  <1>6. CASE ClosePanel
    BY <1>6, ClosePanelCore DEF ClosePanel, User, device
  <1>7. CASE Install
    BY <1>7, InstallCore DEF Install, device
  <1>8. ASSUME NEW e \in Epochs, Run(e) PROVE Core' /\ strays' \subseteq drained'
    BY <1>8, RunCore, RunPlanned
  <1>9. ASSUME NEW e \in Epochs, Depart(e) PROVE Core' /\ strays' \subseteq drained'
    BY <1>9, DepartCore DEF Depart
  <1>10. CASE HelperDies
    BY <1>10, DiesCore DEF HelperDies
  <1>11. CASE Reply
    <2>1. flow = "paced" => ~Settles(acks)
      BY DEF IInv, CallbackKept, Settles
    <2> QED
      BY <1>11, <2>1, ReplyCore DEF Reply
  <1>12. CASE Notice
    BY <1>12, NoticeCore DEF Notice, device
  <1>13. CASE Rebuild
    BY <1>13, RebuildCore DEF Rebuild, device
  <1>14. CASE Teardown
    BY <1>14, TeardownCore DEF Teardown, device
  <1>15. CASE HelloTimer
    BY <1>15, HelloTimerCore DEF HelloTimer, device
  <1>16. CASE RepairTick
    BY <1>16, RepairTickCore DEF RepairTick, device
  <1>17. CASE UNCHANGED vars
    BY <1>17, SameCore DEF vars, panel, link, device, counts
  <1> QED
    BY <1>1, <1>2, <1>3, <1>4, <1>5, <1>6, <1>7, <1>8, <1>9, <1>10, <1>11, <1>12, <1>13,
       <1>14, <1>15, <1>16, <1>17 DEF Next

(* What is proved by induction: the lane, the record of the pacer, and that no
   press has gone astray but those of chords that a keymap change was answered
   under. *)
HeldInv == Core /\ ChordShape /\ strays \subseteq drained

(* The lane's invariant holds in every state: what the queue of the live connection
   will leave held is what the panel shows, whenever a configure is answered.  A
   rebuild runs on the next turn of the event loop, as on the real panel. *)
THEOREM HeldInvariant ==
    ASSUME NextTick = TRUE
    PROVE  Spec => []HeldInv
  <1>1. Init => HeldInv
    BY InitCore DEF HeldInv
  <1>2. IInv /\ HeldInv /\ [Next]_vars => HeldInv'
    BY StepCore, ChordStays DEF HeldInv
  <1> QED
    BY <1>1, <1>2, Invariant, PTL DEF Spec

(* KeysAreNotMixed: no key ever lands under modifiers it was not meant for, however
   the user's keys, the pacer, a configure and a lost connection interleave, but for
   the key of a chord that went on across a keymap change. *)
THEOREM NoKeyUnderStrayModifiers ==
    ASSUME NextTick = TRUE
    PROVE  Spec => []KeysAreNotMixed
  <1>1. HeldInv => KeysAreNotMixed
    BY DEF HeldInv, KeysAreNotMixed
  <1> QED
    BY <1>1, HeldInvariant, PTL

(* NothingLeftHeld: when the lane is quiet and the gate open, the helper holds what
   the panel shows, and nothing of a chord. *)
THEOREM QuietLaneHoldsWhatShows ==
    ASSUME NextTick = TRUE
    PROVE  Spec => []NothingLeftHeld
  <1>1. ASSUME HeldInv, Quiet
        PROVE  /\ claims[epoch] \ {"A"} = IF shift THEN {"Shift"} ELSE {}
               /\ ~pending => "A" \notin claims[epoch]
    <2>1. Lane /\ Here = <<>> /\ flow # "paced" /\ gate /\ sock = "open"
      BY <1>1 DEF Quiet, Lane, Here
    <2>2. Mine \in SUBSET Keys
      BY <1>1, MineHere DEF HeldInv, Core
    <2>3. Rest = Mine
      BY <2>1, <2>2, LeftNone DEF Rest
    <2>4. /\ "Shift" \in Rest <=> shift
          /\ "Ctrl" \notin Rest /\ "V" \notin Rest
          /\ "A" \in Rest => pending
      BY <1>1, <2>1, Hands DEF HeldInv, Core
    <2>5. claims[epoch] = Mine
      BY DEF Mine
    <2> QED
      BY <2>2, <2>3, <2>4, <2>5 DEF Keys, Modifiers
  <1>2. HeldInv => NothingLeftHeld
    BY <1>1 DEF NothingLeftHeld
  <1> QED
    BY <1>2, HeldInvariant, PTL

(* Books kept so are what LedgerAligned says of the ledger as a whole. *)
LEMMA AlignedLedger ==
    ASSUME Typed, Aligned
    PROVE  LedgerAligned
  <1>1. SUFFICES ASSUME sock = "open", ~teardown
                 PROVE  Verbs(acks.queue) = Verbs(replies) \o Verbs(Here)
    BY <1>1 DEF LedgerAligned, Here
  <1> DEFINE queue == acks.queue
             q == Verbs(queue)
             r == Verbs(replies)
             w == Verbs(Here)
             Verbal == {"hello", "ping", "install", "refresh", "down", "up"}
  <1>2. queue \in Seq(Slots) /\ replies \in Seq(Answer) /\ Here \in Seq(Command)
    BY MineHere DEF Typed
  <1>3. Matched(queue, replies) /\ Covered(queue, replies, Here)
    BY <1>1 DEF Aligned
  <1>4. /\ Len(queue) = Len(replies) + Len(Here)
        /\ \A i \in 1..Len(replies) : queue[i].verb = replies[i].verb
        /\ \A i \in 1..Len(Here) : queue[Len(replies) + i].verb = Here[i].verb
    BY <1>3 DEF Matched, Covered
  <1>5. Len(replies) \in Nat /\ Len(Here) \in Nat /\ Len(queue) \in Nat
    BY <1>2
  <1>6. r \in Seq(Verbal) /\ Len(r) = Len(replies)
        /\ \A i \in 1..Len(replies) : r[i] = replies[i].verb
    <2>1. \A i \in 1..Len(replies) : replies[i] \in Answer
      BY <1>2
    <2>2. \A i \in 1..Len(replies) : replies[i].verb \in Verbal
      BY <2>1 DEF Answer
    <2>3. DOMAIN replies = 1..Len(replies)
      BY <1>2
    <2>4. r = [i \in 1..Len(replies) |-> replies[i].verb]
      BY <2>3 DEF Verbs
    <2> QED
      BY <2>2, <2>4, <1>5
  <1>7. w \in Seq(Verbal) /\ Len(w) = Len(Here)
        /\ \A i \in 1..Len(Here) : w[i] = Here[i].verb
    <2>1. \A i \in 1..Len(Here) : Here[i] \in Line
      BY <1>2 DEF Command
    <2>2. \A i \in 1..Len(Here) : Here[i].verb \in Verbal
      BY <2>1 DEF Line
    <2>3. DOMAIN Here = 1..Len(Here)
      BY <1>2
    <2>4. w = [i \in 1..Len(Here) |-> Here[i].verb]
      BY <2>3 DEF Verbs
    <2> QED
      BY <2>2, <2>4, <1>5
  <1>8. q = [i \in 1..Len(queue) |-> queue[i].verb]
    <2>1. DOMAIN queue = 1..Len(queue)
      BY <1>2
    <2> QED
      BY <2>1 DEF Verbs
  <1>9. q \in Seq(Verbal) /\ Len(q) = Len(queue)
        /\ \A i \in 1..Len(queue) : q[i] = queue[i].verb
    <2>1. \A i \in 1..Len(queue) : queue[i] \in Slots
      BY <1>2
    <2>2. \A i \in 1..Len(queue) : queue[i].verb \in Verbal
      BY <2>1 DEF Slots
    <2> QED
      BY <2>2, <1>8, <1>5
  <1> HIDE DEF queue, q, r, w, Verbal
  <1>10. Len(q) = Len(r) + Len(w)
    BY <1>4, <1>6, <1>7, <1>9
  <1>11. \A i \in 1..Len(r) : q[i] = r[i]
    BY <1>4, <1>5, <1>6, <1>9
  <1>12. \A i \in 1..Len(w) : q[Len(r) + i] = w[i]
    <2>1. SUFFICES ASSUME NEW i \in 1..Len(w)
                   PROVE  q[Len(r) + i] = w[i]
      OBVIOUS
    <2>2. Len(r) + i \in 1..Len(queue)
      BY <1>4, <1>5, <1>6, <1>7
    <2> QED
      BY <2>2, <1>4, <1>6, <1>7, <1>9
  <1>13. r \o w = q
    BY <1>6, <1>7, <1>9, <1>10, <1>11, <1>12, JoinOf
  <1> QED
    BY <1>13 DEF q, r, w, queue

(* LedgerAligned: every reply the panel has yet to read pops the slot of the
   command it answers, on every connection of the panel's life. *)
THEOREM LedgerStaysAligned ==
    ASSUME NextTick = TRUE
    PROVE  Spec => []LedgerAligned
  <1>1. HeldInv => LedgerAligned
    BY AlignedLedger DEF HeldInv, Core, Books
  <1> QED
    BY <1>1, HeldInvariant, PTL

-----------------------------------------------------------------------------
(* A success was pasted. *)

(* Slot n, and no other, is the last of the chord. *)
FinalAt(queue, n) ==
    n \in 1..Len(queue) /\ \A i \in 1..Len(queue) : queue[i].final <=> i = n

(* The key press of the last paste is accounted for before slot n: it has landed, or
   an error was counted, or an error is still to be read, or the press is in the queue,
   or the connection is gone with its answer. *)
TrackedAt(n) ==
    \/ pastes \in landed
    \/ acks.error
    \/ \E i \in 1..Len(replies) : /\ acks.from < i /\ i < n
                                  /\ replies[i].word = "err" /\ replies[i].verb = "down"
    \/ sock = "open" /\ \E i \in 1..Len(Here) :
           /\ IsPress(Here[i]) /\ Here[i].of = pastes
           /\ acks.from < Len(replies) + i /\ Len(replies) + i < n
    \/ sock = "stale" /\ Len(replies) < n
(* The connection the pacer writes to is the one whose answers the panel reads. *)
Going == ~teardown /\ sock # "closed" /\ (sock = "open" => ~fresh)
(* An awaiting chord is tracked up to its last slot; a paced one that has sent its
   press, up to the end of the ledger, while its connection lasts: a gate that
   closed may open again before the pacer's next tick. *)
Tracked ==
    /\ acks.from <= Len(acks.queue)
    /\ flow = "awaiting" => \E n \in Nat : FinalAt(acks.queue, n) /\ TrackedAt(n)
    /\ flow = "paced" /\ Going /\ Pressed => TrackedAt(Len(acks.queue) + 1)
(* A paste that was told ok has landed. *)
OkLanded == \A p \in Pastes : verdict[p] = "ok" => p \in landed

(* Writing more lines leaves the last slot of the chord where it is. *)
LEMMA FinalSent ==
    ASSUME NEW ledger, ledger.queue \in Seq(Slots), NEW lines \in Seq(Command), NEW n,
           FinalAt(ledger.queue, n)
    PROVE  FinalAt(Sent(ledger, lines).queue, n)
  <1> DEFINE new == Sent(ledger, lines).queue
             old == ledger.queue
  <1>1. /\ new \in Seq(Slots) /\ Len(new) = Len(old) + Len(lines)
        /\ \A i \in 1..Len(old) : new[i] = old[i]
        /\ \A i \in 1..Len(lines) : new[Len(old) + i] = Slot(lines[i].verb)
    BY SentQueue
  <1>2. Len(old) \in Nat /\ Len(lines) \in Nat
    OBVIOUS
  <1>3. n \in 1..Len(old) /\ \A i \in 1..Len(old) : old[i].final <=> i = n
    BY DEF FinalAt
  <1>4. \A verb : Slot(verb).final = FALSE
    BY DEF Slot
  <1> HIDE DEF new, old
  <1>5. ASSUME NEW i \in 1..Len(new) PROVE new[i].final <=> i = n
    <2>1. CASE i \in 1..Len(old)
      BY <1>1, <1>3, <2>1
    <2>2. CASE i > Len(old)
      <3>1. i - Len(old) \in 1..Len(lines) /\ i = Len(old) + (i - Len(old))
        BY <1>1, <1>2, <2>2
      <3>2. new[i] = Slot(lines[i - Len(old)].verb)
        BY <1>1, <3>1
      <3> QED
        BY <1>2, <1>3, <1>4, <2>2, <3>2
    <2> QED
      BY <1>1, <1>2, <2>1, <2>2
  <1>6. n \in 1..Len(new)
    BY <1>1, <1>2, <1>3
  <1> QED
    BY <1>5, <1>6 DEF FinalAt, new

(* Arming marks the last slot of the ledger. *)
LEMMA FinalMarked ==
    ASSUME NEW queue \in Seq(Slots), queue # <<>>
    PROVE  /\ FinalAt(MarkedAt(queue, Len(queue)), Len(queue))
           /\ Len(MarkedAt(queue, Len(queue))) = Len(queue)
  <1> DEFINE n == Len(queue)
             m == MarkedAt(queue, n)
  <1>1. n \in Nat /\ n > 0 /\ DOMAIN queue = 1..n
    OBVIOUS
  <1>2. m = [i \in 1..n |-> [final |-> i = n, verb |-> queue[i].verb]]
    BY <1>1 DEF MarkedAt
  <1>5. Len(m) = n
    <2>1. Longer(queue, queue, <<>>)
      BY DEF Longer
    <2> QED
      BY <2>1, MarkedLonger
  <1> HIDE DEF n, m
  <1>3. \A i \in 1..n : m[i].final <=> i = n
    <2> SUFFICES ASSUME NEW i \in 1..n PROVE m[i].final <=> i = n
      OBVIOUS
    <2>1. m[i] = [final |-> i = n, verb |-> queue[i].verb]
      BY <1>2
    <2>2. m[i].final = (i = n)
      BY ONLY <2>1
    <2> QED
      BY ONLY <2>2
  <1>4. n \in 1..n
    BY <1>1
  <1> QED
    BY <1>3, <1>4, <1>5 DEF FinalAt, m, n

(* A pop moves it one to the front. *)
LEMMA FinalPop ==
    ASSUME NEW queue, NEW rest, NEW n, FinalAt(queue, n), n # 1, Len(queue) \in Nat,
           Len(rest) = Len(queue) - 1, \A i \in 1..Len(rest) : rest[i] = queue[i + 1]
    PROVE  FinalAt(rest, n - 1)
  <1>1. n \in 1..Len(queue) /\ \A i \in 1..Len(queue) : queue[i].final <=> i = n
    BY DEF FinalAt
  <1>2. n - 1 \in 1..Len(rest)
    BY <1>1
  <1>3. ASSUME NEW i \in 1..Len(rest) PROVE rest[i].final <=> i = n - 1
    <2>1. i + 1 \in 1..Len(queue)
      OBVIOUS
    <2>2. rest[i].final <=> i + 1 = n
      BY <1>1, <2>1
    <2> QED
      BY <1>1, <2>2
  <1> QED
    BY <1>2, <1>3 DEF FinalAt

(* A write, and time, take nothing away from what is known of the paste. *)
LEMMA TrackGrows ==
    ASSUME Typed, NEW n \in Nat, NEW m \in Nat, n <= m, TrackedAt(n),
           landed \subseteq landed', acks.error => acks'.error, acks'.from = acks.from,
           replies' = replies, pastes' = pastes, sock' = sock,
           NEW lines \in Seq(Command), sock = "open" => Here' = Here \o lines
    PROVE  TrackedAt(m)'
  <1>1. Here \in Seq(Command) /\ Len(replies) \in Nat /\ acks.from \in Nat
    BY MineHere DEF Typed
  <1>2. CASE \E i \in 1..Len(replies) : /\ acks.from < i /\ i < n
                                  /\ replies[i].word = "err" /\ replies[i].verb = "down"
    BY <1>1, <1>2 DEF TrackedAt
  <1>3. ASSUME sock = "open", NEW i \in 1..Len(Here), IsPress(Here[i]), Here[i].of = pastes,
               acks.from < Len(replies) + i, Len(replies) + i < n
        PROVE  TrackedAt(m)'
    <2>1. Here' = Here \o lines
      BY <1>3
    <2>2. i \in 1..Len(Here') /\ Here'[i] = Here[i]
      BY <1>1, <2>1
    <2>3. Len(replies) + i < m
      BY <1>1, <1>3
    <2> QED
      BY <1>3, <2>2, <2>3 DEF TrackedAt
  <1>4. CASE sock = "stale" /\ Len(replies) < n
    BY <1>1, <1>4 DEF TrackedAt
  <1>5. CASE pastes \in landed \/ acks.error
    BY <1>5 DEF TrackedAt
  <1> QED
    BY <1>2, <1>3, <1>4, <1>5 DEF TrackedAt

(* Lines written behind a tracked chord leave it tracked. *)
LEMMA WriteTracks ==
    ASSUME Core, Tracked, NEW lines \in Seq(Command), Emit(acks, lines),
           flow' = "awaiting" => flow = "awaiting",
           flow' = "paced" => flow = "paced" /\ chord' = chord,
           UNCHANGED <<sock, epoch, teardown, fresh, replies, pastes, landed>>
    PROVE  Tracked'
  <1>1. acks' = Sent(acks, lines) /\ wire' = Written(lines)
    BY DEF Emit
  <1>2. acks.queue \in Seq(Slots) /\ Typed /\ acks.from \in Nat
    BY DEF Core, Typed
  <1>3. /\ Len(acks'.queue) = Len(acks.queue) + Len(lines) /\ Len(acks.queue) \in Nat
        /\ Len(lines) \in Nat /\ acks'.from = acks.from /\ acks'.error = acks.error
    BY <1>1, <1>2, SentQueue
  <1>4. sock = "open" => Here' = Here \o lines
    BY <1>1, <1>2, WrittenHere DEF Typed, Here
  <1>5. acks'.from <= Len(acks'.queue)
    BY <1>2, <1>3 DEF Tracked
  <1>6. ASSUME flow' = "awaiting" PROVE \E n \in Nat : FinalAt(acks'.queue, n) /\ TrackedAt(n)'
    <2>1. PICK n \in Nat : FinalAt(acks.queue, n) /\ TrackedAt(n)
      BY <1>6 DEF Tracked
    <2>2. FinalAt(acks'.queue, n)
      BY <1>1, <1>2, <2>1, FinalSent
    <2>3. TrackedAt(n)'
      <3>1. n <= n
        OBVIOUS
      <3> QED
        BY <1>2, <1>3, <1>4, <2>1, <3>1, TrackGrows
    <2> QED
      BY <2>2, <2>3
  <1>7. ASSUME flow' = "paced", Going', Pressed' PROVE TrackedAt(Len(acks.queue) + 1)'
    <2>1. TrackedAt(Len(acks.queue) + 1)
      BY <1>7 DEF Tracked, Pressed, Going
    <2> DEFINE n == Len(acks.queue) + 1
               m == Len(acks'.queue) + 1
    <2>2. n \in Nat /\ m \in Nat /\ n <= m
      BY <1>3
    <2>3. TrackedAt(n)
      BY <2>1
    <2> QED
      BY <1>2, <1>3, <1>4, <2>2, <2>3, TrackGrows
  <1> QED
    BY <1>5, <1>6, <1>7 DEF Tracked

-----------------------------------------------------------------------------
(* The helper runs a line: the press of the paste lands, or its error is among
   the answers; every other line moves from one list to the other in place. *)
LEMMA RunTracksAt ==
    ASSUME Core, pastes # 0, NEW e \in Epochs, Run(e), NEW n \in Nat, TrackedAt(n)
    PROVE  TrackedAt(n)'
  <1> DEFINE line == Head(wire[e])
             answer(out) == [word |-> out[1], verb |-> line.verb]
  <1>1. /\ Typed /\ Here \in Seq(Command) /\ replies \in Seq(Answer) /\ Len(replies) \in Nat
        /\ acks.from \in Nat /\ wire[e] # <<>> /\ line \in Command /\ epoch \in Epochs
        /\ Len(Here) \in Nat
    <2>1. Typed /\ Here \in Seq(Command) /\ replies \in Seq(Answer)
          /\ acks.from \in Nat /\ epoch \in Epochs
      BY MineHere DEF Core, Typed
    <2>2. wire[e] # <<>> /\ wire[e] \in Seq(Command)
      BY <2>1 DEF Run, Typed
    <2> QED
      BY <2>1, <2>2
  <1>2. /\ acks' = acks /\ pastes' = pastes /\ sock' = sock /\ epoch' = epoch
    BY DEF Run, panel, link, counts
  <1>3. PICK out \in Outcomes(e, line) :
          /\ landed' = IF line.verb = "down" /\ line.key \in {"V", "A"} /\ out[1] = "ok"
                          /\ line.of # 0 THEN landed \cup {line.of} ELSE landed
          /\ IF Heard(e)
             THEN /\ wire' = [wire EXCEPT ![e] = Tail(@)]
                  /\ replies' = Append(replies, answer(out))
             ELSE /\ wire' = [wire EXCEPT ![e] = <<>>]
                  /\ UNCHANGED replies
    BY DEF Run
  <1>4. landed \subseteq landed'
    BY <1>3
  <1>5. line.verb = "down" => out[1] \in {"ok", "err"}
    BY <1>1, <1>3, OutcomeIs
  <1>6. CASE ~Heard(e)
    <2>1. replies' = replies
      BY <1>3, <1>6
    <2>2. sock = "open" => Here' = Here
      BY <1>1, <1>2, <1>3, <1>6 DEF Heard, Here, Typed
    <2> QED
      BY <1>2, <1>4, <2>1, <2>2 DEF TrackedAt
  <1>7. CASE Heard(e)
    <2>1. /\ sock = "open" /\ Here # <<>> /\ line = Head(Here)
          /\ replies' = Append(replies, answer(out)) /\ Here' = Tail(Here)
      BY <1>1, <1>2, <1>3, <1>7 DEF Heard, Here, Typed
    <2> DEFINE a == answer(out)
    <2>2. a.word = out[1] /\ a.verb = line.verb
      OBVIOUS
    <2> HIDE DEF a
    <2>3. /\ Len(replies') = Len(replies) + 1 /\ replies'[Len(replies) + 1] = a
          /\ \A i \in 1..Len(replies) : replies'[i] = replies[i]
      BY <1>1, <2>1 DEF a
    <2>4. /\ Len(Here') = Len(Here) - 1 /\ Here[1] = line /\ Len(Here) > 0
          /\ \A i \in 1..(Len(Here) - 1) : Here'[i] = Here[i + 1]
      BY <1>1, <2>1
    <2> HIDE DEF line
    <2>5. CASE pastes \in landed \/ acks.error
      BY <1>2, <1>4, <2>5 DEF TrackedAt
    <2>6. ASSUME NEW i \in 1..Len(replies), acks.from < i, i < n,
                 replies[i].word = "err", replies[i].verb = "down"
          PROVE  TrackedAt(n)'
      <3>1. i \in 1..Len(replies') /\ replies'[i] = replies[i]
        BY <1>1, <2>3
      <3> QED
        BY <1>2, <2>6, <3>1 DEF TrackedAt
    <2>7. ASSUME NEW i \in 1..Len(Here), IsPress(Here[i]), Here[i].of = pastes,
                 acks.from < Len(replies) + i, Len(replies) + i < n
          PROVE  TrackedAt(n)'
      <3>1. CASE i = 1
        <4>1. line.verb = "down" /\ line.key \in {"V", "A"} /\ line.of = pastes
          BY <2>4, <2>7, <3>1 DEF IsPress
        <4>2. CASE out[1] = "ok"
          <5>1. pastes \in landed'
            BY <1>3, <4>1, <4>2
          <5> QED
            BY <1>2, <5>1 DEF TrackedAt
        <4>3. CASE out[1] = "err"
          <5>1. /\ Len(replies) + 1 \in 1..Len(replies') /\ acks.from < Len(replies) + 1
                /\ Len(replies) + 1 < n
                /\ replies'[Len(replies) + 1].word = "err"
                /\ replies'[Len(replies) + 1].verb = "down"
            BY <1>1, <2>2, <2>3, <2>7, <3>1, <4>1, <4>3
          <5> QED
            BY <1>2, <5>1 DEF TrackedAt
        <4> QED
          BY <1>5, <4>1, <4>2, <4>3
      <3>2. CASE i # 1
        <4>1. /\ i - 1 \in 1..Len(Here') /\ Here'[i - 1] = Here[i]
              /\ Len(replies') + (i - 1) = Len(replies) + i
          BY <1>1, <2>3, <2>4, <3>2
        <4> QED
          BY <1>2, <2>1, <2>7, <4>1 DEF TrackedAt
      <3> QED
        BY <3>1, <3>2
    <2> QED
      BY <2>1, <2>5, <2>6, <2>7 DEF TrackedAt
  <1> QED
    BY <1>6, <1>7

(* A line that runs turns a queued press into a landed one or an error to be read. *)
LEMMA RunTracks ==
    ASSUME Core, IInv, Tracked, NEW e \in Epochs, Run(e)
    PROVE  Tracked' /\ landed \subseteq landed'
  <1>1. /\ acks' = acks /\ flow' = flow /\ chord' = chord /\ pastes' = pastes
        /\ Going' = Going
    BY DEF Run, panel, link, counts, Going
  <1>2. landed \subseteq landed'
    BY DEF Run
  <1>3. flow # "idle" => pastes # 0
    BY DEF IInv
  <1>4. ASSUME flow = "awaiting" PROVE \E n \in Nat : FinalAt(acks.queue, n) /\ TrackedAt(n)'
    <2>1. PICK n \in Nat : FinalAt(acks.queue, n) /\ TrackedAt(n)
      BY <1>4 DEF Tracked
    <2> QED
      BY <1>3, <1>4, <2>1, RunTracksAt
  <1>5. ASSUME flow = "paced", Going, Pressed PROVE TrackedAt(Len(acks.queue) + 1)'
    <2> DEFINE n == Len(acks.queue) + 1
    <2>1. n \in Nat /\ TrackedAt(n)
      BY <1>5 DEF Tracked, Core, Typed
    <2>2. n' = n
      BY <1>1
    <2> HIDE DEF n
    <2>3. TrackedAt(n)'
      BY <1>3, <1>5, <2>1, <2>2, RunTracksAt
    <2> QED
      BY <2>3 DEF n
  <1> QED
    BY <1>1, <1>2, <1>4, <1>5 DEF Tracked, Pressed

(* Steps that touch neither the ledger nor the lane leave the chord tracked. *)
LEMMA StillTracks ==
    ASSUME Core, Tracked,
           UNCHANGED <<acks, flow, chord, replies, sock, epoch, teardown, fresh, pastes,
                       landed>>,
           sock = "open" => Here' = Here
    PROVE  Tracked'
  <1>1. \A n \in Nat : TrackedAt(n) => TrackedAt(n)'
    BY DEF TrackedAt
  <1>2. Len(acks.queue) + 1 \in Nat
    BY DEF Core, Typed
  <1>3. TrackedAt(Len(acks.queue) + 1) => TrackedAt(Len(acks.queue) + 1)'
    <2> DEFINE n == Len(acks.queue) + 1
    <2>1. n' = n /\ n \in Nat
      BY <1>2
    <2> HIDE DEF n
    <2>2. TrackedAt(n) => TrackedAt(n)'
      BY <1>1, <2>1 DEF TrackedAt
    <2> QED
      BY <2>2 DEF n
  <1> QED
    BY <1>1, <1>3 DEF Tracked, Pressed, Going

(* So does the end of an old connection. *)
LEMMA DepartTracks ==
    ASSUME Core, Tracked, NEW e \in Epochs, Depart(e)
    PROVE  Tracked'
  <1>1. wire' = wire /\ epoch' = epoch
    BY DEF Depart, link
  <1>2. Here' = Here
    BY <1>1 DEF Here
  <1> QED
    BY <1>2, StillTracks DEF Depart, panel, link, counts

(* So does a probe. *)
LEMMA RepairTracks ==
    ASSUME Core, Tracked, RepairTick
    PROVE  Tracked'
  <1>1. UNCHANGED <<flow, chord, sock, epoch, teardown, fresh, replies, pastes, landed>>
    BY DEF RepairTick, device, counts
  <1>2. CASE gate /\ ~Asked
    <2>1. Emit(acks, <<Cmd("ping")>>) /\ <<Cmd("ping")>> \in Seq(Command)
      BY <1>2, CmdShape, OneIsLines DEF RepairTick
    <2> QED
      BY <1>1, <2>1, WriteTracks
  <1>3. CASE ~(gate /\ ~Asked)
    <2>1. acks' = acks /\ wire' = wire
      BY <1>3 DEF RepairTick
    <2>2. Here' = Here
      BY <1>1, <2>1 DEF Here
    <2> QED
      BY <1>1, <2>1, <2>2, StillTracks
  <1> QED
    BY <1>2, <1>3

(* The helper's stop: the answer will never be read. *)
LEMMA DiesTracks ==
    ASSUME Core, Tracked, HelperDies
    PROVE  Tracked'
  <1>1. /\ UNCHANGED <<acks, flow, chord, gate, replies, pastes, landed>>
        /\ sock = "open" /\ sock' = "stale"
    BY DEF HelperDies, panel, counts
  <1>2. Len(replies) \in Nat /\ acks.from \in Nat /\ Len(acks.queue) \in Nat /\ Len(Here) \in Nat
    BY MineHere DEF Core, Typed
  <1>3. ASSUME NEW n \in Nat, TrackedAt(n) PROVE TrackedAt(n)'
    <2>1. ASSUME NEW i \in 1..Len(Here), Len(replies) + i < n PROVE Len(replies) < n
      BY <1>2, <2>1
    <2> QED
      BY <1>1, <1>3, <2>1 DEF TrackedAt
  <1>4. ASSUME Going' PROVE TrackedAt(Len(acks.queue) + 1)'
    <2>1. Len(replies) <= Len(acks.queue)
      BY <1>1, <1>4 DEF Core, Books, Aligned, Matched, Going, HelperDies
    <2>2. Len(replies') < Len(acks'.queue) + 1
      BY <1>1, <1>2, <2>1
    <2> QED
      BY <1>1, <2>2 DEF TrackedAt
  <1> QED
    BY <1>1, <1>3, <1>4 DEF Tracked

(* Nothing is awaited of a connection that was lost. *)
LEMMA LostTracks ==
    ASSUME IInv, ConnectionLost, ~Going'
    PROVE  Tracked'
  <1>1. acks'.queue = <<>> /\ acks'.from = 0
    BY InitialQueue DEF ConnectionLost
  <1>2. flow' # "awaiting"
    <2>1. CASE acks.done # NoChord
      BY <2>1 DEF ConnectionLost
    <2>2. CASE acks.done = NoChord
      BY <2>2 DEF ConnectionLost, IInv, CallbackKept, NoChord
    <2> QED
      BY <2>1, <2>2
  <1> QED
    BY <1>1, <1>2 DEF Tracked

(* A rebuild's deferred half finds no chord waiting, whose ledger is empty. *)
LEMMA TeardownTracks ==
    ASSUME Core, IInv, Teardown
    PROVE  Tracked'
  <1>1. acks = Initial /\ acks' = acks /\ flow' = flow /\ ~Going'
    BY DEF Teardown, Dial, panel, Core, Books, Lost, Going
  <1>2. flow # "awaiting"
    BY <1>1, InitialQueue DEF IInv, CallbackKept, NoChord
  <1> QED
    BY <1>1, <1>2, InitialQueue DEF Tracked

-----------------------------------------------------------------------------

(* A refused paste has nothing to track. *)
LEMMA RefusedTracks ==
    ASSUME Core, PasteRefused
    PROVE  Tracked'
  <1>1. acks' = ChordStart(acks) /\ flow' = "idle"
    BY DEF PasteRefused, Clicked
  <1>2. acks'.queue = acks.queue /\ acks'.from = Len(acks.queue) /\ Len(acks.queue) \in Nat
    BY <1>1 DEF ChordStart, Core, Typed
  <1> QED
    BY <1>1, <1>2 DEF Tracked

(* Nor has one that has just been paced. *)
LEMMA PacedTracks ==
    ASSUME Core, NEW kind \in Kinds, PastePaced(kind)
    PROVE  Tracked'
  <1>1. acks' = ChordStart(acks) /\ flow' = "paced" /\ chord'.sent = 0
    BY DEF PastePaced
  <1>2. acks'.queue = acks.queue /\ acks'.from = Len(acks.queue) /\ Len(acks.queue) \in Nat
    BY <1>1 DEF ChordStart, Core, Typed
  <1>3. ~Pressed'
    BY <1>1 DEF Pressed
  <1> QED
    BY <1>1, <1>2, <1>3 DEF Tracked

(* The press of a chord sent at once is inside the region it begins. *)
LEMMA AtOnceTracks ==
    ASSUME Core, NEW kind \in Kinds, PasteAtOnce(kind), NextTick = TRUE
    PROVE  Tracked'
  <1> DEFINE lines == ChordLines(kind, pastes')
             q == Sent(ChordStart(acks), lines).queue
  <1>1. /\ ~teardown /\ pastes' \in 1..MaxPastes /\ sock' = sock /\ epoch' = epoch
        /\ replies' = replies /\ wire' = Written(lines) /\ flow' = "awaiting" /\ gate
        /\ acks' = ChordArmed(Sent(ChordStart(acks), lines), pastes')
    BY ClickIs DEF PasteAtOnce
  <1>2. pastes' \in 0..MaxPastes /\ shift \in BOOLEAN /\ kind \in {"gtk", "terminal", "wine"}
    BY <1>1, PasteAssumption DEF Core, Typed
  <1>3. lines \in Seq(Command) /\ HasPress(lines, pastes')
    <2> DEFINE set == IF shift THEN {"Shift"} ELSE {}
    <2>1. set \in SUBSET Keys /\ ("Shift" \in set <=> shift) /\ "Ctrl" \notin set /\ "V" \notin set
      BY DEF Keys, Modifiers
    <2> HIDE DEF set
    <2> QED
      BY <1>2, <2>1, ChordIsClean
  <1> HIDE DEF lines
  <1>4. PICK i \in 1..Len(lines) : IsPress(lines[i]) /\ lines[i].of = pastes' /\ i < Len(lines)
    BY <1>3 DEF HasPress
  <1>5. /\ acks.queue \in Seq(Slots) /\ replies \in Seq(Answer) /\ Here \in Seq(Command)
        /\ sock # "closed"
    BY <1>1, GateOpen, MineHere DEF Core, Typed
  <1>6. /\ q \in Seq(Slots) /\ Len(q) = Len(acks.queue) + Len(lines)
        /\ acks'.from = Len(acks.queue) /\ acks'.queue = MarkedAt(q, Len(q))
    <2> DEFINE s == ChordStart(acks)
    <2>1. s.queue = acks.queue /\ s.from = Len(acks.queue)
      BY DEF ChordStart
    <2>2. /\ acks'.queue = MarkedAt(q, Len(q))
          /\ acks'.from = s.from
      BY <1>1 DEF ChordArmed, Sent
    <2> HIDE DEF s
    <2>3. s.queue \in Seq(Slots)
      BY <1>5, <2>1
    <2>4. Sent(s, lines).queue \in Seq(Slots)
          /\ Len(Sent(s, lines).queue) = Len(s.queue) + Len(lines)
      BY ONLY <1>3, <2>3, SentQueue
    <2> QED
      BY <2>1, <2>2, <2>4 DEF s
  <1>7. /\ Len(acks.queue) \in Nat /\ Len(replies) \in Nat /\ Len(Here) \in Nat
        /\ Len(lines) \in Nat
    BY <1>3, <1>5
  <1>8. PICK n \in Nat : n = Len(q) /\ n > 0 /\ n = Len(acks.queue) + Len(lines)
    BY <1>4, <1>6, <1>7
  <1> HIDE DEF q
  <1>9. FinalAt(acks'.queue, n) /\ Len(acks'.queue) = n
    <2>1. q # <<>>
      BY <1>6, <1>8
    <2>2. FinalAt(MarkedAt(q, Len(q)), Len(q)) /\ Len(MarkedAt(q, Len(q))) = Len(q)
      BY <1>6, <2>1, FinalMarked
    <2> QED
      BY <1>6, <1>8, <2>2
  <1>10. CASE sock = "open"
    <2>1. Here' = Here \o lines
      BY <1>1, <1>3, <1>10, WrittenHere DEF Core, Typed, Here
    <2> DEFINE j == Len(Here) + i
    <2>2. j \in 1..Len(Here') /\ Here'[j] = lines[i]
      BY <1>3, <1>4, <1>5, <2>1
    <2>3. Len(acks.queue) = Len(replies) + Len(Here)
      BY <1>1, <1>10 DEF Core, Books, Aligned, Covered
    <2>4. acks'.from < Len(replies') + j /\ Len(replies') + j < n
      BY <1>1, <1>4, <1>6, <1>7, <1>8, <2>3
    <2>5. TrackedAt(n)'
      BY <1>1, <1>4, <1>10, <2>2, <2>4 DEF TrackedAt
    <2> QED
      BY <1>1, <1>6, <1>7, <1>8, <1>9, <2>5 DEF Tracked
  <1>11. CASE sock # "open"
    <2>1. sock = "stale"
      BY <1>5, <1>11 DEF Core, Typed
    <2>2. Len(replies) <= Len(acks.queue)
      BY <1>1, <2>1 DEF Core, Books, Aligned, Matched
    <2>3. Len(replies') < n
      BY <1>1, <1>4, <1>6, <1>7, <1>8, <2>2
    <2>4. TrackedAt(n)'
      BY <1>1, <2>1, <2>3 DEF TrackedAt
    <2> QED
      BY <1>1, <1>6, <1>7, <1>8, <1>9, <2>4 DEF Tracked
  <1> QED
    BY <1>10, <1>11

(* The elements of the second of two sequences of lines. *)
LEMMA OneBehind ==
    ASSUME NEW s \in Seq(Command), NEW t \in Seq(Command)
    PROVE  /\ Len(s \o t) = Len(s) + Len(t)
           /\ \A i \in 1..Len(t) : (s \o t)[Len(s) + i] = t[i]
  <1>1. Len(s \o t) = Len(s) + Len(t)
    OBVIOUS
  <1>2. \A i \in 1..Len(t) : (s \o t)[Len(s) + i] = t[i]
    OBVIOUS
  <1> QED
    BY <1>1, <1>2

(* A tick that sends: the press enters the queue behind the region's start, and
   the last line is armed with the press before it. *)
LEMMA SendTracks ==
    ASSUME Core, ChordShape, Tracked, Tick, AssumptionsHold, NextTick = TRUE
    PROVE  Tracked'
  <1> DEFINE next == chord.lines[chord.sent + 1]
             last == chord.sent + 1 = Len(chord.lines)
             lines == <<next>>
             q == Sent(acks, lines).queue
  <1>1. /\ ~teardown /\ flow = "paced" /\ gate
        /\ acks' = IF last THEN ChordArmed(Sent(acks, lines), pastes)
                           ELSE Sent(acks, lines)
        /\ wire' = Written(lines)
        /\ flow' = IF last THEN "awaiting" ELSE "paced"
        /\ chord' = IF last THEN NoPace ELSE [chord EXCEPT !.sent = @ + 1]
        /\ UNCHANGED <<sock, epoch, teardown, fresh, replies, pastes, landed>> /\ Going
    BY GateOpen DEF Tick, AssumptionsHold, Awake, link, device, counts, Going
  <1>2. /\ PacedShape /\ chord.sent \in Nat /\ chord.lock \in BOOLEAN
        /\ pastes \in 0..MaxPastes
    BY DEF Core, Typed, Device
  <1>3. /\ next \in Command
        /\ ~chord.lock => chord.sent \in 0..3 /\ Len(chord.lines) = 4
        /\ chord.lock => chord.sent \in 0..5 /\ Len(chord.lines) = 6
        /\ IsPress(next) <=> chord.sent = IF chord.lock THEN 2 ELSE 1
        /\ IsPress(next) => next.of = pastes
    BY <1>1, <1>2, NextLine
  <1>4. lines \in Seq(Command) /\ Len(lines) = 1 /\ lines[1] = next
    BY <1>3
  <1>5. /\ Typed /\ acks.queue \in Seq(Slots) /\ Len(acks.queue) \in Nat /\ acks.from \in Nat
        /\ Len(replies) \in Nat /\ Here \in Seq(Command) /\ Len(Here) \in Nat
        /\ sock \in {"open", "stale"} /\ acks.from <= Len(acks.queue)
    BY <1>1, GateOpen, MineHere DEF Core, Typed, Tracked
  <1>0. PICK n \in Nat : n = Len(acks.queue) + 1
    BY <1>5
  <1> DEFINE m == n + 1
  <1>6. /\ q \in Seq(Slots) /\ Len(q) = n /\ Sent(acks, lines).from = acks.from
        /\ Sent(acks, lines).error = acks.error
    BY <1>0, <1>4, <1>5, SentQueue
  <1>7. acks'.from = acks.from /\ acks'.error = acks.error /\ Len(acks'.queue) = n
        /\ n \in Nat /\ m \in Nat /\ n <= n /\ n <= m /\ m = n + 1
    <2>1. CASE last
      <3>1. q # <<>>
        BY <1>0, <1>5, <1>6
      <3>2. Len(MarkedAt(q, Len(q))) = Len(q)
        BY <1>6, <3>1, FinalMarked
      <3>3. acks'.queue = MarkedAt(q, Len(q)) /\ acks'.from = acks.from /\ acks'.error = acks.error
        BY <1>1, <1>6, <2>1 DEF ChordArmed
      <3> QED
        BY <1>5, <1>6, <3>2, <3>3
    <2>2. CASE ~last
      BY <1>1, <1>5, <1>6, <2>2
    <2> QED
      BY <2>1, <2>2
  <1>8. sock = "open" => Here' = Here \o lines
    BY <1>1, <1>4, <1>5, WrittenHere DEF Typed, Here
  <1> HIDE DEF next, lines, q
  <1>9. ASSUME Pressed PROVE TrackedAt(n)' /\ TrackedAt(m)'
    <2>1. TrackedAt(n)
      BY <1>0, <1>1, <1>9 DEF Tracked
    <2> HIDE DEF m
    <2> QED
      BY <1>1, <1>4, <1>5, <1>7, <1>8, <2>1, TrackGrows
  <1>10. CASE last
    <2>1. Pressed
      <3>1. CASE chord.lock
        <4>1. chord.sent \in 0..5 /\ Len(chord.lines) = 6 /\ chord.sent + 1 = Len(chord.lines)
          BY <1>3, <1>10, <3>1
        <4> QED
          BY ONLY <3>1, <4>1 DEF Pressed
      <3>2. CASE ~chord.lock
        <4>1. chord.sent \in 0..3 /\ Len(chord.lines) = 4 /\ chord.sent + 1 = Len(chord.lines)
          BY <1>3, <1>10, <3>2
        <4> QED
          BY ONLY <3>2, <4>1 DEF Pressed
      <3> QED
        BY <3>1, <3>2
    <2>2. FinalAt(acks'.queue, n)
      <3>1. q # <<>>
        BY <1>0, <1>5, <1>6
      <3>2. FinalAt(MarkedAt(q, Len(q)), Len(q))
        BY <1>6, <3>1, FinalMarked
      <3>3. acks'.queue = MarkedAt(q, Len(q))
        BY <1>1, <1>10 DEF ChordArmed, q
      <3> QED
        BY <1>6, <3>2, <3>3
    <2>3. TrackedAt(n)'
      BY <1>9, <2>1
    <2>4. flow' = "awaiting" /\ n \in Nat /\ acks'.from <= Len(acks'.queue)
      BY <1>0, <1>1, <1>5, <1>7, <1>10
    <2> QED
      BY <2>2, <2>3, <2>4 DEF Tracked
  <1>11. CASE ~last
    <2>1. flow' = "paced" /\ acks'.from <= Len(acks'.queue) /\ Len(acks'.queue) + 1 = m
      BY <1>0, <1>1, <1>5, <1>7, <1>11
    <2>2. chord'.sent = chord.sent + 1 /\ chord'.lock = chord.lock
      <3> DEFINE c == [lines |-> chord.lines, sent |-> chord.sent, lock |-> chord.lock]
      <3>1. [c EXCEPT !.sent = @ + 1]
              = [lines |-> chord.lines, sent |-> chord.sent + 1, lock |-> chord.lock]
        OBVIOUS
      <3>2. chord' = [lines |-> chord.lines, sent |-> chord.sent + 1, lock |-> chord.lock]
        BY <1>1, <1>11, <3>1 DEF ChordShape
      <3> QED
        BY <3>2
    <2>3. ASSUME Pressed', ~Pressed PROVE TrackedAt(m)'
      <3>1. IsPress(next) /\ next.of = pastes
        BY <1>2, <1>3, <2>2, <2>3 DEF Pressed
      <3>2. CASE sock = "open"
        <4> DEFINE j == Len(Here) + 1
        <4>1. j \in 1..Len(Here') /\ Here'[j] = next
          <5>1. Here' = Here \o lines
            BY <1>8, <3>2
          <5>2. /\ Len(Here \o lines) = Len(Here) + 1
                /\ (Here \o lines)[Len(Here) + 1] = lines[1]
            <6>1. /\ Len(Here \o lines) = Len(Here) + Len(lines)
                  /\ \A l \in 1..Len(lines) : (Here \o lines)[Len(Here) + l] = lines[l]
              BY <1>4, <1>5, OneBehind
            <6>2. 1 \in 1..Len(lines)
              BY <1>4
            <6> QED
              BY <1>4, <6>1, <6>2
          <5> QED
            BY <1>4, <1>5, <5>1, <5>2
        <4>2. Len(acks.queue) = Len(replies) + Len(Here)
          BY <1>1, <3>2 DEF Core, Books, Aligned, Covered
        <4>3. acks'.from < Len(replies') + j /\ Len(replies') + j < m
          BY <1>0, <1>1, <1>5, <1>7, <4>2
        <4> HIDE DEF m
        <4> QED
          BY <1>1, <3>1, <3>2, <4>1, <4>3 DEF TrackedAt
      <3>3. CASE sock = "stale"
        <4>1. Len(replies) <= Len(acks.queue)
          BY <1>1, <3>3 DEF Core, Books, Aligned, Matched
        <4>2. Len(replies') < m
          BY <1>0, <1>1, <1>5, <4>1
        <4> HIDE DEF m
        <4> QED
          BY <1>1, <3>3, <4>2 DEF TrackedAt
      <3> QED
        BY <1>5, <3>2, <3>3
    <2>4. Pressed' => TrackedAt(m)'
      BY <1>9, <2>3
    <2> HIDE DEF m
    <2>5. Pressed' => TrackedAt(Len(acks.queue) + 1)'
      BY <2>1, <2>4
    <2> QED
      BY <2>1, <2>5 DEF Tracked
  <1> QED
    BY <1>10, <1>11

-----------------------------------------------------------------------------
(* The pop moves every place up by one; an error it passes over in the region
   spoils the chord. *)
LEMMA PopTracks ==
    ASSUME Core, NEW lines, Answered(lines), NEW n \in Nat, NEW m \in Nat,
           n > 1, n <= m + 1, TrackedAt(n)
    PROVE  TrackedAt(m)'
  <1>1. /\ replies \in Seq(Answer) /\ Len(replies) \in Nat /\ Len(replies) > 0
        /\ Len(replies') = Len(replies) - 1
        /\ \A i \in 1..Len(replies') : replies'[i] = replies[i + 1]
        /\ Here' = IF sock = "open" THEN Here \o lines ELSE Here
        /\ replies[1].word = Word /\ replies[1].verb = Verb
        /\ Here \in Seq(Command)
    BY ReplyQueue DEF Core
  <1>2. /\ acks.queue # <<>> /\ Head(acks.queue).verb = Verb /\ acks' = Sent(Popped, lines)
        /\ UNCHANGED <<sock, pastes, landed>> /\ lines \in Seq(Command)
    BY DEF Answered
  <1>3. acks'.from = (IF acks.from > 0 THEN acks.from - 1 ELSE 0)
        /\ acks'.error = (acks.error \/ Spoils(acks, Word)) /\ acks.from \in Nat
    BY <1>2, PoppedIs DEF Sent, Core, Typed
  <1>4. CASE pastes \in landed \/ acks.error
    BY <1>2, <1>3, <1>4 DEF TrackedAt
  <1>5. ASSUME NEW i \in 1..Len(replies), acks.from < i, i < n,
               replies[i].word = "err", replies[i].verb = "down"
        PROVE  TrackedAt(m)'
    <2>1. CASE i = 1
      <3>1. Spoils(acks, Word)
        BY <1>1, <1>2, <1>3, <1>5, <2>1 DEF Spoils, IsErr, KeyVerbs
      <3> QED
        BY <1>3, <3>1 DEF TrackedAt
    <2>2. CASE i # 1
      <3>1. /\ i - 1 \in 1..Len(replies') /\ replies'[i - 1] = replies[i]
            /\ acks'.from < i - 1 /\ i - 1 < m
        <4>1. i - 1 \in 1..Len(replies') /\ (i - 1) + 1 = i
          BY <1>1, <2>2
        <4>2. acks'.from < i - 1 /\ i - 1 < m
          BY <1>3, <1>5, <2>2
        <4> QED
          BY <1>1, <4>1, <4>2
      <3> QED
        BY <1>5, <3>1 DEF TrackedAt
    <2> QED
      BY <2>1, <2>2
  <1>6. ASSUME sock = "open", NEW i \in 1..Len(Here), IsPress(Here[i]), Here[i].of = pastes,
               acks.from < Len(replies) + i, Len(replies) + i < n
        PROVE  TrackedAt(m)'
    <2>1. i \in 1..Len(Here') /\ Here'[i] = Here[i]
      BY <1>1, <1>2, <1>6
    <2>2. acks'.from < Len(replies') + i /\ Len(replies') + i < m
      BY <1>1, <1>3, <1>6
    <2> QED
      BY <1>2, <1>6, <2>1, <2>2 DEF TrackedAt
  <1>7. CASE sock = "stale" /\ Len(replies) < n
    <2>1. Len(replies') < m
      BY <1>1, <1>7
    <2> QED
      BY <1>2, <1>7, <2>1 DEF TrackedAt
  <1> QED
    BY <1>4, <1>5, <1>6, <1>7 DEF TrackedAt

(* A reply keeps the chord tracked, and one that settles it as a success finds the
   press landed. *)
LEMMA ReplyTracks ==
    ASSUME Core, IInv, Tracked, Reply, NextTick = TRUE
    PROVE  /\ Tracked'
           /\ Settles(acks) /\ Succeeds(acks, Head(replies).word) =>
                acks.done = pastes /\ pastes \in landed
  <1>1. PICK lines : Answered(lines)
    BY ReplyIs DEF Core
  <1>2. /\ Typed /\ Books /\ acks.queue # <<>> /\ acks' = Sent(Popped, lines)
        /\ lines \in Seq(Command) /\ Routed(lines) /\ chord' = chord
    BY <1>1 DEF Answered, Core
  <1>3. /\ acks.queue \in Seq(Slots) /\ Popped.queue = Tail(acks.queue)
        /\ Popped.queue \in Seq(Slots)
        /\ Len(Popped.queue) = Len(acks.queue) - 1
        /\ \A i \in 1..Len(Popped.queue) : Popped.queue[i] = acks.queue[i + 1]
        /\ Len(replies) > 0 /\ Len(replies) \in Nat
    BY <1>1, <1>2, ReplyQueue
  <1>4. /\ Len(acks.queue) \in Nat /\ Len(acks.queue) > 0 /\ Head(acks.queue) = acks.queue[1]
        /\ Len(lines) \in Nat /\ acks.from \in Nat
    BY <1>2, <1>3 DEF Typed
  <1>5. Len(acks'.queue) = Len(acks.queue) - 1 + Len(lines)
        /\ acks'.from = (IF acks.from > 0 THEN acks.from - 1 ELSE 0)
    <2>1. Len(Sent(Popped, lines).queue) = Len(Popped.queue) + Len(lines)
      BY <1>2, <1>3, SentQueue
    <2>2. acks'.from = (IF acks.from > 0 THEN acks.from - 1 ELSE 0)
      BY <1>2, PoppedIs DEF Sent
    <2> QED
      BY <1>2, <1>3, <2>1, <2>2
  <1>6. acks'.from <= Len(acks'.queue)
    BY <1>4, <1>5 DEF Tracked
  <1>7. /\ flow' = IF Settles(acks) THEN "idle" ELSE flow
        /\ Settles(acks) => flow = "awaiting" /\ acks.done = pastes
        /\ flow = "awaiting" => acks.done # NoChord
    <2>1. flow' = IF Settles(acks) THEN "idle" ELSE flow
      BY DEF Reply
    <2>2. Settles(acks) => flow = "awaiting" /\ acks.done = pastes
      BY DEF Settles, IInv, CallbackKept
    <2>3. flow = "awaiting" => acks.done # NoChord
      BY DEF IInv, CallbackKept, NoChord
    <2> QED
      BY <2>1, <2>2, <2>3
  <1>8. ASSUME flow' = "awaiting" PROVE \E n \in Nat : FinalAt(acks'.queue, n) /\ TrackedAt(n)'
    <2>1. flow = "awaiting" /\ ~Settles(acks)
      BY <1>7, <1>8
    <2>2. PICK n \in Nat : FinalAt(acks.queue, n) /\ TrackedAt(n)
      BY <2>1 DEF Tracked
    <2>3. n # 1
      <3>1. ~acks.queue[1].final
        BY <1>2, <1>4, <1>7, <2>1 DEF Settles
      <3>2. n \in 1..Len(acks.queue) /\ \A i \in 1..Len(acks.queue) : acks.queue[i].final <=> i = n
        BY <2>2 DEF FinalAt
      <3> QED
        BY <3>1, <3>2
    <2>4. FinalAt(Popped.queue, n - 1)
      BY <1>3, <1>4, <2>2, <2>3, FinalPop
    <2>5. FinalAt(acks'.queue, n - 1)
      BY <1>2, <1>3, <2>4, FinalSent
    <2>6. n - 1 \in Nat /\ n > 1 /\ n <= (n - 1) + 1
      BY <2>2, <2>3 DEF FinalAt
    <2>7. TrackedAt(n - 1)'
      BY <1>1, <2>2, <2>6, PopTracks
    <2> QED
      BY <2>5, <2>6, <2>7
  <1>9. ASSUME flow' = "paced", Going', Pressed' PROVE TrackedAt(Len(acks.queue) + 1)'
    <2>1. flow = "paced" /\ Going /\ Pressed
      <3>1. flow = "paced" /\ Pressed /\ PacedShape
        BY <1>2, <1>7, <1>9 DEF Pressed, Core, Device
      <3>2. UNCHANGED <<sock, teardown>> /\ replies # <<>>
        BY <1>1 DEF Answered
      <3> QED
        BY <1>9, <3>1, <3>2 DEF PacedShape, Going, Lane
    <2>2. PICK n \in Nat : n = Len(acks.queue) + 1
      BY <1>4
    <2>3. PICK m \in Nat : m = Len(acks'.queue) + 1
      BY <1>4, <1>5
    <2>4. TrackedAt(n)
      BY <2>1, <2>2 DEF Tracked
    <2>5. n > 1 /\ n <= m + 1
      BY <1>4, <1>5, <2>2, <2>3
    <2>6. TrackedAt(m)'
      BY <1>1, <2>4, <2>5, PopTracks
    <2> QED
      BY <2>3, <2>6
  <1>10. ASSUME Settles(acks), Succeeds(acks, Head(replies).word)
         PROVE  acks.done = pastes /\ pastes \in landed
    <2>1. PICK n \in Nat : FinalAt(acks.queue, n) /\ TrackedAt(n)
      BY <1>7, <1>10 DEF Tracked
    <2>2. n = 1
      BY <1>4, <1>10, <2>1 DEF FinalAt, Settles
    <2>3. ~acks.error
      BY <1>10, <1>2, PoppedIs DEF Succeeds, Popped, Word
    <2>4. /\ ~\E i \in 1..Len(replies) : i < n
          /\ ~(Len(replies) < n)
          /\ ~\E i \in 1..Len(Here) : Len(replies) + i < n
      BY <1>3, <2>2
    <2>5. pastes \in landed
      BY <2>1, <2>3, <2>4 DEF TrackedAt
    <2> QED
      BY <1>7, <1>10, <2>5
  <1> QED
    BY <1>6, <1>8, <1>9, <1>10 DEF Tracked

-----------------------------------------------------------------------------
(* A callback hears of success only where the key was pressed. *)
LEMMA ToldOk ==
    ASSUME IInv, OkLanded, NEW p, NEW word, verdict' = Told(p, word),
           word \in {"failed", "timedOut"} \/ (word = "ok" /\ p \in landed),
           landed \subseteq landed'
    PROVE  OkLanded'
  <1>1. verdict \in [Pastes -> Said]
    BY DEF IInv
  <1>2. SUFFICES ASSUME NEW q \in Pastes, verdict'[q] = "ok" PROVE q \in landed'
    BY DEF OkLanded
  <1>3. CASE q = p
    <2>1. verdict'[q] = IF verdict[q] = "none" THEN word ELSE "twice"
      BY <1>1, <1>2, <1>3 DEF Told
    <2>2. word = "ok" /\ q \in landed
      BY <1>2, <1>3, <2>1
    <2> QED
      BY <2>2
  <1>4. CASE q # p
    <2>1. verdict'[q] = verdict[q]
      BY <1>1, <1>2, <1>4 DEF Told
    <2> QED
      BY <1>2, <2>1 DEF OkLanded
  <1> QED
    BY <1>3, <1>4

(* A step that tells no paste anything. *)
LEMMA SilentOk ==
    ASSUME OkLanded, verdict' = verdict, landed \subseteq landed'
    PROVE  OkLanded'
  BY DEF OkLanded

(* An abort tells the paste it failed. *)
LEMMA AbortOk ==
    ASSUME IInv, OkLanded, Aborted, landed' = landed
    PROVE  OkLanded'
  <1>1. CASE flow = "paced"
    BY <1>1, ToldOk, AbortedIs
  <1>2. CASE flow # "paced"
    BY <1>2, SilentOk, AbortedIs
  <1> QED
    BY <1>1, <1>2

(* A lost connection tells it that it timed out. *)
LEMMA LostOk ==
    ASSUME IInv, OkLanded, ConnectionLost, landed' = landed
    PROVE  OkLanded'
  <1>1. CASE acks.done # NoChord
    <2>1. verdict' = Told(acks.done, "timedOut")
      BY <1>1 DEF ConnectionLost
    <2> QED
      BY <2>1, ToldOk
  <1>2. CASE acks.done = NoChord
    BY <1>2, SilentOk DEF ConnectionLost
  <1> QED
    BY <1>1, <1>2

(* The user's writes and the panel's, and the abort that may come first. *)
LEMMA WriteLands ==
    ASSUME Core, IInv, Tracked, OkLanded, NEW lines \in Seq(Command), Emit(acks, lines),
           Aborted, UNCHANGED <<sock, epoch, teardown, fresh, replies, pastes, landed>>
    PROVE  Tracked' /\ OkLanded'
  <1>1. flow' # "paced" /\ (flow' = "awaiting" => flow = "awaiting")
    BY AbortedIs
  <1>2. Tracked'
    BY <1>1, WriteTracks
  <1> QED
    BY <1>2, AbortOk

(* The user's keys. *)
LEMMA UserLands ==
    ASSUME Core, IInv, Tracked, OkLanded, NextTick = TRUE,
           Press \/ ClickShift \/ ClosePanel
    PROVE  Tracked' /\ OkLanded'
  <1>0. Typed /\ AbortLines \in Seq(Command)
    BY Cleared DEF Core
  <1>1. CASE Press
    <2> DEFINE want == IF LockLeft THEN {"Shift"} ELSE {}
               press == [Down("A") EXCEPT !.want = want]
    <2>1. "A" \in Keys /\ want \in SUBSET Modifiers /\ 0 \in 0..MaxPastes
      BY PasteAssumption DEF Keys, Modifiers
    <2>2. press = [verb |-> "down", key |-> "A", of |-> 0, want |-> want]
      <3>1. Down("A") = [verb |-> "down", key |-> "A", of |-> 0, want |-> {}]
        BY <2>1, LineShape
      <3> QED
        BY <3>1
    <2>3. press \in Command
      BY <2>1, <2>2 DEF Command, Line
    <2>4. AbortLines \o <<press>> \in Seq(Command)
      BY <1>0, <2>3, OneIsLines, ConcatIsLines
    <2>5. Emit(acks, AbortLines \o <<press>>) /\ Aborted
          /\ UNCHANGED <<sock, epoch, teardown, fresh, replies, pastes, landed>>
      BY <1>1 DEF Press, User, link, device
    <2> QED
      BY <2>4, <2>5, WriteLands
  <1>2. CASE ClickShift
    <2> DEFINE turn == IF LockLeft THEN Up("Shift") ELSE Down("Shift")
    <2>1. "Shift" \in Keys
      BY DEF Keys, Modifiers
    <2>2. turn \in Command
      BY <2>1, LineShape
    <2>3. AbortLines \o <<turn>> \in Seq(Command)
      BY <1>0, <2>2, OneIsLines, ConcatIsLines
    <2>4. Emit(acks, AbortLines \o <<turn>>) /\ Aborted
          /\ UNCHANGED <<sock, epoch, teardown, fresh, replies, pastes, landed>>
      BY <1>2 DEF ClickShift, User, link, device
    <2> QED
      BY <2>3, <2>4, WriteLands
  <1>3. CASE ClosePanel
    <2> DEFINE lines == IF flow = "paced" THEN AbortLines ELSE ReleaseAll
    <2>1. lines \in Seq(Command)
      BY <1>0, ReleaseAllLifts DEF Typed
    <2>2. Emit(acks, lines) /\ Aborted
          /\ UNCHANGED <<sock, epoch, teardown, fresh, replies, pastes, landed>>
      BY <1>3 DEF ClosePanel, User, link, device
    <2> QED
      BY <2>1, <2>2, WriteLands
  <1> QED
    BY <1>1, <1>2, <1>3

(* The pacer's ticks. *)
LEMMA TickLands ==
    ASSUME Core, IInv, ChordShape, Tracked, OkLanded, NextTick = TRUE, Tick
    PROVE  Tracked' /\ OkLanded'
  <1>1. CASE AssumptionsHold
    <2>1. verdict' = verdict /\ landed' = landed
      BY <1>1 DEF Tick, device
    <2> QED
      BY <1>1, <2>1, SendTracks, SilentOk
  <1>2. CASE ~AssumptionsHold
    <2>1. /\ Emit(acks, AbortLines) /\ Aborted
          /\ UNCHANGED <<sock, epoch, teardown, fresh, replies, pastes, landed>>
      BY <1>2 DEF Tick, link, device, counts
    <2>2. AbortLines \in Seq(Command)
      BY Cleared
    <2> QED
      BY <2>1, <2>2, WriteLands
  <1> QED
    BY <1>1, <1>2

(* The lines a handler writes without an abort. *)
LEMMA PlainLands ==
    ASSUME Core, IInv, Tracked, OkLanded, Release \/ Install \/ HelloTimer
    PROVE  Tracked' /\ OkLanded'
  <1>1. verdict' = verdict /\ landed' = landed
    BY DEF Release, Install, HelloTimer, User, device
  <1>2. UNCHANGED <<flow, chord, sock, epoch, teardown, fresh, replies, pastes, landed,
                    verdict>>
    BY DEF Release, Install, HelloTimer, User, device, link, counts
  <1>3. \E line \in Command : Emit(acks, <<line>>)
    <2>1. Up("A") \in Command /\ Cmd("install") \in Command /\ Cmd("hello") \in Command
      BY LineShape, CmdShape DEF Keys
    <2> QED
      BY <2>1 DEF Release, Install, HelloTimer
  <1>4. PICK line \in Command : Emit(acks, <<line>>)
    BY <1>3
  <1>5. <<line>> \in Seq(Command)
    BY OneIsLines
  <1>6. Tracked'
    BY <1>2, <1>4, <1>5, WriteTracks
  <1> QED
    BY <1>2, <1>6, SilentOk

(* A click on an emoji. *)
LEMMA PasteLands ==
    ASSUME Core, IInv, OkLanded, NextTick = TRUE, Paste
    PROVE  Tracked' /\ OkLanded'
  <1>1. CASE PasteRefused
    <2>1. verdict' = Told(pastes', "failed") /\ landed' = landed
      BY <1>1, ClickIs DEF PasteRefused
    <2> QED
      BY <1>1, <2>1, RefusedTracks, ToldOk
  <1>2. ASSUME NEW kind \in Kinds, PasteAtOnce(kind) PROVE Tracked' /\ OkLanded'
    <2>1. verdict' = verdict /\ landed' = landed
      BY <1>2, ClickIs DEF PasteAtOnce
    <2> QED
      BY <1>2, <2>1, AtOnceTracks, SilentOk
  <1>3. ASSUME NEW kind \in Kinds, PastePaced(kind) PROVE Tracked' /\ OkLanded'
    <2>1. verdict' = verdict /\ landed' = landed
      BY <1>3, ClickIs DEF PastePaced
    <2> QED
      BY <1>3, <2>1, PacedTracks, SilentOk
  <1> QED
    BY <1>1, <1>2, <1>3 DEF Paste

(* A reply: the one word that says ok says it of a paste that landed. *)
LEMMA ReplyLands ==
    ASSUME Core, IInv, Tracked, OkLanded, Reply, NextTick = TRUE
    PROVE  Tracked' /\ OkLanded'
  <1>1. /\ Tracked'
        /\ Settles(acks) /\ Succeeds(acks, Head(replies).word) =>
                acks.done = pastes /\ pastes \in landed
    BY ReplyTracks
  <1>2. landed' = landed
    BY DEF Reply
  <1>3. CASE Settles(acks)
    <2>1. verdict' = Told(acks.done, IF Succeeds(acks, Head(replies).word)
                                     THEN "ok" ELSE "failed")
      BY <1>3 DEF Reply
    <2>2. CASE Succeeds(acks, Head(replies).word)
      <3>1. verdict' = Told(acks.done, "ok") /\ acks.done \in landed
        BY <1>1, <1>3, <2>1, <2>2
      <3> QED
        BY <1>1, <1>2, <3>1, ToldOk
    <2>3. CASE ~Succeeds(acks, Head(replies).word)
      <3>1. verdict' = Told(acks.done, "failed")
        BY <2>1, <2>3
      <3> QED
        BY <1>1, <1>2, <3>1, ToldOk
    <2> QED
      BY <2>2, <2>3
  <1>4. CASE ~Settles(acks)
    <2>1. verdict' = verdict
      BY <1>4 DEF Reply
    <2> QED
      BY <1>1, <1>2, <2>1, SilentOk
  <1> QED
    BY <1>3, <1>4

(* Every step keeps the chord tracked and its success honest. *)
LEMMA StepLands ==
    ASSUME IInv, Core, ChordShape, Tracked, OkLanded, [Next]_vars,
           NextTick = TRUE
    PROVE  Tracked' /\ OkLanded'
  <1>1. CASE Paste
    BY <1>1, PasteLands
  <1>2. CASE Tick
    BY <1>2, TickLands
  <1>3. CASE Press \/ ClickShift \/ ClosePanel
    BY <1>3, UserLands
  <1>4. CASE Release \/ Install \/ HelloTimer
    BY <1>4, PlainLands
  <1>5. ASSUME NEW e \in Epochs, Run(e) PROVE Tracked' /\ OkLanded'
    <2>1. verdict' = verdict
      BY <1>5 DEF Run
    <2> QED
      BY <1>5, <2>1, RunTracks, SilentOk
  <1>6. ASSUME NEW e \in Epochs, Depart(e) PROVE Tracked' /\ OkLanded'
    <2>1. verdict' = verdict /\ landed' = landed
      BY <1>6 DEF Depart
    <2> QED
      BY <1>6, <2>1, DepartTracks, SilentOk
  <1>7. CASE HelperDies
    <2>1. verdict' = verdict /\ landed' = landed
      BY <1>7 DEF HelperDies
    <2> QED
      BY <1>7, <2>1, DiesTracks, SilentOk
  <1>8. CASE Reply
    BY <1>8, ReplyLands
  <1>9. CASE Notice \/ Rebuild
    <2>1. ConnectionLost /\ landed' = landed
      BY <1>9 DEF Notice, Rebuild, device
    <2>2. ~Going'
      BY <1>9 DEF Notice, Rebuild, Dial, Going
    <2> QED
      BY <2>1, <2>2, LostTracks, LostOk
  <1>10. CASE Teardown
    <2>1. verdict' = verdict /\ landed' = landed
      BY <1>10 DEF Teardown, device
    <2> QED
      BY <1>10, <2>1, TeardownTracks, SilentOk
  <1>11. CASE RepairTick
    <2>1. verdict' = verdict /\ landed' = landed
      BY <1>11 DEF RepairTick, device
    <2> QED
      BY <1>11, <2>1, RepairTracks, SilentOk
  <1>12. CASE UNCHANGED vars
    <2>1. /\ UNCHANGED <<acks, flow, chord, replies, sock, epoch, teardown, fresh, pastes,
                          landed>>
          /\ verdict' = verdict /\ wire' = wire
      BY <1>12 DEF vars, panel, link, device, counts
    <2>2. Here' = Here
      BY <2>1 DEF Here
    <2> QED
      BY <2>1, <2>2, StillTracks, SilentOk
  <1> QED
    BY <1>1, <1>2, <1>3, <1>4, <1>5, <1>6, <1>7, <1>8, <1>9, <1>10, <1>11, <1>12 DEF Next

(* The first state has no paste. *)
LEMMA InitLands == ASSUME Init PROVE Tracked /\ OkLanded
  <1>1. acks = Initial /\ flow = "idle" /\ verdict = [p \in Pastes |-> "none"]
    BY DEF Init
  <1>2. acks.from = 0 /\ acks.queue = <<>>
    BY <1>1, InitialQueue
  <1> QED
    BY <1>1, <1>2 DEF Tracked, OkLanded

(* Every chord is tracked, and every success landed. *)
THEOREM LandedInvariant ==
    ASSUME NextTick = TRUE
    PROVE  Spec => [](Tracked /\ OkLanded)
  <1>1. Init => Tracked /\ OkLanded
    BY InitLands
  <1>2. IInv /\ HeldInv /\ Tracked /\ OkLanded /\ [Next]_vars => (Tracked /\ OkLanded)'
    BY StepLands DEF HeldInv
  <1> QED
    BY <1>1, <1>2, Invariant, HeldInvariant, PTL DEF Spec

(* SuccessMeansPasted: a paste reported as a success pressed its key, under exactly
   its own modifiers unless a keymap change was answered between two of its ticks. *)
THEOREM SuccessIsPasted ==
    ASSUME NextTick = TRUE
    PROVE  Spec => []SuccessMeansPasted
  <1>1. HeldInv /\ OkLanded => SuccessMeansPasted
    BY DEF HeldInv, OkLanded, SuccessMeansPasted
  <1> QED
    BY <1>1, HeldInvariant, LandedInvariant, PTL
=============================================================================
