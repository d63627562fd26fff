----------------------- MODULE CompositorOptions_proofs -----------------------
(***************************************************************************)
(* The panel beside the compositor.  That it gives back what it borrows,   *)
(* for any openings, reloads, failures and deaths: the machine never       *)
(* overlaps a read with a write, the hiding of the cursor ends where the   *)
(* user last set it, and so do the gaps (CompositorOptions).  And that it  *)
(* follows the seat's layout only where the user leads, for any keyboards, *)
(* bursts, clicks and lost connections (LayoutFollow).                     *)
(***************************************************************************)
EXTENDS CompositorOptions, LayoutFollow, FiniteSetTheorems, TLAPS

Kinds == {"probe", "restore"}

Machines ==
    [seq : Nat, opened : BOOLEAN, probeSeq : Nat, restoreSeq : Nat, writeSeq : Nat,
     probeQueued : BOOLEAN, restoreQueued : BOOLEAN, undoing : BOOLEAN,
     overrideLive : BOOLEAN, reloadDuringWrite : BOOLEAN]

(* The machine asks for one thing at a time, by a generation of its own.    *)
Turns(x) ==
    /\ x \in Machines
    /\ x.probeSeq <= x.seq /\ x.restoreSeq <= x.seq /\ x.writeSeq <= x.seq
    /\ x.writeSeq # 0 => x.probeSeq = 0 /\ x.restoreSeq = 0
    /\ x.probeSeq # 0 => x.restoreSeq = 0 /\ x.opened
    /\ x.reloadDuringWrite \/ x.undoing => x.writeSeq # 0
    /\ x.restoreSeq # 0 => x.overrideLive

(* What a step of the machine x asks of the host: nothing, and then at most *)
(* drops what it asked for; a read of a new generation; or a write in its   *)
(* read's place.                                                            *)
Quiets(x, r) ==
    /\ r.act = NoAct /\ r.m.seq = x.seq
    /\ r.m.probeSeq \in {0, x.probeSeq} /\ r.m.restoreSeq \in {0, x.restoreSeq}
    /\ r.m.writeSeq \in {0, x.writeSeq}
    /\ r.m.writeSeq # 0 => r.m.undoing = x.undoing

Reads(x, r) ==
    /\ \E kind \in Kinds : r.act = ReadAct(kind, x.seq + 1)
    /\ r.m.seq = x.seq + 1 /\ r.m.writeSeq = 0
    /\ r.m.probeSeq \in {0, x.seq + 1} /\ r.m.restoreSeq \in {0, x.seq + 1}

Wrote(x, r) ==
    /\ r.act = WriteAct(r.m.undoing, r.m.writeSeq)
    /\ x.writeSeq = 0 /\ r.m.writeSeq # 0 /\ r.m.seq = x.seq

-----------------------------------------------------------------------------
(* The machine.                                                             *)

(* What a step leaves of the machine, but for what it asks and its turn.    *)
Alike(x, y) ==
    /\ y.overrideLive = x.overrideLive /\ y.undoing = x.undoing
    /\ y.reloadDuringWrite = x.reloadDuringWrite /\ y.writeSeq = x.writeSeq

Stands(x, y) == Alike(x, y) /\ y.opened = x.opened /\ y.restoreQueued = x.restoreQueued

LEMMA ProbeAsks ==
  ASSUME NEW x \in Machines, x.opened, x.restoreSeq = 0, x.writeSeq = 0,
         ~x.reloadDuringWrite, ~x.undoing
  PROVE  LET r == startProbe(x)
         IN  /\ Turns(r.m) /\ Reads(x, r) /\ Stands(x, r.m)
             /\ r.m.restoreSeq = 0
<1> DEFINE n == x.seq + 1
           y == [x EXCEPT !.seq = n, !.probeSeq = n]
           a == ReadAct("probe", n)
<1>2. startProbe(x) = [m |-> y, act |-> a]
  BY DEF startProbe
<1>3. x.seq \in Nat /\ n \in Nat /\ n = x.seq + 1
  BY DEF Machines
<1> HIDE DEF n
<1>1. /\ y \in Machines /\ y.seq = n /\ y.probeSeq = n
      /\ y.restoreSeq = x.restoreSeq /\ Stands(x, y)
  BY <1>3 DEF Machines, Stands, Alike
<1> HIDE DEF y
<1>4. Turns(y)
  BY <1>1, <1>3 DEF Turns, Stands, Alike
<1>5. Reads(x, [m |-> y, act |-> a])
  BY <1>1, <1>3 DEF Reads, Kinds, Stands, Alike
<1> QED  BY <1>1, <1>2, <1>4, <1>5

LEMMA RestoreAsks ==
  ASSUME NEW x \in Machines, x.probeSeq = 0, x.writeSeq = 0, x.overrideLive,
         ~x.reloadDuringWrite, ~x.undoing
  PROVE  LET r == startRestore(x)
         IN  /\ Turns(r.m) /\ Reads(x, r) /\ Stands(x, r.m)
             /\ r.m.restoreSeq # 0
<1> DEFINE n == x.seq + 1
           y == [x EXCEPT !.seq = n, !.restoreSeq = n]
           a == ReadAct("restore", n)
<1>2. startRestore(x) = [m |-> y, act |-> a]
  BY DEF startRestore
<1>3. x.seq \in Nat /\ n \in Nat /\ n = x.seq + 1
  BY DEF Machines
<1> HIDE DEF n
<1>1. /\ y \in Machines /\ y.seq = n /\ y.restoreSeq = n
      /\ y.probeSeq = x.probeSeq /\ Stands(x, y)
  BY <1>3 DEF Machines, Stands, Alike
<1> HIDE DEF y
<1>4. Turns(y)
  BY <1>1, <1>3 DEF Turns, Stands, Alike
<1>5. Reads(x, [m |-> y, act |-> a])
  BY <1>1, <1>3 DEF Reads, Kinds, Stands, Alike
<1> QED  BY <1>1, <1>2, <1>3, <1>4, <1>5

LEMMA OpenAsks ==
  ASSUME NEW x, Turns(x), ~x.opened
  PROVE  LET r == open(x)
         IN  /\ Turns(r.m) /\ (Quiets(x, r) \/ Reads(x, r))
             /\ Alike(x, r.m) /\ r.m.opened
<1> DEFINE o == [x EXCEPT !.opened = TRUE]
           q == [o EXCEPT !.probeQueued = TRUE]
<1>1. /\ o \in Machines /\ o.seq = x.seq /\ o.probeSeq = x.probeSeq
      /\ o.restoreSeq = x.restoreSeq /\ Alike(x, o) /\ o.opened = TRUE
  BY DEF Turns, Machines, Alike
<1> HIDE DEF o
<1>2. /\ q \in Machines /\ q.seq = x.seq /\ q.probeSeq = x.probeSeq
      /\ q.restoreSeq = x.restoreSeq /\ Alike(x, q) /\ q.opened = TRUE
  BY <1>1 DEF Machines, Alike
<1> HIDE DEF q
<1>3. Turns(o) /\ Quiets(x, Quietly(o)) /\ Turns(q) /\ Quiets(x, Quietly(q))
  BY <1>1, <1>2 DEF Turns, Quiets, Quietly, Alike
<1>4. CASE x.restoreSeq # 0 \/ x.writeSeq # 0
  BY <1>1, <1>2, <1>3, <1>4 DEF open, Quietly, o, q
<1>5. CASE x.restoreSeq = 0 /\ x.writeSeq = 0
  <2>1. ~o.reloadDuringWrite /\ ~o.undoing /\ o.writeSeq = 0 /\ o.restoreSeq = 0
    BY <1>1, <1>5 DEF Turns, Alike
  <2>2. LET r == startProbe(o) IN Turns(r.m) /\ Reads(o, r) /\ Stands(o, r.m)
    BY <1>1, <2>1, ProbeAsks
  <2>3. LET r == startProbe(o) IN Turns(r.m) /\ Reads(x, r) /\ Alike(x, r.m) /\ r.m.opened
    BY <1>1, <2>2 DEF Reads, Stands, Alike
  <2> QED  BY <1>1, <1>3, <1>5, <2>3 DEF open, Quietly, o
<1> QED  BY <1>4, <1>5 DEF Turns, Machines

LEMMA CloseAsks ==
  ASSUME NEW x, Turns(x)
  PROVE  LET r == close(x)
         IN  /\ Turns(r.m) /\ (Quiets(x, r) \/ Reads(x, r))
             /\ Alike(x, r.m) /\ ~r.m.opened
             /\ x.overrideLive => \/ r.m.restoreSeq # 0
                                  \/ r.m.writeSeq # 0 /\ r.m.restoreQueued
<1> DEFINE c == [x EXCEPT !.opened = FALSE, !.probeSeq = 0, !.probeQueued = FALSE]
           q == [c EXCEPT !.restoreQueued = TRUE]
<1>1. /\ c \in Machines /\ c.seq = x.seq /\ c.probeSeq = 0 /\ c.restoreSeq = x.restoreSeq
      /\ Alike(x, c) /\ c.opened = FALSE
  BY DEF Turns, Machines, Alike
<1> HIDE DEF c
<1>2. /\ q \in Machines /\ q.seq = x.seq /\ q.probeSeq = 0 /\ q.restoreSeq = x.restoreSeq
      /\ Alike(x, q) /\ q.opened = FALSE /\ q.restoreQueued = TRUE
  BY <1>1 DEF Machines, Alike
<1> HIDE DEF q
<1>3. Turns(c) /\ Quiets(x, Quietly(c)) /\ Turns(q) /\ Quiets(x, Quietly(q))
  BY <1>1, <1>2 DEF Turns, Quiets, Quietly, Alike
<1>4. CASE ~x.overrideLive
  BY <1>1, <1>3, <1>4 DEF close, Quietly, c
<1>5. CASE x.overrideLive /\ x.writeSeq # 0
  BY <1>2, <1>3, <1>5 DEF close, Quietly, c, q, Alike
<1>6. CASE x.overrideLive /\ x.writeSeq = 0
  <2>1. ~c.reloadDuringWrite /\ ~c.undoing /\ c.writeSeq = 0 /\ c.overrideLive
    BY <1>1, <1>6 DEF Turns, Alike
  <2>2. LET r == startRestore(c)
        IN  Turns(r.m) /\ Reads(c, r) /\ Stands(c, r.m) /\ r.m.restoreSeq # 0
    BY <1>1, <2>1, RestoreAsks
  <2>3. LET r == startRestore(c)
        IN  /\ Turns(r.m) /\ Reads(x, r) /\ Alike(x, r.m) /\ ~r.m.opened
            /\ r.m.restoreSeq # 0
    BY <1>1, <2>2 DEF Reads, Stands, Alike
  <2> QED  BY <1>6, <2>3 DEF close, c
<1> QED  BY <1>4, <1>5, <1>6

(* The answer of the read asked for, `enabled` or a failure: the override is *)
(* written, or its undo, or there is nothing to write.                      *)
Answers(x, r, enabled) ==
    /\ r.m.opened = x.opened /\ ~r.m.reloadDuringWrite
    /\ \/ /\ Wrote(x, r) /\ ~r.m.undoing /\ r.m.overrideLive /\ enabled = "TRUE"
          /\ x.opened /\ r.m.writeSeq = x.probeSeq
       \/ Wrote(x, r) /\ r.m.undoing /\ r.m.overrideLive /\ x.overrideLive
       \/ Quiets(x, r) /\ r.m.overrideLive = x.overrideLive /\ x.opened
       \/ (Quiets(x, r) \/ Reads(x, r)) /\ ~r.m.overrideLive /\ enabled = "TRUE"

LEMMA ProbeAnswers ==
  ASSUME NEW x, Turns(x), x.probeSeq # 0, NEW enabled
  PROVE  LET r == ProbeAnswered(x, x.probeSeq, enabled)
         IN  Turns(r.m) /\ Answers(x, r, enabled)
<1> DEFINE p == [x EXCEPT !.probeSeq = 0]
           o == [p EXCEPT !.overrideLive = TRUE]
           w == [o EXCEPT !.writeSeq = x.probeSeq, !.undoing = FALSE]
<1>1. /\ x.probeSeq \in Nat /\ x.opened = TRUE /\ x.restoreSeq = 0 /\ x.writeSeq = 0
      /\ x.reloadDuringWrite = FALSE
  BY DEF Turns, Machines
<1>2. p \in Machines /\ p.seq = x.seq /\ p.probeSeq = 0 /\ p.restoreSeq = x.restoreSeq
      /\ Stands(x, p)
  BY DEF Turns, Machines, Stands, Alike
<1> HIDE DEF p
<1>3. /\ w \in Machines /\ w.seq = p.seq /\ w.probeSeq = 0 /\ w.restoreSeq = p.restoreSeq
      /\ w.writeSeq = x.probeSeq /\ w.undoing = FALSE /\ w.overrideLive = TRUE
      /\ w.opened = p.opened /\ w.reloadDuringWrite = p.reloadDuringWrite
  BY <1>1, <1>2 DEF Machines
<1>4. CASE enabled = "TRUE"
  <2>1. ProbeAnswered(x, x.probeSeq, enabled) = [m |-> w, act |-> WriteAct(FALSE, x.probeSeq)]
    BY <1>4 DEF ProbeAnswered, Writes, p
  <2> HIDE DEF w
  <2>2. Turns(w)
    BY <1>1, <1>2, <1>3 DEF Turns, Stands, Alike
  <2>3. /\ Wrote(x, [m |-> w, act |-> WriteAct(FALSE, x.probeSeq)])
        /\ w.opened = x.opened /\ w.overrideLive /\ ~w.undoing
        /\ w.writeSeq = x.probeSeq /\ ~w.reloadDuringWrite
    BY <1>1, <1>2, <1>3 DEF Wrote, Stands, Alike
  <2> QED  BY <1>1, <1>4, <2>1, <2>2, <2>3 DEF Answers
<1>5. CASE enabled # "TRUE"
  <2>1. ProbeAnswered(x, x.probeSeq, enabled) = Quietly(p)
    BY <1>5 DEF ProbeAnswered, p
  <2>2. Turns(p) /\ Quiets(x, Quietly(p)) /\ p.overrideLive = x.overrideLive
    BY <1>1, <1>2 DEF Turns, Quiets, Quietly, Stands, Alike
  <2> QED  BY <1>1, <1>2, <2>1, <2>2 DEF Answers, Quietly, Stands, Alike
<1> QED  BY <1>4, <1>5

LEMMA RestoreAnswers ==
  ASSUME NEW x, Turns(x), x.restoreSeq # 0, NEW enabled
  PROVE  LET r == RestoreAnswered(x, x.restoreSeq, enabled)
         IN  Turns(r.m) /\ Answers(x, r, enabled)
<1> DEFINE c == [x EXCEPT !.restoreSeq = 0]
           o == [c EXCEPT !.probeQueued = FALSE]
           f == Forgotten(c)
           fo == Forgotten(o)
           w == [c EXCEPT !.writeSeq = x.restoreSeq, !.undoing = TRUE]
<1>1. /\ x.restoreSeq \in Nat /\ x.probeSeq = 0 /\ x.writeSeq = 0 /\ x.overrideLive
      /\ x.reloadDuringWrite = FALSE /\ x.undoing = FALSE
  BY DEF Turns, Machines
<1>2. /\ c \in Machines /\ c.seq = x.seq /\ c.probeSeq = x.probeSeq /\ c.restoreSeq = 0
      /\ Stands(x, c)
  BY DEF Turns, Machines, Stands, Alike
<1> HIDE DEF c
<1>3. /\ o \in Machines /\ o.seq = x.seq /\ o.probeSeq = x.probeSeq /\ o.restoreSeq = 0
      /\ Stands(x, o)
  BY <1>2 DEF Machines, Stands, Alike
<1>4. /\ w \in Machines /\ w.seq = c.seq /\ w.probeSeq = c.probeSeq /\ w.restoreSeq = 0
      /\ w.writeSeq = x.restoreSeq /\ w.undoing = TRUE /\ w.overrideLive = c.overrideLive
      /\ w.opened = c.opened /\ w.reloadDuringWrite = c.reloadDuringWrite
  BY <1>1, <1>2 DEF Machines
<1> HIDE DEF o
<1>5. \A y \in Machines :
        /\ Forgotten(y) \in Machines /\ Forgotten(y).seq = y.seq
        /\ Forgotten(y).probeSeq = y.probeSeq /\ Forgotten(y).restoreSeq = y.restoreSeq
        /\ Forgotten(y).writeSeq = y.writeSeq /\ Forgotten(y).undoing = y.undoing
        /\ Forgotten(y).opened = y.opened /\ Forgotten(y).overrideLive = FALSE
        /\ Forgotten(y).reloadDuringWrite = y.reloadDuringWrite
  BY DEF Machines, Forgotten
<1>6. CASE x.opened /\ enabled = "TRUE"
  <2>1. RestoreAnswered(x, x.restoreSeq, enabled) = startProbe(fo)
    BY <1>6 DEF RestoreAnswered, o, c
  <2>2. /\ fo \in Machines /\ fo.seq = x.seq /\ fo.probeSeq = 0 /\ fo.restoreSeq = 0
        /\ fo.writeSeq = 0 /\ fo.opened = x.opened /\ fo.overrideLive = FALSE
        /\ fo.reloadDuringWrite = FALSE /\ fo.undoing = FALSE
    BY <1>1, <1>3, <1>5 DEF Stands, Alike
  <2> HIDE DEF fo
  <2>3. LET r == startProbe(fo) IN Turns(r.m) /\ Reads(fo, r) /\ Stands(fo, r.m)
    BY <1>6, <2>2, ProbeAsks
  <2>4. LET r == startProbe(fo)
        IN  /\ Turns(r.m) /\ Reads(x, r) /\ r.m.opened = x.opened /\ ~r.m.overrideLive
            /\ ~r.m.reloadDuringWrite
    BY <2>2, <2>3 DEF Reads, Stands, Alike
  <2> QED  BY <1>6, <2>1, <2>4 DEF Answers
<1>7. CASE x.opened /\ enabled # "TRUE"
  <2>1. RestoreAnswered(x, x.restoreSeq, enabled) = Quietly(o)
    BY <1>7 DEF RestoreAnswered, o, c
  <2>2. Turns(o) /\ Quiets(x, Quietly(o)) /\ o.overrideLive = x.overrideLive
    BY <1>1, <1>3 DEF Turns, Quiets, Quietly, Stands, Alike
  <2>3. Quietly(o).m = o
    BY DEF Quietly
  <2>4. Answers(x, Quietly(o), enabled)
    BY <1>1, <1>3, <1>7, <2>2, <2>3 DEF Answers, Stands, Alike
  <2> QED  BY <2>1, <2>2, <2>3, <2>4
<1>8. CASE ~x.opened /\ enabled = "TRUE"
  <2>1. RestoreAnswered(x, x.restoreSeq, enabled) = Quietly(f)
    BY <1>8 DEF RestoreAnswered, c
  <2>2. /\ f \in Machines /\ f.seq = x.seq /\ f.probeSeq = 0 /\ f.restoreSeq = 0
        /\ f.writeSeq = 0 /\ f.opened = x.opened /\ f.overrideLive = FALSE
        /\ f.reloadDuringWrite = FALSE /\ f.undoing = FALSE
    BY <1>1, <1>2, <1>5 DEF Stands, Alike
  <2> HIDE DEF f
  <2>3. Turns(f) /\ Quiets(x, Quietly(f))
    BY <1>1, <2>2 DEF Turns, Machines, Quiets, Quietly
  <2> QED  BY <1>8, <2>1, <2>2, <2>3 DEF Answers, Quietly
<1>9. CASE ~x.opened /\ enabled # "TRUE"
  <2>1. RestoreAnswered(x, x.restoreSeq, enabled) = [m |-> w, act |-> WriteAct(TRUE, x.restoreSeq)]
    BY <1>9 DEF RestoreAnswered, Writes, c
  <2> HIDE DEF w
  <2>2. Turns(w)
    BY <1>1, <1>2, <1>4 DEF Turns, Stands, Alike
  <2> DEFINE r == [m |-> w, act |-> WriteAct(TRUE, x.restoreSeq)]
  <2>3. /\ Wrote(x, r) /\ r.m = w
        /\ w.opened = x.opened /\ w.overrideLive = x.overrideLive /\ w.undoing = TRUE
        /\ w.reloadDuringWrite = FALSE
    BY <1>1, <1>2, <1>4 DEF Wrote, Stands, Alike
  <2> HIDE DEF r
  <2>4. Answers(x, r, enabled)
    BY <1>1, <2>3 DEF Answers
  <2> QED  BY <2>1, <2>2, <2>3, <2>4 DEF r
<1> QED  BY <1>6, <1>7, <1>8, <1>9 DEF Turns, Machines

LEMMA Forgets ==
  ASSUME NEW y \in Machines
  PROVE  /\ Forgotten(y) \in Machines /\ Forgotten(y).seq = y.seq
         /\ Forgotten(y).probeSeq = y.probeSeq /\ Forgotten(y).restoreSeq = y.restoreSeq
         /\ Forgotten(y).writeSeq = y.writeSeq /\ Forgotten(y).undoing = y.undoing
         /\ Forgotten(y).opened = y.opened /\ Forgotten(y).overrideLive = FALSE
         /\ Forgotten(y).reloadDuringWrite = y.reloadDuringWrite
  BY DEF Machines, Forgotten

(* With nothing in flight, a queued probe is asked now or stays queued.     *)
LEMMA ResumeAsks ==
  ASSUME NEW x \in Machines, NEW y, x.restoreSeq = 0, x.writeSeq = 0, x.probeSeq = 0,
         x.reloadDuringWrite = FALSE, x.undoing = FALSE, Turns(y), x.seq = y.seq
  PROVE  LET r == resumeProbeIfQueued(x)
         IN  /\ Turns(r.m) /\ (Quiets(y, r) \/ Reads(y, r)) /\ Stands(x, r.m)
<1> DEFINE q == [x EXCEPT !.probeQueued = FALSE]
<1>1. Turns(x) /\ Quiets(y, Quietly(x)) /\ Stands(x, Quietly(x).m) /\ Quietly(x).m = x
  BY DEF Turns, Machines, Quiets, Quietly, Stands, Alike
<1>2. CASE ~(x.probeQueued /\ x.opened)
  BY <1>1, <1>2 DEF resumeProbeIfQueued
<1>3. CASE x.probeQueued /\ x.opened
  <2>1. resumeProbeIfQueued(x) = startProbe(q)
    BY <1>3 DEF resumeProbeIfQueued
  <2>2. /\ q \in Machines /\ q.seq = x.seq /\ q.probeSeq = 0 /\ q.restoreSeq = 0
        /\ Stands(x, q)
    BY DEF Machines, Stands, Alike
  <2> HIDE DEF q
  <2>3. LET r == startProbe(q) IN Turns(r.m) /\ Reads(q, r) /\ Stands(q, r.m)
    BY <1>3, <2>2, ProbeAsks DEF Stands, Alike
  <2>4. LET r == startProbe(q) IN Turns(r.m) /\ Reads(y, r) /\ Stands(x, r.m)
    BY <2>2, <2>3 DEF Reads, Stands, Alike
  <2> QED  BY <2>1, <2>4
<1> QED  BY <1>2, <1>3

(* A reload: the write under way is marked, and otherwise all is forgotten. *)
LEMMA ReloadAsks ==
  ASSUME NEW x, Turns(x)
  PROVE  LET r == configReloaded(x)
         IN  /\ Turns(r.m) /\ (Quiets(x, r) \/ Reads(x, r)) /\ r.m.opened = x.opened
             /\ r.m.undoing = x.undoing /\ r.m.writeSeq = x.writeSeq
             /\ IF x.writeSeq # 0
                THEN r.m.reloadDuringWrite /\ r.m.overrideLive = x.overrideLive
                ELSE ~r.m.reloadDuringWrite /\ ~r.m.overrideLive
<1> DEFINE w == [x EXCEPT !.reloadDuringWrite = TRUE]
           g == Forgotten(x)
           f == [g EXCEPT !.restoreSeq = 0, !.probeSeq = 0]
<1>1. CASE x.writeSeq # 0
  <2>1. configReloaded(x) = Quietly(w)
    BY <1>1 DEF configReloaded
  <2>2. /\ w \in Machines /\ w.seq = x.seq /\ w.probeSeq = x.probeSeq
        /\ w.restoreSeq = x.restoreSeq /\ w.writeSeq = x.writeSeq /\ w.undoing = x.undoing
        /\ w.opened = x.opened /\ w.overrideLive = x.overrideLive /\ w.reloadDuringWrite = TRUE
    BY DEF Turns, Machines
  <2> HIDE DEF w
  <2>3. Turns(w) /\ Quiets(x, Quietly(w)) /\ Quietly(w).m = w
    BY <1>1, <2>2 DEF Turns, Quiets, Quietly
  <2> QED  BY <1>1, <2>1, <2>2, <2>3
<1>2. CASE x.writeSeq = 0
  <2>0. x.undoing = FALSE
    BY <1>2 DEF Turns, Machines
  <2>1. configReloaded(x) = IF x.opened /\ ~x.probeQueued THEN startProbe(f)
                                                           ELSE resumeProbeIfQueued(f)
    BY <1>2 DEF configReloaded
  <2>2. /\ g \in Machines /\ g.seq = x.seq /\ g.writeSeq = 0 /\ g.undoing = FALSE
        /\ g.opened = x.opened /\ g.overrideLive = FALSE /\ g.reloadDuringWrite = FALSE
    BY <1>2, Forgets DEF Turns, Machines
  <2> HIDE DEF g
  <2>3. /\ f \in Machines /\ f.seq = x.seq /\ f.probeSeq = 0 /\ f.restoreSeq = 0
        /\ f.writeSeq = 0 /\ f.undoing = FALSE /\ f.opened = x.opened
        /\ f.overrideLive = FALSE /\ f.reloadDuringWrite = FALSE
    BY <2>2 DEF Machines
  <2> HIDE DEF f
  <2>4. CASE x.opened /\ ~x.probeQueued
    <3>1. LET r == startProbe(f) IN Turns(r.m) /\ Reads(f, r) /\ Stands(f, r.m)
      BY <2>3, <2>4, ProbeAsks
    <3> DEFINE r == startProbe(f)
    <3>2. configReloaded(x) = r
      BY <2>1, <2>4
    <3> HIDE DEF r
    <3>3. Turns(r.m) /\ Reads(x, r) /\ Stands(f, r.m)
      BY <2>3, <3>1 DEF Reads, r
    <3>4. /\ r.m.opened = x.opened /\ r.m.undoing = FALSE /\ r.m.writeSeq = 0
          /\ ~r.m.reloadDuringWrite /\ ~r.m.overrideLive
      BY <2>3, <3>3 DEF Stands, Alike
    <3> QED  BY <1>2, <2>0, <3>2, <3>3, <3>4
  <2>5. CASE ~(x.opened /\ ~x.probeQueued)
    <3>1. LET r == resumeProbeIfQueued(f)
          IN  Turns(r.m) /\ (Quiets(x, r) \/ Reads(x, r)) /\ Stands(f, r.m)
      BY <2>3, ResumeAsks
    <3> DEFINE r == resumeProbeIfQueued(f)
    <3>2. configReloaded(x) = r
      BY <2>1, <2>5
    <3> HIDE DEF r
    <3>3. /\ r.m.opened = x.opened /\ r.m.undoing = FALSE /\ r.m.writeSeq = 0
          /\ ~r.m.reloadDuringWrite /\ ~r.m.overrideLive
      BY <2>3, <3>1 DEF Stands, Alike, r
    <3> QED  BY <1>2, <2>0, <3>1, <3>2, <3>3 DEF r
  <2> QED  BY <2>4, <2>5
<1> QED  BY <1>1, <1>2

(* A write that ended: the override it leaves, and the verify it owes.      *)
LEMMA WriteAsks ==
  ASSUME NEW x, Turns(x), x.writeSeq # 0, NEW ok \in BOOLEAN
  PROVE  LET r == writeResult(x, x.writeSeq, ok)
         IN  /\ Turns(r.m) /\ (Quiets(x, r) \/ Reads(x, r)) /\ r.m.opened = x.opened
             /\ r.m.writeSeq = 0
             /\ r.m.overrideLive => /\ x.overrideLive /\ ok # x.undoing /\ ~x.reloadDuringWrite
                                    /\ ~x.opened /\ x.restoreQueued => r.m.restoreSeq # 0
             /\ ~r.m.overrideLive => ~x.overrideLive \/ x.reloadDuringWrite \/ ok = x.undoing
<1> DEFINE z == [x EXCEPT !.writeSeq = 0]
           w == Settled(z, ok)
           q == [w EXCEPT !.restoreQueued = FALSE]
           g == Forgotten(q)
           a == [g EXCEPT !.reloadDuringWrite = FALSE]
           b == [a EXCEPT !.probeQueued = FALSE]
<1>1. /\ z \in Machines /\ z.seq = x.seq /\ z.probeSeq = 0 /\ z.restoreSeq = 0
      /\ z.writeSeq = 0 /\ z.undoing = x.undoing /\ z.opened = x.opened
      /\ z.overrideLive = x.overrideLive /\ z.reloadDuringWrite = x.reloadDuringWrite
  BY DEF Turns, Machines
<1>2. writeResult(x, x.writeSeq, ok) =
        IF x.reloadDuringWrite
        THEN IF x.opened THEN startProbe(b) ELSE Quietly(a)
        ELSE IF ~x.restoreQueued \/ x.opened THEN resumeProbeIfQueued(q)
        ELSE IF w.overrideLive THEN startRestore(q) ELSE Quietly(q)
  BY DEF writeResult
<1> HIDE DEF z
<1> DEFINE l == z.overrideLive /\ (ok # z.undoing)
<1>3. w = [z EXCEPT !.overrideLive = l, !.undoing = FALSE]
  BY DEF Settled
<1>4. l \in BOOLEAN
  BY <1>1 DEF Machines
<1>5. l <=> x.overrideLive /\ ok # x.undoing
  BY <1>1
<1> HIDE DEF w, l
<1>6. /\ w \in Machines /\ w.seq = x.seq /\ w.probeSeq = 0 /\ w.restoreSeq = 0
      /\ w.writeSeq = 0 /\ w.undoing = FALSE /\ w.opened = x.opened
      /\ w.overrideLive = l /\ w.reloadDuringWrite = x.reloadDuringWrite
  BY <1>1, <1>3, <1>4 DEF Machines
<1>7. /\ q \in Machines /\ q.seq = x.seq /\ q.probeSeq = 0 /\ q.restoreSeq = 0
      /\ q.writeSeq = 0 /\ q.undoing = FALSE /\ q.opened = x.opened
      /\ q.overrideLive = l /\ q.reloadDuringWrite = x.reloadDuringWrite
  BY <1>6 DEF Machines
<1> HIDE DEF q
<1>8. CASE x.reloadDuringWrite
  <2>1. /\ g \in Machines /\ g.seq = x.seq /\ g.probeSeq = 0 /\ g.restoreSeq = 0
        /\ g.writeSeq = 0 /\ g.undoing = FALSE /\ g.opened = x.opened /\ g.overrideLive = FALSE
    BY <1>7, Forgets
  <2> HIDE DEF g
  <2>2. /\ a \in Machines /\ a.seq = x.seq /\ a.probeSeq = 0 /\ a.restoreSeq = 0
        /\ a.writeSeq = 0 /\ a.undoing = FALSE /\ a.opened = x.opened
        /\ a.overrideLive = FALSE /\ a.reloadDuringWrite = FALSE
    BY <2>1 DEF Machines
  <2> HIDE DEF a
  <2>3. /\ b \in Machines /\ b.seq = x.seq /\ b.probeSeq = 0 /\ b.restoreSeq = 0
        /\ b.writeSeq = 0 /\ b.undoing = FALSE /\ b.opened = x.opened
        /\ b.overrideLive = FALSE /\ b.reloadDuringWrite = FALSE
    BY <2>2 DEF Machines
  <2> HIDE DEF b
  <2>4. CASE x.opened
    <3>1. LET r == startProbe(b) IN Turns(r.m) /\ Reads(b, r) /\ Stands(b, r.m)
      BY <2>3, <2>4, ProbeAsks
    <3>2. LET r == startProbe(b) IN Turns(r.m) /\ Reads(x, r) /\ Stands(b, r.m)
      BY <2>3, <3>1 DEF Reads
    <3> QED  BY <1>2, <1>8, <2>3, <2>4, <3>2 DEF Stands, Alike
  <2>5. CASE ~x.opened
    <3>1. Turns(a) /\ Quiets(x, Quietly(a)) /\ Quietly(a).m = a
      BY <2>2 DEF Turns, Machines, Quiets, Quietly
    <3> QED  BY <1>2, <1>8, <2>2, <2>5, <3>1
  <2> QED  BY <2>4, <2>5
<1>9. CASE ~x.reloadDuringWrite /\ (~x.restoreQueued \/ x.opened)
  <2>1. LET r == resumeProbeIfQueued(q)
        IN  Turns(r.m) /\ (Quiets(x, r) \/ Reads(x, r)) /\ Stands(q, r.m)
    BY <1>7, <1>9, ResumeAsks DEF Turns, Machines
  <2> QED  BY <1>2, <1>5, <1>7, <1>9, <2>1 DEF Stands, Alike
<1>10. CASE ~x.reloadDuringWrite /\ x.restoreQueued /\ ~x.opened /\ l
  <2>1. LET r == startRestore(q)
        IN  Turns(r.m) /\ Reads(q, r) /\ Stands(q, r.m) /\ r.m.restoreSeq # 0
    BY <1>7, <1>10, RestoreAsks
  <2>2. LET r == startRestore(q) IN Turns(r.m) /\ Reads(x, r) /\ Stands(q, r.m)
    BY <1>7, <2>1 DEF Reads
  <2> QED  BY <1>2, <1>5, <1>6, <1>7, <1>10, <2>1, <2>2 DEF Stands, Alike
<1>11. CASE ~x.reloadDuringWrite /\ x.restoreQueued /\ ~x.opened /\ ~l
  <2>1. Turns(q) /\ Quiets(x, Quietly(q)) /\ Quietly(q).m = q
    BY <1>7, <1>11 DEF Turns, Machines, Quiets, Quietly
  <2> QED  BY <1>2, <1>5, <1>6, <1>7, <1>11, <2>1
<1> QED  BY <1>8, <1>9, <1>10, <1>11

-----------------------------------------------------------------------------
(* The host: a read of some generation, with at most one waiting for it to  *)
(* end, and the write the machine has in flight.                            *)

ReadRuns ==
    [on : {TRUE}, kind : Kinds, seq : Nat, value : {"none", "TRUE", "FALSE"},
     answered : BOOLEAN]
WriteRuns == [on : {TRUE}, value : BOOLEAN, seq : Nat, landed : BOOLEAN]

Turn(x, seq) == seq \in Nat /\ 1 <= seq /\ seq <= x.seq
Waits(x, queue) ==
    \/ queue = <<>>
    \/ \E kind \in Kinds, seq \in Nat : Turn(x, seq) /\ queue = <<ReadAct(kind, seq)>>

Readable(x, h) ==
    /\ h = [read |-> h.read, write |-> h.write, queue |-> h.queue]
    /\ h.read = NoRun \/ (h.read \in ReadRuns /\ Turn(x, h.read.seq))
    /\ Waits(x, h.queue) /\ (~h.read.on => h.queue = <<>>)

Writable(x, h) ==
    \/ h.write = NoRun /\ x.writeSeq = 0
    \/ /\ h.write \in WriteRuns /\ x.writeSeq # 0
       /\ h.write.seq = x.writeSeq /\ h.write.value = x.undoing

Asked(x, run) ==
    run.on /\ run.seq = IF run.kind = "probe" THEN x.probeSeq ELSE x.restoreSeq

LEMMA LiveNone ==
  ASSUME NEW p
  PROVE  Live(p, <<>>) = <<>>
<1> DEFINE F(g) == [n \in 0..0 |->
                      IF n = 0 THEN <<>>
                      ELSE IF Retired(p, <<>>[n]) THEN g[n - 1]
                      ELSE Append(g[n - 1], <<>>[n])]
<1>1. \E g : g = F(g)
  <2>1. [n \in 0..0 |-> <<>>] = F([n \in 0..0 |-> <<>>])
    OBVIOUS
  <2> QED  BY <2>1
<1>2. (CHOOSE g : g = F(g)) = F(CHOOSE g : g = F(g))
  BY <1>1
<1>3. Live(p, <<>>) = (CHOOSE g : g = F(g))[0]
  BY DEF Live
<1> QED  BY <1>2, <1>3

LEMMA LiveOne ==
  ASSUME NEW p, NEW a
  PROVE  Live(p, <<a>>) = IF Retired(p, a) THEN <<>> ELSE <<a>>
<1> DEFINE F(g) == [n \in 0..1 |->
                      IF n = 0 THEN <<>>
                      ELSE IF Retired(p, <<a>>[n]) THEN g[n - 1]
                      ELSE Append(g[n - 1], <<a>>[n])]
           w == [n \in 0..1 |-> IF n = 0 \/ Retired(p, a) THEN <<>> ELSE <<a>>]
           h == CHOOSE g : g = F(g)
<1>1. w = F(w)
  <2>1. ASSUME NEW n \in 0..1 PROVE w[n] = F(w)[n]
    <3>1. CASE n = 0
      BY <3>1
    <3>2. CASE n = 1
      BY <3>2
    <3> QED  BY <3>1, <3>2
  <2> QED  BY <2>1
<1>2. h = F(h)
  BY <1>1
<1>3. Live(p, <<a>>) = h[1]
  BY DEF Live
<1> HIDE DEF h
<1>4. h[0] = <<>>
  BY <1>2
<1>5. h[1] = IF Retired(p, a) THEN h[0] ELSE Append(h[0], a)
  BY <1>2
<1> QED  BY <1>3, <1>4, <1>5

LEMMA RemoveOnly ==
  ASSUME NEW a
  PROVE  RemoveAt(<<a>>, 1) = <<>>
  BY DEF RemoveAt

LEMMA LaterTurns ==
  ASSUME NEW x, NEW y, x.seq \in Nat, y.seq \in Nat, x.seq <= y.seq
  PROVE  /\ \A seq \in Nat : Turn(x, seq) => Turn(y, seq)
         /\ \A queue : Waits(x, queue) => Waits(y, queue)
<1>1. \A seq \in Nat : Turn(x, seq) => Turn(y, seq)
  BY DEF Turn
<1> QED  BY <1>1 DEF Waits

(* What the machine asks to read is read, or waits alone for the read under *)
(* way, which it has given up.                                              *)
LEMMA DispatchReads ==
  ASSUME NEW x, NEW h, NEW r, Turns(x), Readable(x, h), Turns(r.m),
         Quiets(x, r) \/ Reads(x, r)
  PROVE  LET d == dispatch(h, r.m, r.act)
         IN  /\ Readable(r.m, d) /\ d.write = h.write
             /\ Asked(r.m, d.read) /\ d.read.value # "none" =>
                    d.read = h.read /\ Asked(x, h.read)
<1> DEFINE d == dispatch(h, r.m, r.act)
<1>1. x.seq \in Nat /\ r.m.seq \in Nat
  BY DEF Turns, Machines
<1>2. CASE Quiets(x, r)
  <2>1. d = h
    BY <1>2 DEF Quiets, NoAct, dispatch
  <2>2. Readable(r.m, h)
    BY <1>1, <1>2, LaterTurns DEF Quiets, Readable, Turn
  <2>3. Asked(r.m, h.read) => Asked(x, h.read)
    BY <1>2 DEF Quiets, Asked, Readable, Turn, NoRun
  <2> QED  BY <2>1, <2>2, <2>3
<1>3. CASE Reads(x, r)
  <2>1. PICK kind \in Kinds : r.act = ReadAct(kind, x.seq + 1)
    BY <1>3 DEF Reads
  <2> DEFINE a == ReadAct(kind, x.seq + 1)
             run == Reading(a)
  <2>2. a.op = "read" /\ a.kind = kind /\ a.seq = x.seq + 1
    BY DEF ReadAct
  <2>3. x.seq <= r.m.seq /\ Turn(r.m, x.seq + 1) /\ r.m.seq = x.seq + 1
    BY <1>1, <1>3 DEF Reads, Turn
  <2>4. CASE ~h.read.on
    <3>1. d = [h EXCEPT !.read = run]
      BY <2>1, <2>2, <2>4 DEF dispatch, Busy, Launched
    <3>2. run \in ReadRuns /\ run.seq = x.seq + 1 /\ run.value = "none" /\ run.on
      BY <1>1, <2>2 DEF Reading, ReadRuns
    <3> HIDE DEF run
    <3>3. d = [read |-> run, write |-> h.write, queue |-> h.queue]
      BY <3>1 DEF Readable
    <3>4. h.queue = <<>>
      BY <2>4 DEF Readable
    <3> HIDE DEF d
    <3>5. Readable(r.m, d) /\ d.write = h.write /\ d.read.value = "none"
      BY <2>3, <3>2, <3>3, <3>4 DEF Readable, Waits
    <3> QED  BY <3>5 DEF d
  <2>5. CASE h.read.on
    <3>1. d = [h EXCEPT !.queue = Append(Live(r.m, h.queue), a)]
      BY <2>1, <2>2, <2>5 DEF dispatch, Busy
    <3>2. Live(r.m, h.queue) = <<>>
      <4>1. CASE h.queue = <<>>
        BY <4>1, LiveNone
      <4>2. CASE h.queue # <<>>
        <5>1. PICK k2 \in Kinds, seq \in Nat :
                Turn(x, seq) /\ h.queue = <<ReadAct(k2, seq)>>
          BY <4>2 DEF Readable, Waits
        <5>2. Retired(r.m, ReadAct(k2, seq))
          BY <1>1, <1>3, <5>1 DEF Retired, ReadAct, Reads, Turn
        <5> QED  BY <5>1, <5>2, LiveOne
      <4> QED  BY <4>1, <4>2
    <3>3. d = [read |-> h.read, write |-> h.write, queue |-> <<a>>]
      BY <3>1, <3>2 DEF Readable
    <3>4. h.read \in ReadRuns /\ Turn(x, h.read.seq)
      BY <2>5 DEF Readable, NoRun
    <3>5. Turn(r.m, h.read.seq) /\ Waits(r.m, <<a>>)
      <4>1. h.read.seq \in Nat /\ x.seq + 1 \in Nat
        BY <1>1, <3>4 DEF Turn
      <4> QED  BY <1>1, <2>3, <3>4, <4>1, LaterTurns DEF Waits
    <3>6. ~Asked(r.m, h.read)
      BY <1>1, <1>3, <3>4 DEF Asked, Reads, Turn
    <3> HIDE DEF d, a
    <3>7. Readable(r.m, d) /\ d.write = h.write /\ d.read = h.read
      BY <2>5, <3>3, <3>4, <3>5 DEF Readable
    <3> QED  BY <3>6, <3>7 DEF d
  <2> QED  BY <2>4, <2>5
<1> QED  BY <1>2, <1>3

(* A write is launched at once: the machine has no other in flight.         *)
LEMMA DispatchWrites ==
  ASSUME NEW x, NEW h, NEW r, Turns(x), Readable(x, h), Writable(x, h), Turns(r.m),
         Wrote(x, r)
  PROVE  LET d == dispatch(h, r.m, r.act)
         IN  /\ Readable(r.m, d) /\ Writable(r.m, d) /\ d.read = h.read
             /\ d.write = Writing(r.act) /\ d.write.on /\ ~d.write.landed
<1> DEFINE d == dispatch(h, r.m, r.act)
           a == WriteAct(r.m.undoing, r.m.writeSeq)
           run == Writing(a)
<1>1. r.act = a /\ a.op = "write" /\ a.seq = r.m.writeSeq /\ a.value = r.m.undoing
  BY DEF Wrote, WriteAct
<1>2. ~h.write.on /\ a.seq # 0
  BY <1>1 DEF Wrote, Writable, NoRun
<1>3. d = [h EXCEPT !.write = run]
  BY <1>1, <1>2 DEF dispatch, Busy, Launched
<1>4. /\ run \in WriteRuns /\ run.seq = r.m.writeSeq /\ run.value = r.m.undoing
      /\ run.on /\ ~run.landed
  BY <1>1 DEF Writing, WriteRuns, Turns, Machines
<1> HIDE DEF a, run
<1>5. d = [read |-> h.read, write |-> run, queue |-> h.queue]
  BY <1>3 DEF Readable
<1> HIDE DEF d
<1>6. Readable(r.m, d)
  <2>1. r.m.seq = x.seq
    BY DEF Wrote
  <2> QED  BY <1>5, <2>1 DEF Readable, Waits, Turn
<1>7. Writable(r.m, d)
  BY <1>4, <1>5 DEF Writable, Wrote
<1> QED  BY <1>1, <1>4, <1>5, <1>6, <1>7 DEF d, run

(* When a run ends, what waited is asked if it still is to be.              *)
LEMMA Flushes ==
  ASSUME NEW x, NEW h, x.seq \in Nat,
         h = [read |-> h.read, write |-> h.write, queue |-> h.queue],
         h.read = NoRun \/ (h.read \in ReadRuns /\ Turn(x, h.read.seq)), Waits(x, h.queue)
  PROVE  LET d == flushQueued(h, x)
         IN  /\ Readable(x, d) /\ d.write = h.write
             /\ d.read.value # "none" /\ d.read.on => d.read = h.read
<1> DEFINE d == flushQueued(h, x)
           queue == Live(x, h.queue)
           free == {i \in DOMAIN queue : ~Busy(h, queue[i])}
           i == CHOOSE i \in free : \A j \in free : i <= j
<1>1. d = IF free = {} THEN [h EXCEPT !.queue = queue]
          ELSE Launched([h EXCEPT !.queue = RemoveAt(queue, i)], queue[i])
  BY DEF flushQueued
<1>2. CASE queue = <<>>
  <2>1. free = {}
    BY <1>2
  <2>2. d = [read |-> h.read, write |-> h.write, queue |-> <<>>]
    BY <1>1, <1>2, <2>1
  <2> HIDE DEF d
  <2>3. Readable(x, d) /\ d.write = h.write /\ d.read = h.read
    BY <2>2 DEF Readable, Waits
  <2> QED  BY <2>3 DEF d
<1>3. CASE queue # <<>>
  <2>1. PICK kind \in Kinds, seq \in Nat :
          Turn(x, seq) /\ h.queue = <<ReadAct(kind, seq)>> /\ queue = <<ReadAct(kind, seq)>>
    BY <1>3, LiveNone, LiveOne DEF Waits
  <2> DEFINE a == ReadAct(kind, seq)
             run == Reading(a)
  <2>2. a.op = "read" /\ a.kind = kind /\ a.seq = seq
    BY DEF ReadAct
  <2>3. run \in ReadRuns /\ run.seq = seq /\ run.value = "none" /\ run.on
    BY <2>2 DEF Reading, ReadRuns
  <2> HIDE DEF a, run, queue
  <2>4. queue = <<a>>
    BY <2>1 DEF a
  <2>5. CASE h.read.on
    <3>1. free = {}
      BY <2>2, <2>4, <2>5 DEF Busy
    <3>2. d = [read |-> h.read, write |-> h.write, queue |-> <<a>>]
      BY <1>1, <2>4, <3>1
    <3> HIDE DEF d
    <3>3. Waits(x, <<a>>)
      BY <2>1 DEF Waits, a
    <3>4. Readable(x, d) /\ d.write = h.write /\ d.read = h.read
      BY <2>5, <3>2, <3>3 DEF Readable
    <3> QED  BY <3>4 DEF d
  <2>6. CASE ~h.read.on
    <3>1. free = {1}
      BY <2>2, <2>4, <2>6 DEF Busy
    <3>2. i = 1
      BY <3>1
    <3>3. RemoveAt(queue, i) = <<>> /\ queue[i] = a
      <4>1. RemoveAt(<<a>>, 1) = <<>>
        BY RemoveOnly
      <4>2. <<a>>[1] = a
        OBVIOUS
      <4> HIDE DEF i
      <4> QED  BY <2>4, <3>2, <4>1, <4>2
    <3>4. d = Launched([h EXCEPT !.queue = <<>>], a)
      BY <1>1, <3>1, <3>3
    <3>5. d = [read |-> run, write |-> h.write, queue |-> <<>>]
      BY <2>2, <3>4 DEF Launched, run
    <3> HIDE DEF d
    <3>6. Readable(x, d) /\ d.write = h.write /\ d.read.value = "none"
      BY <2>1, <2>3, <3>5 DEF Readable, Waits
    <3> QED  BY <3>6 DEF d
  <2> QED  BY <2>5, <2>6
<1> QED  BY <1>2, <1>3

-----------------------------------------------------------------------------
(* The hiding of the cursor.                                                *)

Pasts ==
    [crossed : SUBSET Nat, disowned : BOOLEAN, raced : BOOLEAN, undoFailed : BOOLEAN,
     stood : BOOLEAN, evaled : BOOLEAN, stale : BOOLEAN, unmoved : BOOLEAN,
     gaveUp : BOOLEAN]

Agreed == hides = theirs \/ past.raced

(* The user hides, or the override in force is not theirs to keep.          *)
Excused == theirs \/ past.disowned \/ past.raced

(* The compositor differs from the user only by an override the panel still *)
(* knows of; a live override was made of a user who hides, or of one who is *)
(* about to be heard.                                                       *)
Overridden ==
    /\ ~Agreed => theirs /\ ~hides /\ (m.overrideLive \/ lastword)
    /\ m.overrideLive => Excused \/ unheard \/ m.reloadDuringWrite
    /\ lastword => Excused \/ 0 \in past.crossed
    /\ (m.opened \/ m.overrideLive => alive) /\ (lastword => ~alive)

(* An answer taken and not yet acted on is still what the user wants, or    *)
(* its generation was crossed.                                              *)
Sampled ==
    Asked(m, host.read) /\ host.read.value = "TRUE" /\ ~host.read.answered =>
        Agreed /\ (theirs \/ past.raced \/ host.read.seq \in past.crossed)

(* A reload under a write crossed it, and has set what the user wants.      *)
Reloaded ==
    /\ (unheard /\ m.writeSeq # 0) \/ m.reloadDuringWrite => m.writeSeq \in past.crossed
    /\ unheard \/ m.reloadDuringWrite => Agreed

(* A write on its way suspends for a user who hides, or undoes for one.     *)
OnTheWay ==
    /\ host.write.on /\ ~host.write.landed /\ ~m.undoing =>
         /\ Agreed /\ m.overrideLive
         /\ theirs \/ past.raced \/ m.writeSeq \in past.crossed
    /\ host.write.on /\ ~host.write.landed /\ m.undoing =>
         Excused \/ m.writeSeq \in past.crossed
    /\ host.write.on /\ host.write.landed /\ m.undoing => Agreed

(* A closed panel with a live override has its undo coming, or saw it fail. *)
OwesItsUndo ==
    ~m.opened /\ m.overrideLive =>
        /\ m.restoreSeq # 0 \/ m.writeSeq # 0 \/ past.undoFailed
        /\ m.writeSeq # 0 /\ ~m.undoing => m.restoreQueued \/ m.reloadDuringWrite

Types ==
    /\ hides \in BOOLEAN /\ theirs \in BOOLEAN /\ unheard \in BOOLEAN
    /\ lastword \in BOOLEAN /\ alive \in BOOLEAN /\ past \in Pasts

Hosted == Turns(m) /\ Readable(m, host) /\ Writable(m, host)
Hiding == Overridden /\ Sampled /\ Reloaded /\ OnTheWay /\ OwesItsUndo
Policy == Types /\ Hosted /\ Hiding

LEMMA OpensPolicy ==
  ASSUME Policy, NEW opens \in BOOLEAN, targetOpens(opens)
  PROVE  Policy'
<1> DEFINE r == IF opens THEN open(m) ELSE close(m)
           d == dispatch(host, r.m, r.act)
<1>1. m' = r.m /\ host' = d /\ UNCHANGED <<hides, theirs, unheard, lastword, alive>> /\ alive
  BY DEF targetOpens, Does
<1>2. /\ Turns(r.m) /\ (Quiets(m, r) \/ Reads(m, r)) /\ Alike(m, r.m)
      /\ ~r.m.opened /\ m.overrideLive =>
            r.m.restoreSeq # 0 \/ (r.m.writeSeq # 0 /\ r.m.restoreQueued)
  <2>1. CASE opens
    BY <2>1, OpenAsks DEF Policy, Hosted, targetOpens
  <2>2. CASE ~opens
    BY <2>2, CloseAsks DEF Policy, Hosted
  <2> QED  BY <2>1, <2>2
<1>3. /\ past' \in Pasts /\ past'.crossed = past.crossed /\ past'.disowned = past.disowned
      /\ past'.raced = past.raced /\ past'.undoFailed = past.undoFailed
  BY DEF Policy, Types, Pasts, targetOpens
<1> HIDE DEF r
<1>4. /\ Readable(r.m, d) /\ d.write = host.write
      /\ Asked(r.m, d.read) /\ d.read.value # "none" =>
            d.read = host.read /\ Asked(m, host.read)
  BY <1>2, DispatchReads DEF Policy, Hosted
<1> HIDE DEF d
<1>5. Hosted'
  BY <1>1, <1>2, <1>4 DEF Policy, Hosted, Alike, Writable
<1>6. Agreed' = Agreed /\ Excused' = Excused
  BY <1>1, <1>3 DEF Agreed, Excused
<1>7. Overridden' /\ Reloaded' /\ OnTheWay'
  BY <1>1, <1>2, <1>3, <1>4, <1>6
     DEF Policy, Hiding, Overridden, Reloaded, OnTheWay, Alike
<1>8. Sampled'
  BY <1>1, <1>3, <1>4, <1>6 DEF Policy, Hiding, Sampled
<1>9. OwesItsUndo'
  BY <1>1, <1>2, <1>3 DEF OwesItsUndo, Alike, Turns
<1> QED  BY <1>1, <1>3, <1>5, <1>7, <1>8, <1>9 DEF Policy, Types, Hiding

LEMMA SamplesPolicy ==
  ASSUME Policy, ReadSamples
  PROVE  Policy'
<1> DEFINE v == Value(hides)
           run == [host.read EXCEPT !.value = v]
<1>1. /\ host.read \in ReadRuns /\ Turn(m, host.read.seq)
      /\ UNCHANGED <<m, hides, theirs, unheard, lastword, alive, past>>
  BY DEF Policy, Hosted, Readable, NoRun, ReadSamples
<1>2. v \in {"TRUE", "FALSE"} /\ (v = "TRUE" => hides = TRUE)
  BY DEF Policy, Types, Value
<1>3. host' = [read |-> run, write |-> host.write, queue |-> host.queue]
  BY DEF ReadSamples, Policy, Hosted, Readable
<1> HIDE DEF v
<1>4. /\ run \in ReadRuns /\ run.seq = host.read.seq /\ run.kind = host.read.kind
      /\ run.on = host.read.on /\ run.value = v
  BY <1>1, <1>2 DEF ReadRuns
<1> HIDE DEF run
<1>5. Hosted'
  BY <1>1, <1>3, <1>4 DEF Policy, Hosted, Readable, Writable
<1>6. Agreed' = Agreed /\ Excused' = Excused
  BY <1>1 DEF Agreed, Excused
<1>7. Overridden' /\ Reloaded' /\ OnTheWay' /\ OwesItsUndo'
  BY <1>1, <1>3, <1>6 DEF Policy, Hiding, Overridden, Reloaded, OnTheWay, OwesItsUndo
<1>8. Sampled'
  BY <1>1, <1>2, <1>3, <1>4, <1>6 DEF Policy, Hiding, Sampled, Overridden, Agreed
<1> QED  BY <1>1, <1>5, <1>7, <1>8 DEF Policy, Types, Hiding

(* The read answers what was sampled, or fails.                             *)
LEMMA HostParts ==
  ASSUME NEW h, h = [read |-> h.read, write |-> h.write, queue |-> h.queue], NEW v
  PROVE  /\ [h EXCEPT !.read.answered = v] =
                [read |-> [h.read EXCEPT !.answered = v], write |-> h.write, queue |-> h.queue]
         /\ [h EXCEPT !.write.landed = v] =
                [read |-> h.read, write |-> [h.write EXCEPT !.landed = v], queue |-> h.queue]
         /\ [h EXCEPT !.read = v] = [read |-> v, write |-> h.write, queue |-> h.queue]
         /\ [h EXCEPT !.write = v] = [read |-> h.read, write |-> v, queue |-> h.queue]
<1>1. PICK a, b, c : h = [read |-> a, write |-> b, queue |-> c]
  OBVIOUS
<1>2. h.read = a /\ h.write = b /\ h.queue = c
  BY <1>1
<1> QED  BY <1>1, <1>2

LEMMA OnlyWrites ==
  ASSUME NEW x, NEW r, Quiets(x, r) \/ Reads(x, r)
  PROVE  r.act.op # "write"
<1>1. CASE Quiets(x, r)
  BY <1>1 DEF Quiets, NoAct
<1>2. CASE Reads(x, r)
  <2>1. PICK kind \in Kinds : r.act = ReadAct(kind, x.seq + 1)
    BY <1>2 DEF Reads
  <2> QED  BY <2>1 DEF ReadAct
<1> QED  BY <1>1, <1>2

LEMMA AskedAnswers ==
  ASSUME Policy, NEW enabled, host.read.on
  PROVE  LET r == readAnswered(enabled)
         IN  /\ Turns(r.m)
             /\ r = Quietly(m) \/ (Asked(m, host.read) /\ Answers(m, r, enabled))
<1>1. Turns(m) /\ host.read \in ReadRuns /\ Turn(m, host.read.seq)
  BY DEF Policy, Hosted, Readable, NoRun
<1>2. host.read.seq # 0
  BY <1>1 DEF Turn
<1>3. CASE ~Asked(m, host.read)
  <2>1. readAnswered(enabled) = Quietly(m)
    BY <1>3 DEF readAnswered, Asked
  <2> QED  BY <1>1, <2>1 DEF Quietly
<1>4. CASE Asked(m, host.read) /\ host.read.kind = "probe"
  <2>1. readAnswered(enabled) = ProbeAnswered(m, m.probeSeq, enabled) /\ m.probeSeq # 0
    BY <1>2, <1>4 DEF readAnswered, readResult, Asked
  <2> QED  BY <1>1, <1>4, <2>1, ProbeAnswers
<1>5. CASE Asked(m, host.read) /\ host.read.kind # "probe"
  <2>1. readAnswered(enabled) = RestoreAnswered(m, m.restoreSeq, enabled) /\ m.restoreSeq # 0
    BY <1>2, <1>5 DEF readAnswered, readResult, Asked
  <2> QED  BY <1>1, <1>5, <2>1, RestoreAnswers
<1> QED  BY <1>3, <1>4, <1>5

(* The read answers what was sampled, or fails.                             *)
LEMMA AnswerPolicy ==
  ASSUME Policy, NEW enabled, NEW failed \in BOOLEAN,
         host.read.on, ~host.read.answered,
         enabled = "null" \/ enabled = host.read.value,
         Does(readAnswered(enabled), [host EXCEPT !.read.answered = TRUE]),
         past' = AfterAnswer(readAnswered(enabled), failed),
         UNCHANGED <<hides, theirs, unheard, lastword, alive>>
  PROVE  Policy'
<1> DEFINE r == readAnswered(enabled)
           run == [host.read EXCEPT !.answered = TRUE]
           h == [host EXCEPT !.read.answered = TRUE]
           d == dispatch(h, r.m, r.act)
<1>1. m' = r.m /\ host' = d
  BY DEF Does
<1>2. /\ host.read \in ReadRuns /\ Turn(m, host.read.seq)
      /\ host = [read |-> host.read, write |-> host.write, queue |-> host.queue]
  BY DEF Policy, Hosted, Readable, NoRun
<1>3. /\ run \in ReadRuns /\ run.seq = host.read.seq /\ run.kind = host.read.kind
      /\ run.on = TRUE /\ run.answered = TRUE
  BY <1>2 DEF ReadRuns
<1>4. h = [read |-> run, write |-> host.write, queue |-> host.queue]
  BY <1>2, HostParts
<1>5. Turns(r.m) /\ (r = Quietly(m) \/ (Asked(m, host.read) /\ Answers(m, r, enabled)))
  BY AskedAnswers
<1> DEFINE st == past.stood \/ (failed /\ m.opened)
           cr == past.crossed \cup IF r.act.op = "write" /\ unheard THEN {r.act.seq} ELSE {}
           di == past.disowned \/ (r.act.op = "write" /\ host.read.seq \in past.crossed)
<1>6. past' = [past EXCEPT !.stood = st, !.crossed = cr, !.disowned = di]
  BY DEF AfterAnswer
<1> HIDE DEF r, run, h
<1>7. Readable(m, h) /\ Writable(m, h) /\ Turns(m) /\ h.read = run /\ h.write = host.write
  BY <1>2, <1>3, <1>4 DEF Policy, Hosted, Readable, Writable
<1>8. Quiets(m, Quietly(m))
  BY DEF Quiets, Quietly
<1>11. r.act.op = "write" => r.act.seq \in Nat
  <2>1. Wrote(m, r) => r.act.seq \in Nat
    BY <1>5 DEF Wrote, WriteAct, Turns, Machines
  <2> QED  BY <1>5, <1>8, <2>1, OnlyWrites DEF Answers
<1>12. /\ past' \in Pasts /\ past'.raced = past.raced /\ past'.undoFailed = past.undoFailed
       /\ past'.crossed = cr /\ past'.disowned = di /\ past'.gaveUp = past.gaveUp
  <2>1. st \in BOOLEAN /\ di \in BOOLEAN
    OBVIOUS
  <2>2. cr \in SUBSET Nat
    BY <1>11 DEF Policy, Types, Pasts
  <2>3. past \in Pasts
    BY DEF Policy, Types
  <2> HIDE DEF st, cr, di
  <2> DEFINE p == [past EXCEPT !.stood = st, !.crossed = cr, !.disowned = di]
  <2>4. /\ p \in Pasts /\ p.crossed = cr /\ p.disowned = di
        /\ p.raced = past.raced /\ p.undoFailed = past.undoFailed /\ p.gaveUp = past.gaveUp
    BY <2>1, <2>2, <2>3 DEF Pasts
  <2>5. past' = p
    BY <1>6
  <2> HIDE DEF p
  <2> QED  BY <2>4, <2>5
<1>9. CASE Wrote(m, r) /\ Answers(m, r, enabled) /\ Asked(m, host.read)
  <2>1. /\ Readable(r.m, d) /\ Writable(r.m, d) /\ d.read = run
        /\ d.write = Writing(r.act) /\ d.write.on /\ ~d.write.landed
    BY <1>5, <1>7, <1>9, DispatchWrites
  <2>2. Hosted' /\ Sampled'
    BY <1>1, <1>3, <1>5, <2>1 DEF Hosted, Sampled
  <2>3. r.act.op = "write" /\ r.act.seq = r.m.writeSeq /\ r.m.writeSeq \in Nat
    BY <1>5, <1>9 DEF Wrote, WriteAct, Turns, Machines
  <2> HIDE DEF d
  <2>4. /\ past' \in Pasts /\ past'.raced = past.raced /\ past'.undoFailed = past.undoFailed
        /\ past'.crossed = past.crossed \cup (IF unheard THEN {r.m.writeSeq} ELSE {})
        /\ past'.disowned = (past.disowned \/ host.read.seq \in past.crossed)
    BY <1>12, <2>3
  <2>5. r.m.writeSeq # 0 /\ m.writeSeq = 0 /\ ~m.reloadDuringWrite /\ ~r.m.reloadDuringWrite
    BY <1>9 DEF Wrote, Policy, Hosted, Turns, Answers
  <2>6. \/ /\ ~r.m.undoing /\ r.m.overrideLive /\ m.opened /\ r.m.opened
           /\ r.m.writeSeq = host.read.seq
           /\ Agreed /\ (theirs \/ past.raced \/ host.read.seq \in past.crossed)
        \/ r.m.undoing /\ r.m.overrideLive /\ m.overrideLive
    <3>1. CASE /\ ~r.m.undoing /\ r.m.overrideLive /\ enabled = "TRUE"
               /\ m.opened /\ r.m.writeSeq = m.probeSeq
      <4>1. host.read.value = "TRUE"
        BY <3>1
      <4>2. host.read.seq = m.probeSeq
        BY <1>2, <1>7, <1>9, <2>5, <3>1 DEF Asked, Turns, Turn
      <4> QED  BY <1>9, <3>1, <4>1, <4>2 DEF Policy, Hiding, Sampled, Answers
    <3>3. ~Quiets(m, r) /\ ~Reads(m, r)
      BY <2>3, OnlyWrites
    <3> QED  BY <1>9, <3>1, <3>3 DEF Answers
  <2>7. Agreed' = Agreed
    BY <2>4 DEF Agreed
  <2>8. Overridden'
    BY <1>1, <2>4, <2>5, <2>6, <2>7 DEF Policy, Hiding, Overridden, Excused
  <2>9. Reloaded'
    BY <1>1, <2>4, <2>5, <2>7 DEF Policy, Hiding, Reloaded
  <2>10. OnTheWay'
    BY <1>1, <2>1, <2>4, <2>5, <2>6, <2>7 DEF Policy, Hiding, Overridden, OnTheWay, Excused
  <2>11. OwesItsUndo'
    BY <1>1, <2>5, <2>6 DEF OwesItsUndo
  <2> QED  BY <2>2, <2>4, <2>8, <2>9, <2>10, <2>11 DEF Policy, Types, Hiding
<1>10. CASE \/ r = Quietly(m)
            \/ ~Wrote(m, r) /\ Answers(m, r, enabled) /\ Asked(m, host.read)
  <2>1. Quiets(m, r) \/ Reads(m, r)
    BY <1>8, <1>10 DEF Answers
  <2>2. /\ Readable(r.m, d) /\ d.write = host.write
        /\ Asked(r.m, d.read) /\ d.read.value # "none" => d.read = run
    BY <1>5, <1>7, <2>1, DispatchReads
  <2>3. r.act.op # "write"
    BY <2>1, OnlyWrites
  <2> HIDE DEF d
  <2>4. /\ past' \in Pasts /\ past'.raced = past.raced /\ past'.undoFailed = past.undoFailed
        /\ past'.crossed = past.crossed /\ past'.disowned = past.disowned
    <3>1. past.disowned \in BOOLEAN
      BY DEF Policy, Types, Pasts
    <3> QED  BY <1>12, <2>3, <3>1
  <2>5. Agreed' = Agreed /\ Excused' = Excused
    BY <2>4 DEF Agreed, Excused
  <2>6. CASE r = Quietly(m)
    <3>1. m' = m
      BY <1>1, <2>6 DEF Quietly
    <3>2. Hosted' /\ Sampled'
      BY <1>1, <1>3, <1>7, <2>2, <3>1 DEF Hosted, Sampled, Writable
    <3>3. Overridden' /\ Reloaded' /\ OnTheWay' /\ OwesItsUndo'
      BY <1>1, <2>2, <2>4, <2>5, <3>1
         DEF Policy, Hiding, Overridden, Reloaded, OnTheWay, OwesItsUndo
    <3> QED  BY <2>4, <3>2, <3>3 DEF Policy, Types, Hiding
  <2>7. CASE ~Wrote(m, r) /\ Answers(m, r, enabled) /\ Asked(m, host.read)
    <3>1. m.writeSeq = 0 /\ r.m.writeSeq = 0
      <4>1. m.writeSeq = 0
        BY <1>2, <1>7, <2>7 DEF Asked, Turns, Turn
      <4> QED  BY <2>1, <4>1 DEF Quiets, Reads
    <3>2. host.write = NoRun
      BY <1>7, <3>1 DEF Writable
    <3>3. Hosted' /\ Sampled'
      BY <1>1, <1>3, <1>5, <2>2, <3>1, <3>2 DEF Hosted, Sampled, Writable
    <3>4. /\ r.m.opened = m.opened /\ ~r.m.reloadDuringWrite
          /\ \/ r.m.overrideLive = m.overrideLive /\ m.opened
             \/ ~r.m.overrideLive /\ Agreed
      <4>1. enabled = "TRUE" => Agreed
        BY <2>7 DEF Policy, Hiding, Sampled
      <4> QED  BY <2>7, <4>1 DEF Answers
    <3>5. Overridden' /\ Reloaded' /\ OwesItsUndo'
      BY <1>1, <2>4, <2>5, <3>1, <3>4
         DEF Policy, Hosted, Turns, Hiding, Overridden, Reloaded, OwesItsUndo
    <3>6. OnTheWay'
      BY <1>1, <2>2, <3>2 DEF OnTheWay, NoRun
    <3> QED  BY <2>4, <3>3, <3>5, <3>6 DEF Policy, Types, Hiding
  <2> QED  BY <1>10, <2>6, <2>7
<1> QED  BY <1>5, <1>9, <1>10

LEMMA ReadsPolicy ==
  ASSUME Policy, ReadAnswers \/ ReadFails
  PROVE  Policy'
<1>1. CASE ReadAnswers
  <2>1. /\ host.read.on /\ ~host.read.answered
        /\ Does(readAnswered(host.read.value), [host EXCEPT !.read.answered = TRUE])
        /\ past' = AfterAnswer(readAnswered(host.read.value), FALSE)
        /\ UNCHANGED <<hides, theirs, unheard, lastword, alive>>
    BY <1>1 DEF ReadAnswers
  <2> QED  BY <2>1, AnswerPolicy
<1>2. CASE ReadFails
  <2>1. /\ host.read.on /\ ~host.read.answered
        /\ Does(readAnswered("null"), [host EXCEPT !.read.answered = TRUE])
        /\ past' = AfterAnswer(readAnswered("null"), TRUE)
        /\ UNCHANGED <<hides, theirs, unheard, lastword, alive>>
    BY <1>2 DEF ReadFails
  <2> QED  BY <2>1, AnswerPolicy
<1> QED  BY <1>1, <1>2

LEMMA ReadExitsPolicy ==
  ASSUME Policy, ReadExits
  PROVE  Policy'
<1> DEFINE h == [host EXCEPT !.read = NoRun]
           d == flushQueued(h, m)
<1>1. /\ host' = d
      /\ UNCHANGED <<m, hides, theirs, unheard, lastword, alive, past>>
  BY DEF ReadExits
<1>2. h = [read |-> NoRun, write |-> host.write, queue |-> host.queue]
  BY HostParts DEF Policy, Hosted, Readable
<1> HIDE DEF h
<1>3. /\ Readable(m, d) /\ d.write = host.write
      /\ d.read.value # "none" /\ d.read.on => d.read = NoRun
  <2>1. /\ m.seq \in Nat /\ Waits(m, host.queue) /\ h.read = NoRun
        /\ h.write = host.write /\ h.queue = host.queue
        /\ h = [read |-> h.read, write |-> h.write, queue |-> h.queue]
    BY <1>2 DEF Policy, Hosted, Readable, Turns, Machines
  <2> QED  BY <2>1, Flushes
<1> HIDE DEF d
<1>4. Hosted'
  BY <1>1, <1>3 DEF Policy, Hosted, Writable
<1>5. Agreed' = Agreed /\ Excused' = Excused
  BY <1>1 DEF Agreed, Excused
<1>6. Overridden' /\ Reloaded' /\ OnTheWay' /\ OwesItsUndo'
  BY <1>1, <1>3, <1>5 DEF Policy, Hiding, Overridden, Reloaded, OnTheWay, OwesItsUndo
<1>7. Sampled'
  BY <1>1, <1>3 DEF Sampled, Asked, NoRun
<1> QED  BY <1>1, <1>4, <1>6, <1>7 DEF Policy, Types, Hiding

LEMMA WriteLandsPolicy ==
  ASSUME Policy, WriteLands
  PROVE  Policy'
<1> DEFINE run == [host.write EXCEPT !.landed = TRUE]
           rc == past.raced \/ /\ hides' # theirs
                               /\ \/ host.write.seq \in past.crossed
                                  \/ host.write.value /\ past.disowned
<1>1. /\ host.write \in WriteRuns /\ m.writeSeq # 0 /\ host.write.on /\ ~host.write.landed
      /\ host.write.seq = m.writeSeq /\ host.write.value = m.undoing
      /\ hides' = m.undoing
      /\ UNCHANGED <<m, theirs, unheard, lastword, alive>>
  BY DEF Policy, Hosted, Writable, NoRun, WriteLands
<1>2. host' = [read |-> host.read, write |-> run, queue |-> host.queue]
  BY HostParts DEF Policy, Hosted, Readable, WriteLands
<1>3. /\ run \in WriteRuns /\ run.seq = host.write.seq /\ run.value = host.write.value
      /\ run.on = TRUE /\ run.landed = TRUE
  BY <1>1 DEF WriteRuns
<1>4. past' = [past EXCEPT !.raced = rc]
  BY DEF WriteLands
<1>5. rc \in BOOLEAN /\ past \in Pasts /\ m.undoing \in BOOLEAN
  BY DEF Policy, Hosted, Turns, Machines, Types
<1>6. rc <=> past.raced \/ /\ hides' # theirs
                           /\ \/ m.writeSeq \in past.crossed
                              \/ m.undoing /\ past.disowned
  BY <1>1
<1> HIDE DEF run, rc
<1>7. /\ past' \in Pasts /\ past'.raced = rc /\ past'.undoFailed = past.undoFailed
      /\ past'.crossed = past.crossed /\ past'.disowned = past.disowned
  BY <1>4, <1>5 DEF Pasts
<1>8. Hosted'
  BY <1>1, <1>2, <1>3 DEF Policy, Hosted, Readable, Writable
<1>9. ~Asked(m, host.read)
  BY <1>1 DEF Policy, Hosted, Turns, Readable, Asked, NoRun, Turn
<1>10. past.raced => past'.raced
  BY <1>6, <1>7
<1>11. Agreed' \/ (~m.undoing /\ theirs /\ m.overrideLive)
  <2>1. theirs \in BOOLEAN
    BY DEF Policy, Types
  <2>2. CASE m.undoing
    <3>1. hides' = TRUE
      BY <1>1, <1>5, <2>2
    <3>2. Excused \/ m.writeSeq \in past.crossed
      BY <1>1, <2>2 DEF Policy, Hiding, OnTheWay
    <3> QED  BY <1>1, <1>6, <1>7, <2>1, <2>2, <3>1, <3>2 DEF Agreed, Excused
  <2>3. CASE ~m.undoing
    <3>1. hides' = FALSE /\ m.overrideLive
      BY <1>1, <1>5, <2>3 DEF Policy, Hiding, OnTheWay
    <3> QED  BY <1>1, <2>1, <2>3, <3>1 DEF Agreed
  <2> QED  BY <2>2, <2>3
<1>12. Excused => Excused'
  BY <1>1, <1>7, <1>10 DEF Excused
<1>13. Overridden'
  <2>1. ~m.undoing => ~hides'
    BY <1>1
  <2> QED  BY <1>1, <1>7, <1>11, <1>12, <2>1 DEF Policy, Hiding, Overridden
<1>14. Reloaded'
  <2>1. unheard \/ m.reloadDuringWrite => m.writeSeq \in past.crossed
    BY <1>1 DEF Policy, Hiding, Reloaded
  <2>2. m.writeSeq \in past.crossed => Agreed'
    BY <1>1, <1>6, <1>7 DEF Agreed
  <2> QED  BY <1>1, <1>7, <2>1, <2>2 DEF Reloaded
<1>15. OnTheWay'
  BY <1>1, <1>2, <1>3, <1>11 DEF OnTheWay
<1>16. Sampled' /\ OwesItsUndo'
  BY <1>1, <1>2, <1>7, <1>9 DEF Policy, Hiding, Sampled, OwesItsUndo
<1>17. Types'
  BY <1>1, <1>5, <1>7 DEF Policy, Types
<1> QED  BY <1>8, <1>13, <1>14, <1>15, <1>16, <1>17 DEF Policy, Hiding

(* A write that ended: a read it owes samples afresh.                       *)
LEMMA WriteEndsPolicy ==
  ASSUME Policy, NEW ok \in BOOLEAN, host.write.on, host.write.landed <=> ok,
         writeSettled(ok)
  PROVE  Policy'
<1> DEFINE r == writeResult(m, m.writeSeq, ok)
           h == dispatch(host, r.m, r.act)
           g == [h EXCEPT !.write = NoRun]
           d == flushQueued(g, r.m)
           uf == (past.undoFailed \/ (~ok /\ m.undoing)) /\ r.m.overrideLive
           st == past.stood \/ (~ok /\ m.opened)
<1>1. host.write \in WriteRuns /\ m.writeSeq # 0 /\ host.write.seq = m.writeSeq
  BY DEF Policy, Hosted, Writable, NoRun
<1>2. /\ m' = r.m /\ host' = d /\ past' = [past EXCEPT !.undoFailed = uf, !.stood = st]
      /\ UNCHANGED <<hides, theirs, unheard, lastword, alive>>
  BY <1>1 DEF writeSettled
<1>3. /\ Turns(r.m) /\ (Quiets(m, r) \/ Reads(m, r)) /\ r.m.opened = m.opened
      /\ r.m.writeSeq = 0
      /\ r.m.overrideLive => /\ m.overrideLive /\ ok # m.undoing /\ ~m.reloadDuringWrite
                             /\ ~m.opened /\ m.restoreQueued => r.m.restoreSeq # 0
      /\ ~r.m.overrideLive => ~m.overrideLive \/ m.reloadDuringWrite \/ ok = m.undoing
  BY <1>1, WriteAsks DEF Policy, Hosted
<1> HIDE DEF r
<1>4. ~Asked(m, host.read)
  BY <1>1 DEF Policy, Hosted, Turns, Readable, Asked, NoRun, Turn
<1>5. /\ Readable(r.m, h)
      /\ Asked(r.m, h.read) => h.read.value = "none"
  BY <1>3, <1>4, DispatchReads DEF Policy, Hosted
<1> HIDE DEF h
<1>6. g = [read |-> h.read, write |-> NoRun, queue |-> h.queue]
  BY <1>5, HostParts DEF Readable
<1> HIDE DEF g
<1>7. /\ Readable(r.m, d) /\ d.write = NoRun
      /\ d.read.value # "none" /\ d.read.on => d.read = h.read
  <2>1. /\ r.m.seq \in Nat /\ Waits(r.m, g.queue) /\ g.write = NoRun /\ g.read = h.read
        /\ g.read = NoRun \/ (g.read \in ReadRuns /\ Turn(r.m, g.read.seq))
        /\ g = [read |-> g.read, write |-> g.write, queue |-> g.queue]
    BY <1>3, <1>5, <1>6 DEF Readable, Turns, Machines
  <2> QED  BY <2>1, Flushes
<1> HIDE DEF d
<1>8. Hosted' /\ Sampled'
  BY <1>2, <1>3, <1>5, <1>7 DEF Hosted, Sampled, Writable, Asked
<1>9. uf \in BOOLEAN /\ st \in BOOLEAN /\ past \in Pasts
  BY DEF Policy, Types
<1>10. uf <=> (past.undoFailed \/ (~ok /\ m.undoing)) /\ r.m.overrideLive
  OBVIOUS
<1> HIDE DEF uf, st
<1>11. /\ past' \in Pasts /\ past'.raced = past.raced /\ past'.undoFailed = uf
       /\ past'.crossed = past.crossed /\ past'.disowned = past.disowned
  BY <1>2, <1>9 DEF Pasts
<1>12. Agreed' = Agreed /\ Excused' = Excused
  BY <1>2, <1>11 DEF Agreed, Excused
<1>13. ~r.m.overrideLive /\ m.overrideLive => Agreed
  <2>1. m.undoing \in BOOLEAN
    BY DEF Policy, Hosted, Turns, Machines
  <2>2. m.reloadDuringWrite => Agreed
    BY DEF Policy, Hiding, Reloaded
  <2>3. ok = m.undoing => Agreed
    BY <2>1 DEF Policy, Hiding, OnTheWay
  <2> QED  BY <1>3, <2>2, <2>3
<1>14. Overridden'
  BY <1>2, <1>3, <1>12, <1>13 DEF Policy, Hiding, Overridden
<1>15. Reloaded' /\ OnTheWay'
  BY <1>2, <1>3, <1>7, <1>12 DEF Policy, Hiding, Reloaded, OnTheWay, Turns, NoRun
<1>16. OwesItsUndo'
  <2>1. CASE ~r.m.opened /\ r.m.overrideLive
    <3>1. m.undoing \in BOOLEAN
      BY DEF Policy, Hosted, Turns, Machines
    <3>2. m.restoreQueued \/ m.undoing
      BY <1>1, <1>3, <2>1 DEF Policy, Hiding, OwesItsUndo
    <3>3. r.m.restoreSeq # 0 \/ uf
      BY <1>3, <1>10, <2>1, <3>1, <3>2
    <3> QED  BY <1>2, <1>3, <1>11, <3>3 DEF OwesItsUndo
  <2> QED  BY <1>2, <2>1 DEF OwesItsUndo
<1> QED  BY <1>2, <1>8, <1>11, <1>14, <1>15, <1>16 DEF Policy, Types, Hiding

(* The event of a reload: the override it dropped is forgotten.             *)
LEMMA ReloadHeardPolicy ==
  ASSUME Policy, ReloadHeard
  PROVE  Policy'
<1> DEFINE r == configReloaded(m)
           d == dispatch(host, r.m, r.act)
           uf == past.undoFailed /\ r.m.overrideLive
           di == past.disowned /\ r.m.overrideLive
<1>1. /\ m' = r.m /\ host' = d /\ unheard /\ unheard' = FALSE /\ alive
      /\ past' = [past EXCEPT !.undoFailed = uf, !.disowned = di]
      /\ UNCHANGED <<hides, theirs, lastword, alive>>
  BY DEF ReloadHeard, Does
<1>2. /\ Turns(r.m) /\ (Quiets(m, r) \/ Reads(m, r)) /\ r.m.opened = m.opened
      /\ r.m.undoing = m.undoing /\ r.m.writeSeq = m.writeSeq
      /\ IF m.writeSeq # 0
         THEN r.m.reloadDuringWrite /\ r.m.overrideLive = m.overrideLive
         ELSE ~r.m.reloadDuringWrite /\ ~r.m.overrideLive
  BY ReloadAsks DEF Policy, Hosted
<1>3. uf \in BOOLEAN /\ di \in BOOLEAN /\ past \in Pasts
  BY DEF Policy, Types
<1>4. (uf <=> past.undoFailed /\ r.m.overrideLive) /\ (di <=> past.disowned /\ r.m.overrideLive)
  OBVIOUS
<1> HIDE DEF r, uf, di
<1>5. /\ Readable(r.m, d) /\ d.write = host.write
      /\ Asked(r.m, d.read) /\ d.read.value # "none" =>
            d.read = host.read /\ Asked(m, host.read)
  BY <1>2, DispatchReads DEF Policy, Hosted
<1> HIDE DEF d
<1>6. /\ past' \in Pasts /\ past'.raced = past.raced /\ past'.undoFailed = uf
      /\ past'.crossed = past.crossed /\ past'.disowned = di
  BY <1>1, <1>3 DEF Pasts
<1>7. Hosted'
  BY <1>1, <1>2, <1>5 DEF Policy, Hosted, Writable
<1>8. Agreed /\ Agreed'
  BY <1>1, <1>6 DEF Policy, Hiding, Reloaded, Agreed
<1>9. m.writeSeq # 0 => m.writeSeq \in past.crossed
  BY <1>1 DEF Policy, Hiding, Reloaded
<1>10. Overridden'
  BY <1>1, <1>2, <1>6, <1>8 DEF Policy, Hiding, Overridden
<1>11. Reloaded'
  BY <1>1, <1>2, <1>6, <1>8, <1>9 DEF Reloaded, Turns
<1>12. OnTheWay'
  <2>1. host.write.on => m.writeSeq # 0
    BY DEF Policy, Hosted, Writable, NoRun
  <2> QED  BY <1>1, <1>2, <1>5, <1>6, <1>8, <1>9, <2>1 DEF Policy, Hiding, OnTheWay
<1>13. Sampled'
  BY <1>1, <1>5, <1>6, <1>8 DEF Policy, Hiding, Sampled
<1>14. OwesItsUndo'
  BY <1>1, <1>2, <1>6 DEF OwesItsUndo
<1> QED  BY <1>1, <1>6, <1>7, <1>8, <1>10, <1>11, <1>12, <1>13, <1>14
         DEF Policy, Types, Hiding

(* The user's own change is crossed by all that was read or sent before it. *)
LEMMA CrossingHolds ==
  ASSUME Policy
  PROVE  /\ Crossing \in SUBSET Nat
         /\ host.read.on /\ host.read.value # "none" => host.read.seq \in Crossing
         /\ m.writeSeq # 0 => m.writeSeq \in Crossing
         /\ lastword => 0 \in Crossing
<1>1. past.crossed \in SUBSET Nat /\ m.writeSeq \in Nat
  BY DEF Policy, Hosted, Turns, Machines, Types, Pasts
<1>2. host.read.on => host.read.seq \in Nat
  <2>1. host.read = NoRun \/ host.read \in ReadRuns
    BY DEF Policy, Hosted, Readable
  <2>2. ~NoRun.on
    BY DEF NoRun
  <2>3. \A run \in ReadRuns : run.seq \in Nat
    BY DEF ReadRuns
  <2> QED  BY <2>1, <2>2, <2>3
<1> QED  BY <1>1, <1>2 DEF Crossing

LEMMA UserPolicy ==
  ASSUME Policy, NEW value \in BOOLEAN, Reload(value) \/ Eval(value)
  PROVE  Policy'
<1> DEFINE di == IF Reload(value) THEN FALSE ELSE ~value /\ (m.overrideLive \/ lastword)
<1>1. /\ hides' = value /\ theirs' = value /\ UNCHANGED <<m, host, lastword, alive>>
      /\ unheard' \in {alive, unheard}
      /\ unheard' = alive \/ (unheard' = unheard /\ ~Reload(value))
  BY DEF Reload, Eval
<1>2. /\ past' \in Pasts /\ past'.crossed = Crossing /\ past'.raced = FALSE
      /\ past'.undoFailed = past.undoFailed
      /\ \/ unheard' = alive
         \/ /\ unheard' = unheard
            /\ past'.disowned <=> ~value /\ (m.overrideLive \/ lastword)
  <2> DEFINE c == Crossing
  <2>1. c \in SUBSET Nat
    BY CrossingHolds
  <2>2. past \in Pasts
    BY DEF Policy, Types
  <2>3. CASE Reload(value)
    <3> DEFINE ga == past.gaveUp /\ chain.busy
               p == [past EXCEPT !.crossed = c, !.raced = FALSE, !.disowned = FALSE,
                                 !.evaled = FALSE, !.stale = FALSE, !.gaveUp = ga]
    <3>1. past' = p /\ unheard' = alive
      BY <2>3 DEF Reload
    <3>2. ga \in BOOLEAN
      OBVIOUS
    <3> HIDE DEF ga, c
    <3>3. /\ p \in Pasts /\ p.crossed = c /\ p.raced = FALSE
          /\ p.undoFailed = past.undoFailed
      BY <2>1, <2>2, <3>2 DEF Pasts
    <3> HIDE DEF p
    <3> QED  BY <3>1, <3>3 DEF c
  <2>4. CASE Eval(value)
    <3> DEFINE dn == ~value /\ (m.overrideLive \/ lastword)
               ev == value /\ (m.opened \/ m.overrideLive)
               p == [past EXCEPT !.crossed = c, !.raced = FALSE, !.disowned = dn,
                                 !.evaled = ev]
    <3>1. past' = p /\ unheard' = unheard
      BY <2>4 DEF Eval
    <3>2. dn \in BOOLEAN /\ ev \in BOOLEAN
      OBVIOUS
    <3>4. dn <=> ~value /\ (m.overrideLive \/ lastword)
      OBVIOUS
    <3> HIDE DEF dn, ev, c
    <3>3. /\ p \in Pasts /\ p.crossed = c /\ p.raced = FALSE
          /\ p.undoFailed = past.undoFailed /\ p.disowned = dn
      BY <2>1, <2>2, <3>2 DEF Pasts
    <3> HIDE DEF p
    <3> QED  BY <3>1, <3>3, <3>4 DEF c
  <2> QED  BY <2>3, <2>4
<1>3. Hosted' /\ Types'
  BY <1>1, <1>2 DEF Policy, Hosted, Types, Readable, Writable
<1>4. Agreed'
  BY <1>1 DEF Agreed
<1>5. Overridden'
  BY <1>1, <1>2, <1>4, CrossingHolds DEF Policy, Hiding, Overridden, Excused
<1>6. Sampled' /\ Reloaded'
  BY <1>1, <1>2, <1>4, CrossingHolds
     DEF Policy, Hosted, Turns, Hiding, Sampled, Reloaded, Asked
<1>7. OnTheWay'
  <2>1. host.write.on => m.writeSeq # 0
    BY DEF Policy, Hosted, Writable, NoRun
  <2> QED  BY <1>1, <1>2, <1>4, <2>1, CrossingHolds DEF Policy, Hiding, OnTheWay
<1>8. OwesItsUndo'
  BY <1>1, <1>2 DEF Policy, Hiding, OwesItsUndo
<1> QED  BY <1>3, <1>5, <1>6, <1>7, <1>8 DEF Policy, Hiding

(* The panel is destroyed: what it knew of the override goes with its last  *)
(* word.                                                                    *)
LEMMA DestroyPolicy ==
  ASSUME Policy, Destroy
  PROVE  Policy'
<1> DEFINE c == IF unheard \/ m.reloadDuringWrite THEN {0} ELSE {}
           y == [policyInitial EXCEPT !.seq = m.seq]
<1>1. /\ m' = y /\ host' = [read |-> NoRun, write |-> NoRun, queue |-> <<>>]
      /\ alive /\ alive' = FALSE /\ unheard' = FALSE
      /\ past' = [past EXCEPT !.crossed = c] /\ UNCHANGED <<hides, theirs>>
  BY DEF Destroy, destroyed
<1>2. lastword' = (destroyed(m).act.op = "write")
  BY DEF Destroy
<1>3. lastword' \in BOOLEAN /\ (lastword' <=> m.overrideLive)
  BY <1>2 DEF destroyed, WriteAct, NoAct
<1>4. /\ Turns(y) /\ y.writeSeq = 0 /\ ~y.opened /\ ~y.overrideLive
      /\ ~y.reloadDuringWrite /\ y.probeSeq = 0 /\ y.restoreSeq = 0
  <2>1. m.seq \in Nat
    BY DEF Policy, Hosted, Turns, Machines
  <2>2. /\ policyInitial \in Machines /\ policyInitial.probeSeq = 0
        /\ policyInitial.restoreSeq = 0 /\ policyInitial.writeSeq = 0
        /\ policyInitial.opened = FALSE /\ policyInitial.overrideLive = FALSE
        /\ policyInitial.reloadDuringWrite = FALSE /\ policyInitial.undoing = FALSE
    BY DEF policyInitial, Machines
  <2>3. /\ y \in Machines /\ y.seq = m.seq /\ y.probeSeq = 0 /\ y.restoreSeq = 0
        /\ y.writeSeq = 0 /\ y.opened = FALSE /\ y.overrideLive = FALSE
        /\ y.reloadDuringWrite = FALSE /\ y.undoing = FALSE
    BY <2>1, <2>2 DEF Machines
  <2> HIDE DEF y
  <2> QED  BY <2>1, <2>3 DEF Turns
<1>5. c \in SUBSET Nat /\ past \in Pasts
  BY DEF Policy, Types
<1>8. unheard \/ m.reloadDuringWrite => 0 \in c
  OBVIOUS
<1> HIDE DEF c, y
<1>6. /\ past' \in Pasts /\ past'.crossed = c /\ past'.raced = past.raced
      /\ past'.disowned = past.disowned
  BY <1>1, <1>5 DEF Pasts
<1>7. Hosted' /\ Types'
  BY <1>1, <1>3, <1>4, <1>6 DEF Policy, Hosted, Types, Readable, Writable, Waits
<1>9. Agreed' = Agreed /\ Excused' = Excused
  BY <1>1, <1>6 DEF Agreed, Excused
<1>10. Overridden'
  BY <1>1, <1>3, <1>4, <1>6, <1>8, <1>9 DEF Policy, Hiding, Overridden
<1>11. Sampled' /\ OnTheWay'
  BY <1>1 DEF Sampled, OnTheWay, Asked, NoRun
<1>12. Reloaded' /\ OwesItsUndo'
  BY <1>1, <1>4 DEF Reloaded, OwesItsUndo
<1> QED  BY <1>7, <1>10, <1>11, <1>12 DEF Policy, Hiding

LEMMA LastWordPolicy ==
  ASSUME Policy, LastWordLands
  PROVE  Policy'
<1> DEFINE rc == past.raced \/ /\ hides' # theirs
                               /\ 0 \in past.crossed \/ past.disowned
<1>1. /\ lastword /\ lastword' = FALSE /\ hides' = TRUE
      /\ past' = [past EXCEPT !.raced = rc]
      /\ UNCHANGED <<m, host, theirs, unheard, alive>>
  BY DEF LastWordLands
<1>2. rc \in BOOLEAN /\ past \in Pasts
  BY DEF Policy, Types
<1>3. rc <=> past.raced \/ (~theirs /\ (0 \in past.crossed \/ past.disowned))
  BY <1>1 DEF Policy, Types
<1> HIDE DEF rc
<1>4. /\ past' \in Pasts /\ past'.raced = rc /\ past'.undoFailed = past.undoFailed
      /\ past'.crossed = past.crossed /\ past'.disowned = past.disowned
  BY <1>1, <1>2 DEF Pasts
<1>5. Hosted' /\ Types'
  BY <1>1, <1>4 DEF Policy, Hosted, Types, Readable, Writable
<1>6. Agreed'
  <2>1. theirs \in BOOLEAN /\ (Excused \/ 0 \in past.crossed)
    BY <1>1 DEF Policy, Types, Hiding, Overridden
  <2> QED  BY <1>1, <1>3, <1>4, <2>1 DEF Agreed, Excused
<1>7. past.raced => past'.raced
  BY <1>3, <1>4
<1>8. Overridden' /\ OnTheWay'
  BY <1>1, <1>4, <1>6, <1>7 DEF Policy, Hiding, Overridden, OnTheWay, Excused
<1>9. Sampled' /\ Reloaded' /\ OwesItsUndo'
  BY <1>1, <1>4, <1>6, <1>7 DEF Policy, Hiding, Sampled, Reloaded, OwesItsUndo
<1> QED  BY <1>5, <1>8, <1>9 DEF Policy, Hiding

(* The nudge of the gaps keeps to its own.                                  *)
LEMMA RelayoutPolicy ==
  ASSUME Policy, Relayout \/ RelayoutFails
  PROVE  Policy'
<1>1. UNCHANGED <<m, host, hides, theirs, unheard, lastword, alive>>
  BY DEF Relayout, RelayoutFails, policyVars
<1>2. /\ past' \in Pasts /\ past'.raced = past.raced /\ past'.undoFailed = past.undoFailed
      /\ past'.crossed = past.crossed /\ past'.disowned = past.disowned
  <2>0. past \in Pasts
    BY DEF Policy, Types
  <2>1. CASE past' = past
    BY <2>0, <2>1
  <2>2. ASSUME NEW s \in BOOLEAN, NEW u \in BOOLEAN,
               past' = [past EXCEPT !.stale = s, !.unmoved = u]
        PROVE  /\ past' \in Pasts /\ past'.raced = past.raced
               /\ past'.undoFailed = past.undoFailed
               /\ past'.crossed = past.crossed /\ past'.disowned = past.disowned
    BY <2>0, <2>2 DEF Pasts
  <2>3. ASSUME NEW g \in BOOLEAN, past' = [past EXCEPT !.gaveUp = g]
        PROVE  /\ past' \in Pasts /\ past'.raced = past.raced
               /\ past'.undoFailed = past.undoFailed
               /\ past'.crossed = past.crossed /\ past'.disowned = past.disowned
    BY <2>0, <2>3 DEF Pasts
  <2>4. CASE past' = [past EXCEPT !.unmoved = TRUE]
    BY <2>0, <2>4 DEF Pasts
  <2>5. ASSUME NEW lands \in BOOLEAN, GapsWritten(lands)
        PROVE  \E s \in BOOLEAN, u \in BOOLEAN :
                  past' = [past EXCEPT !.stale = s, !.unmoved = u]
    <3> DEFINE s == past.stale /\ ~(chain.phase = "nudging" /\ lands)
               u == past.unmoved \/ (chain.phase = "nudging" /\ ~lands)
    <3>1. s \in BOOLEAN /\ u \in BOOLEAN
      OBVIOUS
    <3>2. past' = [past EXCEPT !.stale = s, !.unmoved = u]
      BY <2>5 DEF GapsWritten
    <3> QED  BY <3>1, <3>2
  <2>6. ASSUME NEW value, GapsReadBack(value)
        PROVE  \E g \in BOOLEAN : past' = [past EXCEPT !.gaveUp = g]
    <3> DEFINE g == past.gaveUp \/ (chain.phase = "restore-check" /\ chain.retried
                                      /\ value # chain.original)
    <3>1. g \in BOOLEAN
      OBVIOUS
    <3>2. past' = [past EXCEPT !.gaveUp = g]
      BY <2>6 DEF GapsReadBack
    <3> QED  BY <3>1, <3>2
  <2> QED  BY <2>1, <2>2, <2>3, <2>4, <2>5, <2>6 DEF Relayout, RelayoutFails
<1>3. Hosted' /\ Types'
  BY <1>1, <1>2 DEF Policy, Hosted, Types, Readable, Writable
<1>4. Agreed' = Agreed /\ Excused' = Excused
  BY <1>1, <1>2 DEF Agreed, Excused
<1>5. Overridden' /\ Sampled' /\ Reloaded' /\ OnTheWay' /\ OwesItsUndo'
  BY <1>1, <1>2, <1>4
     DEF Policy, Hiding, Overridden, Sampled, Reloaded, OnTheWay, OwesItsUndo
<1> QED  BY <1>3, <1>5 DEF Policy, Hiding

LEMMA PolicyHolds ==
  ASSUME Policy, [Next]_vars
  PROVE  Policy'
<1>1. CASE UNCHANGED vars
  <2>1. UNCHANGED <<m, host, hides, theirs, unheard, lastword, alive, past>>
    BY <1>1 DEF vars, policyVars
  <2>2. Hosted' /\ Types'
    BY <2>1 DEF Policy, Hosted, Types, Readable, Writable
  <2>3. Agreed' = Agreed /\ Excused' = Excused
    BY <2>1 DEF Agreed, Excused
  <2>4. Overridden' /\ Sampled' /\ Reloaded' /\ OnTheWay' /\ OwesItsUndo'
    BY <2>1, <2>3 DEF Policy, Hiding, Overridden, Sampled, Reloaded, OnTheWay, OwesItsUndo
  <2> QED  BY <2>2, <2>4 DEF Policy, Hiding
<1>2. CASE ReadSamples
  BY <1>2, SamplesPolicy
<1>3. CASE ReadAnswers \/ ReadFails
  BY <1>3, ReadsPolicy
<1>4. CASE ReadExits
  BY <1>4, ReadExitsPolicy
<1>5. CASE WriteLands
  BY <1>5, WriteLandsPolicy
<1>6. CASE WriteExits
  <2>1. host.write.on /\ (host.write.landed <=> TRUE) /\ writeSettled(TRUE)
    BY <1>6 DEF WriteExits
  <2> QED  BY <2>1, WriteEndsPolicy
<1>7. CASE WriteFails
  <2>1. host.write.on /\ (host.write.landed <=> FALSE) /\ writeSettled(FALSE)
    BY <1>7 DEF WriteFails
  <2> QED  BY <2>1, WriteEndsPolicy
<1>8. CASE ReloadHeard
  BY <1>8, ReloadHeardPolicy
<1>9. CASE LastWordLands
  BY <1>9, LastWordPolicy
<1>10. CASE Relayout \/ RelayoutFails
  BY <1>10, RelayoutPolicy
<1>11. CASE \E opens \in BOOLEAN : targetOpens(opens)
  BY <1>11, OpensPolicy
<1>12. CASE \E value \in BOOLEAN : Reload(value) \/ Eval(value)
  BY <1>12, UserPolicy
<1>13. CASE Destroy
  BY <1>13, DestroyPolicy
<1> QED  BY <1>1, <1>2, <1>3, <1>4, <1>5, <1>6, <1>7, <1>8, <1>9, <1>10, <1>11, <1>12, <1>13
         DEF Next, Panel, User

-----------------------------------------------------------------------------
(* The gaps.                                                                *)

Phases ==
    {"idle", "kickoff", "nudging", "nudge-check", "waiting", "restoring", "restore-check"}
Chains ==
    [phase : Phases, retried : BOOLEAN, busy : BOOLEAN, pending : BOOLEAN, original : Nat]

(* What a chain read before its nudge are the user's gaps, and those are    *)
(* there while no chain has written: unless one has reported that it could  *)
(* not restore them.                                                        *)
Nudged ==
    /\ chain \in Chains /\ gaps \in Nat
    /\ chain.busy <=> chain.phase # "idle"
    /\ (IF chain.phase \in {"idle", "kickoff"} THEN gaps ELSE chain.original) = 0
           \/ past.gaveUp

LEMMA ChainsEnd ==
  ASSUME NEW c \in Chains
  PROVE  /\ ChainOver(c) \in Chains /\ ChainOver(c).phase \in {"idle", "kickoff"}
         /\ ChainOver(c).busy <=> ChainOver(c).phase # "idle"
<1>1. Idle \in Chains /\ Idle.phase = "idle" /\ Idle.busy = FALSE
  BY DEF Idle, Chains, Phases
<1> DEFINE k == [Idle EXCEPT !.phase = "kickoff", !.busy = TRUE]
<1>2. k \in Chains /\ k.phase = "kickoff" /\ k.busy = TRUE
  BY <1>1 DEF Chains, Phases
<1> QED  BY <1>1, <1>2 DEF ChainOver

LEMMA ReadBackNudged ==
  ASSUME Nudged, past \in Pasts, NEW value \in {gaps, -1}, GapsReadBack(value), gaps' = gaps
  PROVE  Nudged'
<1> DEFINE ga == past.gaveUp \/ (chain.phase = "restore-check" /\ chain.retried
                                   /\ value # chain.original)
           w == [chain EXCEPT !.phase = "waiting"]
           s == [chain EXCEPT !.phase = "restoring", !.retried = TRUE]
<1>1. chain.phase \in {"nudge-check", "restore-check"} /\ chain' = readBack(chain, value)
  BY DEF GapsReadBack
<1>2. past'.gaveUp = ga
  <2>1. past' = [past EXCEPT !.gaveUp = ga]
    BY DEF GapsReadBack
  <2>2. ga \in BOOLEAN
    OBVIOUS
  <2> HIDE DEF ga
  <2> QED  BY <2>1, <2>2 DEF Pasts
<1>3. chain \in Chains /\ chain.original \in Nat /\ gaps \in Nat
      /\ (chain.original = 0 \/ past.gaveUp)
  BY <1>1 DEF Nudged, Chains
<1>6. chain.busy = TRUE
  BY <1>1 DEF Nudged, Chains
<1>4. CASE value = chain.original
  <2>1. gaps = chain.original /\ chain' = ChainOver(chain)
    BY <1>1, <1>3, <1>4 DEF readBack
  <2> QED  BY <1>2, <1>3, <2>1, ChainsEnd DEF Nudged
<1>5. CASE value # chain.original
  <2>1. CASE chain.phase = "nudge-check"
    <3>1. chain' = w
      BY <1>1, <1>5, <2>1 DEF readBack
    <3>2. w \in Chains /\ w.phase = "waiting" /\ w.busy = chain.busy
          /\ w.original = chain.original
      BY <1>3 DEF Chains, Phases
    <3> HIDE DEF w
    <3> QED  BY <1>2, <1>3, <1>6, <3>1, <3>2 DEF Nudged
  <2>2. CASE chain.phase = "restore-check" /\ chain.retried
    <3>1. chain' = ChainOver(chain) /\ past'.gaveUp
      BY <1>1, <1>2, <1>5, <2>2 DEF readBack
    <3> QED  BY <1>3, <3>1, ChainsEnd DEF Nudged
  <2>3. CASE chain.phase = "restore-check" /\ ~chain.retried
    <3>1. chain' = s
      BY <1>1, <1>5, <2>3 DEF readBack
    <3>2. s \in Chains /\ s.phase = "restoring" /\ s.busy = chain.busy
          /\ s.original = chain.original
      BY <1>3 DEF Chains, Phases
    <3> HIDE DEF s
    <3> QED  BY <1>2, <1>3, <1>6, <3>1, <3>2 DEF Nudged
  <2> QED  BY <1>1, <2>1, <2>2, <2>3
<1> QED  BY <1>4, <1>5

LEMMA WrittenNudged ==
  ASSUME Nudged, past \in Pasts, NEW lands \in BOOLEAN, GapsWritten(lands)
  PROVE  Nudged'
<1> DEFINE nudges == chain.phase = "nudging"
           w == [chain EXCEPT !.phase = IF nudges THEN "nudge-check" ELSE "restore-check"]
           st == past.stale /\ ~(nudges /\ lands)
           un == past.unmoved \/ (nudges /\ ~lands)
<1>1. /\ chain.phase \in {"nudging", "restoring"} /\ chain' = w
      /\ gaps' = IF lands THEN chain.original + (IF nudges THEN 1 ELSE 0) ELSE gaps
      /\ past' = [past EXCEPT !.stale = st, !.unmoved = un]
  BY DEF GapsWritten
<1>2. chain \in Chains /\ chain.original \in Nat /\ gaps \in Nat /\ chain.busy
      /\ (chain.original = 0 \/ past.gaveUp)
  BY <1>1 DEF Nudged, Chains
<1>3. past'.gaveUp = past.gaveUp
  <2>1. st \in BOOLEAN /\ un \in BOOLEAN
    OBVIOUS
  <2> HIDE DEF st, un
  <2> QED  BY <1>1, <2>1 DEF Pasts
<1>4. /\ w \in Chains /\ w.phase \in {"nudge-check", "restore-check"}
      /\ w.busy = chain.busy /\ w.original = chain.original
  BY <1>2 DEF Chains, Phases
<1>5. gaps' \in Nat
  BY <1>1, <1>2
<1> HIDE DEF w
<1> QED  BY <1>1, <1>2, <1>3, <1>4, <1>5 DEF Nudged

LEMMA RelayoutNudged ==
  ASSUME Nudged, past \in Pasts, Relayout \/ RelayoutFails
  PROVE  Nudged'
<1>1. CASE GapsProbed /\ UNCHANGED <<gaps, past>>
  <2> DEFINE w == [chain EXCEPT !.phase = "nudging", !.original = gaps]
  <2>1. chain.phase = "kickoff" /\ chain' = w
    BY <1>1 DEF GapsProbed
  <2>2. /\ w \in Chains /\ w.phase = "nudging" /\ w.busy = chain.busy /\ w.original = gaps
    BY DEF Nudged, Chains, Phases
  <2> HIDE DEF w
  <2> QED  BY <1>1, <2>1, <2>2 DEF Nudged
<1>2. CASE restoreDue /\ UNCHANGED <<gaps, past>>
  <2> DEFINE w == [chain EXCEPT !.phase = "restoring"]
  <2>1. chain.phase = "waiting" /\ chain' = w
    BY <1>2 DEF restoreDue
  <2>2. /\ w \in Chains /\ w.phase = "restoring" /\ w.busy = chain.busy
        /\ w.original = chain.original
    BY DEF Nudged, Chains, Phases
  <2> HIDE DEF w
  <2> QED  BY <1>2, <2>1, <2>2 DEF Nudged
<1>3. CASE \E lands \in BOOLEAN : GapsWritten(lands)
  BY <1>3, WrittenNudged
<1>4. CASE gaps' = gaps /\ \E value \in {gaps, -1} : GapsReadBack(value)
  BY <1>4, ReadBackNudged
<1>5. CASE GapsUnread /\ past' = [past EXCEPT !.unmoved = TRUE] /\ gaps' = gaps
  <2>1. chain.phase = "kickoff" /\ chain' = ChainOver(chain)
    BY <1>5 DEF GapsUnread
  <2>2. past'.gaveUp = past.gaveUp
    BY <1>5 DEF Pasts
  <2> QED  BY <1>5, <2>1, <2>2, ChainsEnd DEF Nudged
<1> QED  BY <1>1, <1>2, <1>3, <1>4, <1>5 DEF Relayout, RelayoutFails

LEMMA OpensNudged ==
  ASSUME Nudged, past \in Pasts, NEW opens \in BOOLEAN, targetOpens(opens)
  PROVE  Nudged'
<1> DEFINE k == [Idle EXCEPT !.phase = "kickoff", !.busy = TRUE]
           w == [chain EXCEPT !.pending = TRUE]
           st == past.stale \/ budget.gaps
           ev == past.evaled /\ m.overrideLive
<1>1. /\ past' = [past EXCEPT !.stood = FALSE, !.stale = st, !.evaled = ev]
      /\ gaps' = gaps
      /\ chain' = IF ~budget.gaps THEN chain ELSE IF chain.busy THEN w ELSE k
  BY DEF targetOpens
<1>2. past'.gaveUp = past.gaveUp
  <2>1. st \in BOOLEAN /\ ev \in BOOLEAN
    OBVIOUS
  <2> HIDE DEF st, ev
  <2> QED  BY <1>1, <2>1 DEF Pasts
<1>3. /\ w \in Chains /\ w.phase = chain.phase /\ w.busy = chain.busy
      /\ w.original = chain.original
  BY DEF Nudged, Chains
<1>4. k \in Chains /\ k.phase = "kickoff" /\ k.busy = TRUE
  <2>1. Idle \in Chains
    BY DEF Idle, Chains, Phases
  <2> QED  BY <2>1 DEF Chains, Phases
<1> HIDE DEF k, w
<1> QED  BY <1>1, <1>2, <1>3, <1>4 DEF Nudged

LEMMA ReloadNudged ==
  ASSUME Nudged, past \in Pasts, NEW value \in BOOLEAN, Reload(value)
  PROVE  Nudged'
<1> DEFINE ga == past.gaveUp /\ chain.busy
           c == Crossing
<1>1. /\ past' = [past EXCEPT !.crossed = c, !.raced = FALSE, !.disowned = FALSE,
                              !.evaled = FALSE, !.stale = FALSE, !.gaveUp = ga]
      /\ gaps' = 0 /\ chain' = chain
  BY DEF Reload
<1>2. past'.gaveUp = ga
  <2> HIDE DEF ga, c
  <2> QED  BY <1>1 DEF Pasts
<1> QED  BY <1>1, <1>2 DEF Nudged

(* No step of the cursor policy, and no other of the user's, is about gaps. *)
LEMMA OthersNudged ==
  ASSUME Nudged, past \in Pasts, UNCHANGED gapVars, past'.gaveUp = past.gaveUp
  PROVE  Nudged'
  BY DEF Nudged, gapVars

LEMMA NudgedHolds ==
  ASSUME Nudged, past \in Pasts, [Next]_vars
  PROVE  Nudged'
<1>1. ASSUME past' = past PROVE past'.gaveUp = past.gaveUp
  BY <1>1
<1>2. ASSUME NEW result, NEW failed \in BOOLEAN, past' = AfterAnswer(result, failed)
      PROVE  past'.gaveUp = past.gaveUp
  <2> DEFINE st == past.stood \/ (failed /\ m.opened)
             cr == past.crossed \cup IF result.act.op = "write" /\ unheard
                                     THEN {result.act.seq} ELSE {}
             di == past.disowned \/ (result.act.op = "write" /\ host.read.seq \in past.crossed)
  <2>1. past' = [past EXCEPT !.stood = st, !.crossed = cr, !.disowned = di]
    BY <1>2 DEF AfterAnswer
  <2> HIDE DEF st, cr, di
  <2> QED  BY <2>1 DEF Pasts
<1>3. CASE ReadAnswers \/ ReadFails
  <2>1. UNCHANGED gapVars /\ past'.gaveUp = past.gaveUp
    BY <1>2, <1>3 DEF ReadAnswers, ReadFails
  <2> QED  BY <2>1, OthersNudged
<1>4. CASE UNCHANGED vars \/ ReadSamples \/ ReadExits
  <2>1. UNCHANGED gapVars /\ past' = past
    BY <1>4 DEF vars, ReadSamples, ReadExits
  <2> QED  BY <1>1, <2>1, OthersNudged
<1>5. CASE WriteLands \/ LastWordLands
  <2>1. UNCHANGED gapVars /\ \E rc : past' = [past EXCEPT !.raced = rc]
    BY <1>5 DEF WriteLands, LastWordLands
  <2>2. past'.gaveUp = past.gaveUp
    BY <2>1 DEF Pasts
  <2> QED  BY <2>1, <2>2, OthersNudged
<1>6. CASE WriteExits \/ WriteFails
  <2>1. UNCHANGED gapVars /\ \E uf, st : past' = [past EXCEPT !.undoFailed = uf, !.stood = st]
    BY <1>6 DEF WriteExits, WriteFails, writeSettled
  <2>2. past'.gaveUp = past.gaveUp
    BY <2>1 DEF Pasts
  <2> QED  BY <2>1, <2>2, OthersNudged
<1>7. CASE ReloadHeard
  <2>1. UNCHANGED gapVars /\ \E uf, di : past' = [past EXCEPT !.undoFailed = uf, !.disowned = di]
    BY <1>7 DEF ReloadHeard
  <2>2. past'.gaveUp = past.gaveUp
    BY <2>1 DEF Pasts
  <2> QED  BY <2>1, <2>2, OthersNudged
<1>8. CASE \E value \in BOOLEAN : Eval(value)
  <2>1. PICK value \in BOOLEAN : Eval(value)
    BY <1>8
  <2> DEFINE c == Crossing
             dn == ~value /\ (m.overrideLive \/ lastword)
             ev == value /\ (m.opened \/ m.overrideLive)
  <2>2. UNCHANGED gapVars /\ past' = [past EXCEPT !.crossed = c, !.raced = FALSE,
                                                 !.disowned = dn, !.evaled = ev]
    BY <2>1 DEF Eval
  <2> HIDE DEF c, dn, ev
  <2>3. past'.gaveUp = past.gaveUp
    BY <2>2 DEF Pasts
  <2> QED  BY <2>2, <2>3, OthersNudged
<1>9. CASE Destroy
  <2>1. UNCHANGED gapVars /\ \E c : past' = [past EXCEPT !.crossed = c]
    BY <1>9 DEF Destroy
  <2>2. past'.gaveUp = past.gaveUp
    BY <2>1 DEF Pasts
  <2> QED  BY <2>1, <2>2, OthersNudged
<1>10. CASE Relayout \/ RelayoutFails
  BY <1>10, RelayoutNudged
<1>11. CASE \E opens \in BOOLEAN : targetOpens(opens)
  BY <1>11, OpensNudged
<1>12. CASE \E value \in BOOLEAN : Reload(value)
  BY <1>12, ReloadNudged
<1> QED  BY <1>3, <1>4, <1>5, <1>6, <1>7, <1>8, <1>9, <1>10, <1>11, <1>12
         DEF Next, Panel, User

-----------------------------------------------------------------------------
IInv == Policy /\ Nudged

LEMMA InitHolds ==
  ASSUME Init
  PROVE  IInv
<1>1. Turns(m) /\ Readable(m, host) /\ Writable(m, host)
  <2>1. /\ policyInitial \in Machines /\ policyInitial.seq = 0 /\ policyInitial.probeSeq = 0
        /\ policyInitial.restoreSeq = 0 /\ policyInitial.writeSeq = 0
        /\ policyInitial.reloadDuringWrite = FALSE /\ policyInitial.undoing = FALSE
    BY DEF policyInitial, Machines
  <2>2. Turns(m)
    BY <2>1 DEF Init, Turns
  <2>3. Readable(m, host) /\ Writable(m, host)
    BY <2>1 DEF Init, Readable, Writable, Waits, NoRun
  <2> QED  BY <2>2, <2>3
<1>2. past \in Pasts /\ past.gaveUp = FALSE
  BY DEF Init, NoPast, Pasts
<1>3. Types
  BY <1>2 DEF Init, Types
<1>4. Overridden /\ Sampled /\ Reloaded /\ OnTheWay /\ OwesItsUndo
  BY DEF Init, policyInitial, NoRun, Overridden, Agreed, Excused, Sampled, Asked, Reloaded,
         OnTheWay, OwesItsUndo
<1>5. Nudged
  <2>1. Idle \in Chains /\ Idle.phase = "idle" /\ Idle.busy = FALSE
    BY DEF Idle, Chains, Phases
  <2> QED  BY <2>1 DEF Init, Nudged
<1> QED  BY <1>1, <1>3, <1>4, <1>5 DEF IInv, Policy, Hosted, Hiding

(* The strengthening is inductive: for any budgets, any number of openings, *)
(* reloads, changes by hand, failures and deaths.                           *)
THEOREM OptionsAreKept == Spec => []IInv
<1>1. Init => IInv
  BY InitHolds
<1>2. IInv /\ [Next]_vars => IInv'
  BY PolicyHolds, NudgedHolds DEF IInv, Policy, Types
<1> QED  BY <1>1, <1>2, PTL DEF Spec

(* CursorPolicy.js never has a verify read and a write of its own out       *)
(* together, so no read samples a value that is about to change.            *)
THEOREM NoReadMeetsAWrite == Spec => []ReadsNeverMeetWrites
<1>1. IInv => ReadsNeverMeetWrites
  BY DEF IInv, Policy, Hosted, Turns, ReadsNeverMeetWrites
<1> QED  BY <1>1, OptionsAreKept, PTL

(* With the panel closed or destroyed and nothing under way, the compositor *)
(* hides the cursor as the user last chose, but for the documented races    *)
(* and an undo that failed and is still owed.                               *)
THEOREM TheHidingIsTheUsers == Spec => []HidingIsGivenBack
<1>1. IInv => HidingIsGivenBack
  <2> SUFFICES ASSUME IInv, AtRest, ~m.opened, ~Agreed
               PROVE  m.overrideLive /\ past.undoFailed
    BY DEF HidingIsGivenBack, Agreed
  <2>1. m.overrideLive /\ ~lastword
    BY DEF IInv, Policy, Hiding, Overridden, AtRest
  <2>2. m.restoreSeq = 0 /\ m.writeSeq = 0
    BY DEF AtRest, NothingAsked
  <2> QED  BY <2>1, <2>2 DEF IInv, Policy, Hiding, OwesItsUndo
<1> QED  BY <1>1, OptionsAreKept, PTL

(* Panel.qml's chain of nudge and restore, over, has left the user's gaps,  *)
(* or one has reported that it could not.                                   *)
THEOREM TheGapsAreTheUsers == Spec => []GapsComeBack
<1>1. IInv => GapsComeBack
  BY DEF IInv, Nudged, GapsComeBack
<1> QED  BY <1>1, OptionsAreKept, PTL

-----------------------------------------------------------------------------
(* The seat's layout, followed (LayoutFollow). *)

(* What the guard, the motion and their wires are made of. *)
Motioned == [device : Devices, group : LayoutGroups]
SeatReadings == [known : BOOLEAN, groups : [Devices -> LayoutGroups]]
Guards ==
    [armed : BOOLEAN, openedAge : Nat, followed : LayoutGroups \cup {-1},
     commanded : LayoutGroups \cup {-1}, candidate : LayoutGroups \cup {-1},
     candidateAge : Nat, echoGroup : LayoutGroups \cup {-1}, echoSet : SUBSET Safe,
     echoAge : Nat]
Motions ==
    [mover : Safe \cup {NoDevice}, last : Devices \cup {NoDevice}, lastAge : Nat,
     candidate : Safe \cup {NoDevice}, candidateAge : Nat, candidateBase : SeatReadings,
     confirming : Safe \cup {NoDevice}, confirmingBase : SeatReadings,
     previous : SeatReadings, gap : BOOLEAN]

(* The types that the two invariants below rest on. *)
FollowTypes ==
    /\ groups \in [Devices -> LayoutGroups] /\ answer.groups \in [Devices -> LayoutGroups]
    /\ answer = [taken |-> answer.taken, groups |-> answer.groups, main |-> answer.main]
    /\ remembered \in LayoutGroups /\ anchor \in Safe /\ linked \in BOOLEAN
    /\ moves \in Seq(Motioned) /\ events \in Seq(Motioned)
    /\ guard \in Guards /\ motion \in Motions
    /\ seen \in [group : LayoutGroups \cup {-1}, age : Nat] /\ touched \subseteq Safe

(* A guard in its window follows some group, and a flip it holds has been what every
   reading answered since it was first seen. *)
HeldFlip ==
    /\ guard.armed => guard.followed # -1
    /\ guard.candidate # -1 =>
          seen.group = guard.candidate /\ guard.candidateAge <= seen.age

(* What the panel will hear, from now to the end of the burst. *)
Pending == events \o moves

(* The i-th of the moves p is not heard by itself: another device moves after it, or
   right before it, or was the last one heard. *)
Accompanied(p, i, s) ==
    \/ \E j \in (i + 1) .. Len(p) : p[j].device # p[i].device
    \/ i > 1 /\ p[i - 1].device # p[i].device
    \/ i = 1 /\ s.last \notin {NoDevice, p[i].device} /\ s.lastAge = 0

(* Keyboards outside t move in company only. *)
InCompany(p, s, t) == \A i \in 1 .. Len(p) : p[i].device \in t \/ Accompanied(p, i, s)

(* Another device is still to be heard. *)
OthersFollow(p, d) == \E i \in 1 .. Len(p) : p[i].device # d

(* A candidate the user did not toggle is found out before its quiet begins. *)
NotLone(s, p, t) ==
    s.candidate \notin t \cup {NoDevice} => s.candidateAge = 0 /\ OthersFollow(p, s.candidate)

LoneInv ==
    /\ motion.confirming \in touched \cup {NoDevice}
    /\ NotLone(motion, Pending, touched)
    /\ linked => InCompany(Pending, motion, touched)
    /\ ~linked => /\ events = <<>> /\ ~answer.taken
                  /\ motion.candidate = NoDevice /\ motion.confirming = NoDevice

(* Inductive where the seat has two keyboards or more. *)
FollowInv == FollowTypes /\ HeldFlip /\ LoneInv

(* The arithmetic facts the constants give. *)
LEMMA FollowConstants ==
    /\ Safe \subseteq Devices /\ NoDevice \notin Devices /\ 0 \in LayoutGroups
    /\ LayoutGroups \subseteq Nat /\ -1 \notin LayoutGroups
    /\ QuietTicks \in Nat /\ QuietTicks > 0
    /\ WindowTicks \in Nat /\ QuiesceTicks \in Nat /\ EchoTicks \in Nat
  BY DevicesAssumption, MotionAssumption, FollowAssumption DEF Devices, LayoutGroups

(* Each function of SettleGuard.js returns a guard. *)
LEMMA GuardsAreKept ==
    ASSUME NEW x \in Guards
    PROVE  /\ Guard!initial \in Guards /\ Guard!aged(x) \in Guards
           /\ Guard!connected(x) \in Guards
           /\ \A g \in LayoutGroups : Guard!commanded(x, g, Safe) \in Guards
<1> USE FollowConstants
<1>1. Guard!initial \in Guards
  BY DEF Guards, Guard!initial, Guard!NoGroup
<1>2. \A n \in Nat, limit \in Nat : Guard!Older(n, limit) \in Nat
  BY DEF Guard!Older
<1>3. Guard!aged(x) \in Guards
  BY <1>2 DEF Guards, Guard!aged
<1>4. Guard!connected(x) \in Guards
  BY <1>1 DEF Guards, Guard!connected
<1>5. ASSUME NEW g \in LayoutGroups
      PROVE  Guard!commanded(x, g, Safe) \in Guards
  BY DEF Guards, Guard!commanded, Guard!NoCandidate, Guard!NoGroup
<1> QED  BY <1>1, <1>3, <1>4, <1>5

(* From x to y: the group read is followed and no flip held, or it is held and the
   group followed before is kept. *)
FollowsOrHolds(x, observed, y) ==
    \/ y.candidate = -1 /\ y.followed = observed
    \/ /\ y.candidate = observed /\ y.candidateAge = 0
       /\ y.followed = x.followed /\ x.followed # -1

(* Inside the window another group is followed for one of three reasons only. *)
FollowsForAReason(x, observed, lone, y) ==
    \/ x.followed = -1
    \/ y.followed = x.followed
    \/ ~Guard!InWindow(x)
    \/ observed = x.commanded /\ y.followed = observed
    \/ lone /\ y.followed = observed
    \/ Guard!Persisted(x, observed) /\ y.followed = observed

(* What decide returns. *)
LEMMA DecideCases ==
    ASSUME NEW x \in Guards, NEW observed \in LayoutGroups, NEW lone \in BOOLEAN,
           NEW d, d = Guard!decide(x, observed, lone)
    PROVE  /\ d.state \in Guards /\ d.held \in LayoutGroups /\ d.follow \in BOOLEAN
           /\ FollowsOrHolds(x, observed, d.state)
           /\ FollowsForAReason(x, observed, lone, d.state)
<1> USE FollowConstants DEF FollowsOrHolds, FollowsForAReason
<1> DEFINE kept(y) == Guard!Follow(y, observed)
<1>1. ASSUME NEW y \in Guards
      PROVE  /\ kept(y).state \in Guards /\ kept(y).held = observed /\ kept(y).follow = TRUE
             /\ kept(y).state.candidate = -1 /\ kept(y).state.followed = observed
  BY DEF Guards, Guard!Follow, Guard!NoCandidate, Guard!NoGroup
<1>2. CASE x.followed = -1
  <2> DEFINE y == [x EXCEPT !.commanded = Guard!NoGroup, !.armed = TRUE, !.openedAge = 0]
  <2>1. y \in Guards
    BY DEF Guards, Guard!NoGroup
  <2>2. d = kept(y)
    BY <1>2 DEF Guard!decide, Guard!NoGroup
  <2> HIDE DEF kept, y
  <2>3. /\ d.state \in Guards /\ d.held = observed /\ d.follow = TRUE
        /\ d.state.candidate = -1 /\ d.state.followed = observed
    BY <1>1, <2>1, <2>2
  <2> QED  BY <1>2, <2>3
<1>3. CASE x.followed # -1 /\ observed = x.followed
  <2>1. d = kept(x)
    BY <1>3 DEF Guard!decide, Guard!NoGroup
  <2> HIDE DEF kept
  <2> QED  BY <1>1, <1>3, <2>1
<1>4. CASE x.followed \notin {-1, observed} /\ ~Guard!InWindow(x)
  <2>1. [x EXCEPT !.armed = FALSE] \in Guards
    BY DEF Guards
  <2>2. d = kept([x EXCEPT !.armed = FALSE])
    BY <1>4 DEF Guard!decide, Guard!NoGroup
  <2> HIDE DEF kept
  <2> QED  BY <1>1, <1>4, <2>1, <2>2
<1>5. CASE x.followed \notin {-1, observed} /\ Guard!InWindow(x)
  <2> DEFINE inside == IF \/ observed = x.commanded
                          \/ lone /\ x.commanded = Guard!NoGroup
                       THEN kept(x)
                       ELSE IF Guard!Persisted(x, observed)
                       THEN kept([x EXCEPT !.armed = FALSE])
                       ELSE [state |-> [x EXCEPT !.candidate = observed, !.candidateAge = 0],
                             follow |-> FALSE, held |-> x.followed]
  <2>1. d = inside
    BY <1>5 DEF Guard!decide, Guard!NoGroup
  <2>2. CASE observed = x.commanded \/ (lone /\ x.commanded = Guard!NoGroup)
    <3>1. d = kept(x)
      BY <2>1, <2>2
    <3> HIDE DEF kept
    <3> QED  BY <1>1, <1>5, <2>2, <3>1
  <2>3. CASE /\ ~(observed = x.commanded \/ (lone /\ x.commanded = Guard!NoGroup))
             /\ Guard!Persisted(x, observed)
    <3>1. d = kept([x EXCEPT !.armed = FALSE])
      BY <2>1, <2>3
    <3>2. [x EXCEPT !.armed = FALSE] \in Guards
      BY DEF Guards
    <3> HIDE DEF kept
    <3> QED  BY <1>1, <1>5, <2>3, <3>1, <3>2
  <2>4. CASE /\ ~(observed = x.commanded \/ (lone /\ x.commanded = Guard!NoGroup))
             /\ ~Guard!Persisted(x, observed)
    <3> DEFINE y == [x EXCEPT !.candidate = observed, !.candidateAge = 0]
    <3>1. d = [state |-> y, follow |-> FALSE, held |-> x.followed]
      BY <2>1, <2>4
    <3>2. y \in Guards /\ y.candidate = observed /\ y.candidateAge = 0
      BY DEF Guards
    <3>3. x.followed \in LayoutGroups /\ y.followed = x.followed
      BY <1>5 DEF Guards
    <3> HIDE DEF y
    <3>4. d.state = y /\ d.held = x.followed /\ d.follow = FALSE
      BY <3>1
    <3> QED  BY <1>5, <3>2, <3>3, <3>4
  <2> QED  BY <2>2, <2>3, <2>4
<1> QED  BY <1>2, <1>3, <1>4, <1>5

(* A reading answers a group, and the anchor stays a keyboard: the answers are safe
   keyboards, since the anchor always is one. *)
LEMMA PickedIsAGroup ==
    ASSUME FollowTypes
    PROVE  /\ Picked.group \in LayoutGroups
           /\ Learns \in Safe
<1> USE FollowConstants
<1> DEFINE asks == motionOf(motion)
           alone1 == IF asks.asked THEN loneMover(asks.base, answer.groups, asks.candidate)
                                   ELSE NoDevice
           lone1 == IF answer.main \in Safe THEN NoDevice ELSE alone1
           named == IF lone1 # NoDevice THEN lone1 ELSE anchor
           found == IF answer.main \in Safe THEN answer.main
                    ELSE IF named \in Safe THEN named ELSE NoDevice
           trusted == \/ answer.main \in Safe \/ lone1 # NoDevice
                      \/ motion.mover # NoDevice /\ motion.mover = named
           byMemory == /\ Diverged(answer.groups)
                       /\ found = NoDevice \/ ~trusted
                       /\ remembered \in LayoutGroups
           answers == IF found # NoDevice THEN found
                      ELSE CHOOSE d \in Agreeing(answer.groups) : TRUE
<1>1. \A b, a, y : loneMover(b, a, y) \in Safe \cup {NoDevice}
  <2> SUFFICES ASSUME NEW b, NEW a, NEW y PROVE loneMover(b, a, y) \in Safe \cup {NoDevice}
    OBVIOUS
  <2>1. CASE Cardinality(Changed(b, a)) = 1
    <3>1. IsFiniteSet(Changed(b, a))
      BY DevicesAssumption, FS_Subset DEF Changed
    <3>2. PICK e : Changed(b, a) = {e}
      BY <2>1, <3>1, FS_Singleton
    <3>3. (CHOOSE e2 \in Changed(b, a) : TRUE) \in Changed(b, a)
      BY <3>2
    <3>4. Changed(b, a) \subseteq Safe
      BY DEF Changed
    <3> QED  BY <3>3, <3>4 DEF loneMover
  <2>2. CASE Cardinality(Changed(b, a)) # 1
    BY <2>2 DEF loneMover
  <2> QED  BY <2>1, <2>2
<1>2. lone1 \in Safe \cup {NoDevice}
  BY <1>1
<1>3. anchor \in Safe
  BY DEF FollowTypes
<1>4. NoDevice \notin Safe
  OBVIOUS
<1>5. named \in Safe
  <2> HIDE DEF lone1
  <2> QED  BY <1>2, <1>3
<1>6. found \in Safe
  <2> HIDE DEF named
  <2> QED  BY <1>5
<1>7. answers = found
  <2> HIDE DEF found
  <2> QED  BY <1>4, <1>6
<1>8. Picked = IF byMemory
               THEN [typing |-> NoDevice, lone |-> NoDevice, movedAlone |-> NoDevice,
                     group |-> remembered]
               ELSE [typing |-> IF answer.main \in Safe THEN answer.main ELSE NoDevice,
                     lone |-> lone1,
                     movedAlone |-> IF alone1 = answers THEN alone1 ELSE NoDevice,
                     group |-> answer.groups[answers]]
  BY DEF Picked, select
<1>9. answer.groups[answers] \in LayoutGroups /\ remembered \in LayoutGroups
  <2> HIDE DEF answers, found
  <2> QED  BY <1>6, <1>7 DEF FollowTypes
<1> HIDE DEF byMemory, lone1, alone1, answers
<1>10. Picked.group \in LayoutGroups
  BY <1>8, <1>9
<1>11. Picked.lone \in Safe \cup {NoDevice} /\ Picked.typing \in Safe \cup {NoDevice}
  BY <1>2, <1>8
<1>12. Learns \in Safe
  BY <1>3, <1>11 DEF Learns, anchorAfter
<1> QED  BY <1>10, <1>12

(* Each function of SeatMotion.js returns a motion. *)
LEMMA MotionsAreKept ==
    ASSUME NEW x \in Motions
    PROVE  /\ still \in Motions /\ motionAged(x) \in Motions /\ quiet(x) \in Motions
           /\ reconnected(x) \in Motions
           /\ \A d \in Devices, echo \in BOOLEAN : event(x, d, echo) \in Motions
           /\ \A gs \in [Devices -> LayoutGroups] : reading(x, gs) \in Motions
<1> USE FollowConstants
<1>1. NoReading \in SeatReadings
  BY DEF NoReading, SeatReadings
<1>2. still \in Motions
  BY <1>1 DEF still, Motions
<1>3. \A y \in Motions : DropCandidate(y) \in Motions /\ DropConfirming(y) \in Motions
  BY <1>1 DEF Motions, DropCandidate, DropConfirming
<1>4. motionAged(x) \in Motions
  <2>1. \A n \in Nat : LaterQ(n) \in Nat
    BY DEF LaterQ
  <2> QED  BY <2>1 DEF Motions, motionAged
<1>5. quiet(x) \in Motions
  BY <1>3 DEF Motions, quiet
<1>6. reconnected(x) \in Motions
  BY <1>2 DEF Motions, SeatReadings, reconnected
<1>7. ASSUME NEW gs \in [Devices -> LayoutGroups]
      PROVE  reading(x, gs) \in Motions
  <2>1. [known |-> TRUE, groups |-> gs] \in SeatReadings
    BY DEF SeatReadings
  <2> QED  BY <1>3, <2>1 DEF Motions, reading
<1>8. ASSUME NEW d \in Devices, NEW echo \in BOOLEAN
      PROVE  event(x, d, echo) \in Motions
  <2> DEFINE cut == ConfirmEnds(BurstEnds(x, d), d)
             heard == [cut EXCEPT !.mover = IF d \in Safe THEN d ELSE @,
                                  !.last = d, !.lastAge = 0]
             named == [heard EXCEPT !.candidate = d, !.candidateAge = 0,
                                    !.candidateBase = IF heard.candidate = d THEN @
                                                      ELSE heard.previous]
  <2>1. cut \in Motions
    BY <1>3 DEF BurstEnds, ConfirmEnds
  <2>2. heard \in Motions
    <3> HIDE DEF cut
    <3> QED  BY <2>1 DEF Motions
  <2>3. ASSUME d \in Safe PROVE named \in Motions
    <3> HIDE DEF heard
    <3> QED  BY <2>2, <2>3 DEF Motions
  <2>4. event(x, d, echo) \in {heard, DropCandidate(heard)} \cup
                             {y \in {named} : d \in Safe}
    BY DEF event
  <2> HIDE DEF heard, named
  <2> QED  BY <1>3, <2>2, <2>3, <2>4
<1> QED  BY <1>2, <1>4, <1>5, <1>6, <1>7, <1>8

(* A burst of moves visits a sequence of devices that are pairwise distinct. *)
Visits(s) == s \in Seq(Devices) /\ IsInjective(s)

(* The moves of an order, one by one. *)
LEMMA MovesOfAnOrder ==
    ASSUME NEW s \in Seq(Devices), NEW g \in LayoutGroups
    PROVE  /\ MovesOf(s, g) \in Seq(Motioned) /\ Len(MovesOf(s, g)) = Len(s)
           /\ \A i \in 1 .. Len(s) : MovesOf(s, g)[i] = [device |-> s[i], group |-> g]
<1>1. Len(s) \in Nat /\ DOMAIN s = 1 .. Len(s)
  OBVIOUS
<1>2. \A i \in 1 .. Len(s) : [device |-> s[i], group |-> g] \in Motioned
  BY DEF Motioned
<1>3. MovesOf(s, g) \in [1 .. Len(s) -> Motioned]
  BY <1>1, <1>2 DEF MovesOf
<1>4. MovesOf(s, g) \in Seq(Motioned) /\ Len(MovesOf(s, g)) = Len(s)
  BY <1>1, <1>3
<1> QED  BY <1>1, <1>4 DEF MovesOf

(* Both orders in which a burst runs: all devices, and the panel's click. *)
LEMMA OrdersVisit ==
    /\ Visits(Order) /\ Cardinality(Devices) >= Cardinality(Safe)
    /\ \A s \in InOrder(Safe) : Visits(s) /\ Len(s) = Cardinality(Safe)
    /\ Cardinality(Safe) >= 2 => Len(Order) >= 2
<1>0. IsFiniteSet(Devices) /\ Safe \subseteq Devices /\ Cardinality(Safe) \in Nat
  BY DevicesAssumption, FS_Union, FS_CardinalityType DEF Devices
<1>1. Cardinality(Devices) >= Cardinality(Safe) /\ Cardinality(Devices) \in Nat
  BY <1>0, FS_Subset, FS_CardinalityType
<1>2. Order \in Seq(Devices) /\ IsInjective(Order) /\ Range(Order) = Devices
  BY FollowAssumption
<1>3. Visits(Order)
  BY <1>2 DEF Visits
<1>4. ASSUME NEW s \in InOrder(Safe)
      PROVE  Visits(s) /\ Len(s) = Cardinality(Safe)
  <2>1. /\ s \in [1 .. Cardinality(Safe) -> Safe]
        /\ \A i, j \in DOMAIN s : i < j =>
              \E a, b \in DOMAIN Order : a < b /\ Order[a] = s[i] /\ Order[b] = s[j]
    BY DEF InOrder
  <2>2. s \in Seq(Devices) /\ Len(s) = Cardinality(Safe) /\ DOMAIN s = 1 .. Cardinality(Safe)
    BY <1>0, <2>1
  <2>3. ASSUME NEW i \in DOMAIN s, NEW j \in DOMAIN s, i < j
        PROVE  s[i] # s[j]
    <3>1. PICK a \in DOMAIN Order, b \in DOMAIN Order :
             a < b /\ Order[a] = s[i] /\ Order[b] = s[j]
      BY <2>1, <2>3
    <3>2. a \in Int /\ b \in Int
      BY <1>2
    <3>3. Order[a] # Order[b]
      BY <1>2, <3>1, <3>2 DEF IsInjective
    <3> QED  BY <3>1, <3>3
  <2>4. \A i, j \in DOMAIN s : i \in Int /\ j \in Int
    BY <2>2
  <2>5. IsInjective(s)
    BY <2>3, <2>4 DEF IsInjective
  <2> QED  BY <2>2, <2>5 DEF Visits
<1>5. ASSUME Cardinality(Safe) >= 2
      PROVE  Len(Order) >= 2
  <2>1. Len(Order) \in Nat /\ DOMAIN Order = 1 .. Len(Order)
    BY <1>2
  <2>2. CASE Len(Order) < 2
    <3>1. ASSUME NEW d \in Safe, NEW e \in Safe
          PROVE  d = e
      <4>1. PICK i \in DOMAIN Order : Order[i] = d
        BY <1>0, <1>2 DEF Range
      <4>2. PICK j \in DOMAIN Order : Order[j] = e
        BY <1>0, <1>2 DEF Range
      <4>3. i = j
        BY <2>1, <2>2
      <4> QED  BY <4>1, <4>2, <4>3
    <3>2. PICK d \in Safe : TRUE
      BY DevicesAssumption
    <3>3. Safe = {d}
      BY <3>1, <3>2
    <3>4. Cardinality(Safe) = 1
      BY <3>3, FS_Singleton
    <3> QED  BY <1>5, <3>4
  <2> QED  BY <2>1, <2>2
<1> QED  BY <1>1, <1>3, <1>4, <1>5

(* Every action keeps the types. *)
LEMMA FollowTypesHold ==
    ASSUME FollowTypes, [FollowNext]_followVars
    PROVE  FollowTypes'
<1> USE FollowConstants DEF FollowTypes
<1> DEFINE unmoved == UNCHANGED <<groups, touched>>
           unwired == UNCHANGED <<moves, events, linked>>
<1>1. ASSUME NEW d \in Safe, NEW g \in LayoutGroups
      PROVE  /\ [device |-> d, group |-> g] \in Motioned
             /\ Announce(d, g) => events' \in Seq(Motioned)
  <2> DEFINE x == [device |-> d, group |-> g]
  <2>1. x \in Motioned
    BY DEF Motioned
  <2>2. ASSUME Announce(d, g)
        PROVE  events' = Append(events, x) \/ events' = events
    BY <2>2 DEF Announce
  <2> HIDE DEF x
  <2>3. Append(events, x) \in Seq(Motioned) /\ events \in Seq(Motioned)
    BY <2>1
  <2>4. Announce(d, g) => events' \in Seq(Motioned)
    BY <2>2, <2>3
  <2>5. x = [device |-> d, group |-> g]
    BY DEF x
  <2> QED  BY <2>1, <2>4, <2>5
<1>2. ASSUME NEW d \in Safe, NEW g \in LayoutGroups, UserToggles(d, g)
      PROVE  FollowTypes'
  <2>1. events' \in Seq(Motioned)
    BY <1>1, <1>2 DEF UserToggles
  <2>2. /\ groups' = [groups EXCEPT ![d] = g] /\ touched' = touched \cup {d}
        /\ UNCHANGED <<moves, answer, linked, guard, motion, anchor, remembered, seen>>
    BY <1>2 DEF UserToggles, panelVars
  <2>3. groups' \in [Devices -> LayoutGroups] /\ touched' \subseteq Safe
    BY <2>2
  <2> QED  BY <2>1, <2>2, <2>3
<1>3. ASSUME NEW g \in LayoutGroups, BurstBegins(g)
      PROVE  FollowTypes'
  <2>1. /\ moves' = MovesOf(Order, g)
        /\ UNCHANGED <<groups, touched, guard, motion, anchor, remembered, seen, events,
                       answer, linked>>
    BY <1>3 DEF BurstBegins, seatVars, panelVars
  <2>2. moves' \in Seq(Motioned)
    BY <2>1, OrdersVisit, MovesOfAnOrder DEF Visits
  <2> QED  BY <2>1, <2>2
<1>4. ASSUME NEW g \in LayoutGroups, Click(g)
      PROVE  FollowTypes'
  <2>1. PICK s \in InOrder(Safe) : moves' = MovesOf(s, g)
    BY <1>4 DEF Click
  <2>2. /\ guard' = Guard!commanded(guard, g, Safe)
        /\ UNCHANGED <<groups, touched, motion, anchor, remembered, seen, events,
                       answer, linked>>
    BY <1>4 DEF Click, seatVars
  <2>3. moves' \in Seq(Motioned)
    BY <2>1, OrdersVisit, MovesOfAnOrder DEF Visits
  <2>4. guard' \in Guards
    BY <2>2, GuardsAreKept
  <2> QED  BY <2>2, <2>3, <2>4
<1>5. ASSUME Moves
      PROVE  FollowTypes'
  <2> DEFINE x == Head(moves)
  <2>1. /\ moves # <<>> /\ moves' = Tail(moves) /\ groups' = [groups EXCEPT ![x.device] = x.group]
        /\ Announce(x.device, x.group)
        /\ UNCHANGED <<touched, guard, motion, anchor, remembered, seen, answer, linked>>
    BY <1>5 DEF Moves, panelVars
  <2>2. x \in Motioned /\ moves' \in Seq(Motioned)
    BY <2>1
  <2>3. x.device \in Devices /\ x.group \in LayoutGroups
        /\ [device |-> x.device, group |-> x.group] \in Motioned
    BY <2>2 DEF Motioned
  <2> HIDE DEF x
  <2>4. groups' \in [Devices -> LayoutGroups] /\ events' \in Seq(Motioned)
    BY <2>1, <2>3 DEF Announce
  <2> QED  BY <2>1, <2>2, <2>4
<1>6. ASSUME HearEvent
      PROVE  FollowTypes'
  <2> DEFINE x == Head(events)
             echo == Guard!isEcho(guard, x.device, x.group)
  <2>1. /\ events # <<>> /\ events' = Tail(events)
        /\ motion' = event(motion, x.device, echo)
        /\ UNCHANGED <<groups, touched, guard, anchor, remembered, seen, moves, answer, linked>>
    BY <1>6 DEF HearEvent, seatVars
  <2>2. x \in Motioned /\ events' \in Seq(Motioned)
    BY <2>1
  <2>3. x.device \in Devices /\ echo \in BOOLEAN
    BY <2>2 DEF Motioned, Guard!isEcho
  <2>4. motion' \in Motions
    <3> HIDE DEF echo, x
    <3> QED  BY <2>1, <2>3, MotionsAreKept
  <2> QED  BY <2>1, <2>2, <2>4
<1>7. ASSUME QuietTimer
      PROVE  FollowTypes'
  <2>1. /\ motion' = quiet(motion)
        /\ UNCHANGED <<groups, touched, guard, anchor, remembered, seen, moves, events,
                       answer, linked>>
    BY <1>7 DEF QuietTimer, seatVars
  <2>2. motion' \in Motions
    BY <2>1, MotionsAreKept
  <2> QED  BY <2>1, <2>2
<1>8. ASSUME SettleRecheck
      PROVE  FollowTypes'
  BY <1>8 DEF SettleRecheck, seatVars
<1>9. ASSUME TakeReading
      PROVE  FollowTypes'
  BY <1>9 DEF TakeReading, seatVars, panelVars
<1>10. ASSUME HearReading
       PROVE  FollowTypes'
  <2>1. /\ answer' = NoAnswer /\ motion' = reading(motion, answer.groups)
        /\ guard' = Decided.state /\ anchor' = Learns /\ remembered' = Decided.held
        /\ seen' = IF seen.group = Picked.group THEN seen
                   ELSE [group |-> Picked.group, age |-> 0]
        /\ UNCHANGED <<groups, touched, moves, events, linked>>
    BY <1>10 DEF HearReading, seatVars
  <2>2. answer'.groups \in [Devices -> LayoutGroups]
        /\ answer' = [taken |-> answer'.taken, groups |-> answer'.groups, main |-> answer'.main]
    BY <2>1 DEF NoAnswer
  <2>3. Picked.group \in LayoutGroups /\ anchor' \in Safe
    BY <2>1, PickedIsAGroup
  <2>4. loneAnchor(Picked, anchor) \in BOOLEAN
    BY DEF loneAnchor
  <2>5. guard' \in Guards /\ remembered' \in LayoutGroups
    BY <2>1, <2>3, <2>4, DecideCases DEF Decided
  <2>6. motion' \in Motions
    BY <2>1, MotionsAreKept
  <2>7. seen' \in [group : LayoutGroups \cup {-1}, age : Nat]
    BY <2>1, <2>3
  <2> QED  BY <2>1, <2>2, <2>3, <2>5, <2>6, <2>7
<1>11. ASSUME Unlink
       PROVE  FollowTypes'
  <2>1. /\ linked' = FALSE /\ events' = <<>> /\ answer' = NoAnswer
        /\ motion' = reconnected(motion)
        /\ UNCHANGED <<groups, touched, moves, guard, anchor, remembered, seen>>
    BY <1>11 DEF Unlink
  <2>2. motion' \in Motions
    BY <2>1, MotionsAreKept
  <2>3. answer'.groups \in [Devices -> LayoutGroups]
        /\ answer' = [taken |-> answer'.taken, groups |-> answer'.groups, main |-> answer'.main]
    BY <2>1 DEF NoAnswer
  <2>4. UNCHANGED <<groups, touched, moves, guard, anchor, remembered, seen>>
    BY <2>1
  <2>5. events' \in Seq(Motioned) /\ linked' \in BOOLEAN
    <3> HIDE DEF FollowTypes
    <3>1. <<>> \in Seq(Motioned)
      OBVIOUS
    <3> QED  BY <2>1, <3>1
  <2> QED  BY <2>2, <2>3, <2>4, <2>5
<1>12. ASSUME Relink
       PROVE  FollowTypes'
  <2>1. /\ linked' = TRUE /\ guard' = Guard!connected(guard) /\ motion' = reconnected(motion)
        /\ UNCHANGED <<groups, touched, moves, events, answer, anchor, remembered, seen>>
    BY <1>12 DEF Relink, seatVars
  <2>2. motion' \in Motions /\ guard' \in Guards
    BY <2>1, MotionsAreKept, GuardsAreKept
  <2> QED  BY <2>1, <2>2
<1>13. ASSUME Tick
       PROVE  FollowTypes'
  <2>1. /\ guard' = Guard!aged(guard) /\ motion' = motionAged(motion)
        /\ seen' = [seen EXCEPT !.age = IF @ < QuiesceTicks THEN @ + 1 ELSE @]
        /\ UNCHANGED <<groups, touched, moves, events, answer, linked, anchor, remembered>>
    BY <1>13 DEF Tick, seatVars, wireVars
  <2>2. motion' \in Motions /\ guard' \in Guards
    BY <2>1, MotionsAreKept, GuardsAreKept
  <2>3. seen' \in [group : LayoutGroups \cup {-1}, age : Nat]
    <3>1. seen \in [group : LayoutGroups \cup {-1}, age : Nat]
      OBVIOUS
    <3>2. (IF seen.age < QuiesceTicks THEN seen.age + 1 ELSE seen.age) \in Nat
      BY <3>1
    <3> QED  BY <2>1, <3>1, <3>2
  <2> QED  BY <2>1, <2>2, <2>3
<1>14. ASSUME UNCHANGED followVars
       PROVE  FollowTypes'
  BY <1>14 DEF followVars, seatVars, panelVars, wireVars
<1> HIDE DEF FollowTypes
<1> QED  BY <1>2, <1>3, <1>4, <1>5, <1>6, <1>7, <1>8, <1>9, <1>10, <1>11, <1>12, <1>13, <1>14
         DEF FollowNext

(* A held flip is one the readings have answered ever since: ages run together, and a
   reading of another group starts both anew. *)
LEMMA HeldFlipHolds ==
    ASSUME FollowTypes, HeldFlip, [FollowNext]_followVars
    PROVE  HeldFlip'
<1> USE FollowConstants
<1>0. guard \in Guards /\ seen \in [group : LayoutGroups \cup {-1}, age : Nat]
  BY DEF FollowTypes
<1>1. ASSUME guard' = guard, seen' = seen
      PROVE  HeldFlip'
  BY <1>1 DEF HeldFlip
<1>2. ASSUME NEW g \in LayoutGroups, Click(g)
      PROVE  HeldFlip'
  <2>1. guard' = Guard!commanded(guard, g, Safe)
    BY <1>2 DEF Click
  <2>2. guard'.candidate = -1 /\ guard'.armed = guard.armed /\ guard'.followed = guard.followed
    BY <1>0, <2>1 DEF Guard!commanded, Guard!NoCandidate, Guard!NoGroup, Guards
  <2> QED  BY <2>2 DEF HeldFlip
<1>3. ASSUME HearReading
      PROVE  HeldFlip'
  <2>1. /\ guard' = Decided.state
        /\ seen' = IF seen.group = Picked.group THEN seen
                   ELSE [group |-> Picked.group, age |-> 0]
    BY <1>3 DEF HearReading
  <2>2. Picked.group \in LayoutGroups
    BY PickedIsAGroup
  <2>3. loneAnchor(Picked, anchor) \in BOOLEAN
    BY DEF loneAnchor
  <2>4. \/ guard'.candidate = -1 /\ guard'.followed = Picked.group
        \/ /\ guard'.candidate = Picked.group /\ guard'.candidateAge = 0
           /\ guard'.followed # -1
    <3>1. FollowsOrHolds(guard, Picked.group, guard')
      BY <1>0, <2>1, <2>2, <2>3, DecideCases DEF Decided
    <3> QED  BY <3>1 DEF FollowsOrHolds
  <2>5. seen'.group = Picked.group /\ seen'.age \in Nat
    BY <1>0, <2>1
  <2>6. Picked.group # -1 /\ (guard'.candidateAge = 0 => guard'.candidateAge <= seen'.age)
    BY <2>2, <2>5
  <2> QED  BY <2>4, <2>5, <2>6 DEF HeldFlip
<1>4. ASSUME Relink
      PROVE  HeldFlip'
  <2>1. guard' = Guard!connected(guard)
    BY <1>4 DEF Relink
  <2>2. guard'.candidate = -1 /\ guard'.armed = FALSE
    BY <2>1 DEF Guard!connected, Guard!initial, Guard!NoGroup
  <2> QED  BY <2>2 DEF HeldFlip
<1>5. ASSUME Tick
      PROVE  HeldFlip'
  <2>1. /\ guard' = Guard!aged(guard)
        /\ seen' = [seen EXCEPT !.age = IF @ < QuiesceTicks THEN @ + 1 ELSE @]
    BY <1>5 DEF Tick
  <2>2. /\ guard'.candidate = guard.candidate /\ guard'.armed = guard.armed
        /\ guard'.followed = guard.followed
        /\ guard.candidate # -1 =>
              guard'.candidateAge = Guard!Older(guard.candidateAge, QuiesceTicks)
    BY <1>0, <2>1 DEF Guard!aged, Guard!NoGroup, Guards
  <2>3. /\ seen'.group = seen.group
        /\ seen'.age = IF seen.age < QuiesceTicks THEN seen.age + 1 ELSE seen.age
    BY <1>0, <2>1
  <2>4. guard.candidateAge \in Nat /\ seen.age \in Nat
    BY <1>0 DEF Guards
  <2>5. ASSUME guard.candidate # -1
        PROVE  seen'.group = guard'.candidate /\ guard'.candidateAge <= seen'.age
    <3>1. seen.group = guard.candidate /\ guard.candidateAge <= seen.age
      BY <2>5 DEF HeldFlip
    <3>2. guard'.candidateAge <= seen'.age
      BY <2>2, <2>3, <2>4, <2>5, <3>1 DEF Guard!Older
    <3> QED  BY <2>2, <2>3, <3>1, <3>2
  <2> QED  BY <2>2, <2>5 DEF HeldFlip
<1>6. CASE UNCHANGED followVars
  BY <1>1, <1>6 DEF followVars, panelVars
<1>7. ASSUME NEW d \in Safe, NEW g \in LayoutGroups, UserToggles(d, g)
      PROVE  HeldFlip'
  BY <1>1, <1>7 DEF UserToggles, panelVars
<1>8. ASSUME NEW g \in LayoutGroups, BurstBegins(g)
      PROVE  HeldFlip'
  BY <1>1, <1>8 DEF BurstBegins, panelVars
<1>9. CASE Moves
  BY <1>1, <1>9 DEF Moves, panelVars
<1>10. CASE HearEvent \/ QuietTimer \/ SettleRecheck
  BY <1>1, <1>10 DEF HearEvent, QuietTimer, SettleRecheck
<1>11. CASE TakeReading \/ Unlink
  BY <1>1, <1>11 DEF TakeReading, Unlink, panelVars
<1> QED  BY <1>2, <1>3, <1>4, <1>5, <1>6, <1>7, <1>8, <1>9, <1>10, <1>11 DEF FollowNext

(* Hearing the first of the moves: what was next to it now follows it. *)
LEMMA HeardInCompany ==
    ASSUME NEW p \in Seq(Motioned), p # <<>>, NEW s, NEW s1, NEW t, InCompany(p, s, t),
           s1.last = p[1].device, s1.lastAge = 0
    PROVE  InCompany(Tail(p), s1, t)
<1> USE FollowConstants
<1> DEFINE q == Tail(p)
<1>1. q \in Seq(Motioned) /\ Len(p) \in Nat /\ Len(q) = Len(p) - 1
  OBVIOUS
<1>2. \A i \in 1 .. Len(q) : q[i] = p[i + 1]
  OBVIOUS
<1>3. \A i \in 1 .. Len(p) : p[i].device \in Devices
  <2>1. \A i \in 1 .. Len(p) : p[i] \in Motioned
    OBVIOUS
  <2> QED  BY <2>1 DEF Motioned
<1> HIDE DEF q
<1>4. ASSUME NEW i \in 1 .. Len(q), q[i].device \notin t
      PROVE  Accompanied(q, i, s1)
  <2>1. i + 1 \in 1 .. Len(p) /\ q[i] = p[i + 1] /\ i \in Nat
    BY <1>1, <1>2
  <2>2. Accompanied(p, i + 1, s)
    BY <1>4, <2>1 DEF InCompany
  <2>3. CASE \E j \in (i + 2) .. Len(p) : p[j].device # p[i + 1].device
    <3>1. PICK j \in (i + 2) .. Len(p) : p[j].device # p[i + 1].device
      BY <2>3
    <3>2. j - 1 \in (i + 1) .. Len(q) /\ q[j - 1] = p[j]
      BY <1>1, <1>2, <2>1
    <3>3. q[j - 1].device # q[i].device
      BY <2>1, <3>1, <3>2
    <3> QED  BY <3>2, <3>3 DEF Accompanied
  <2>4. CASE p[i].device # p[i + 1].device
    <3>1. CASE i = 1
      <4>1. s1.last \notin {NoDevice, q[1].device}
        BY <1>3, <2>1, <2>4, <3>1
      <4> QED  BY <3>1, <4>1 DEF Accompanied
    <3>2. CASE i # 1
      <4>1. i - 1 \in 1 .. Len(q) /\ i > 1
        BY <1>1, <3>2
      <4>2. q[i - 1] = p[i]
        BY <1>2, <4>1
      <4> QED  BY <2>1, <2>4, <4>1, <4>2 DEF Accompanied
    <3> QED  BY <3>1, <3>2
  <2>5. i + 1 + 1 = i + 2 /\ i + 1 - 1 = i /\ i + 1 # 1
    BY <2>1
  <2> QED  BY <2>2, <2>3, <2>4, <2>5 DEF Accompanied
<1> QED  BY <1>4 DEF InCompany, q

(* A move between what is announced and what is still to move breaks up nobody else's
   company. *)
LEMMA InsertedInCompany ==
    ASSUME NEW a \in Seq(Motioned), NEW b \in Seq(Motioned), NEW x \in Motioned,
           NEW s, NEW t, InCompany(a \o b, s, t)
    PROVE  InCompany(Append(a, x) \o b, s, t \cup {x.device})
<1> DEFINE p == a \o b
           q == Append(a, x) \o b
           n == Len(a)
<1>1. /\ p \in Seq(Motioned) /\ q \in Seq(Motioned) /\ n \in Nat /\ Len(b) \in Nat
      /\ Len(p) = n + Len(b) /\ Len(q) = n + Len(b) + 1
  OBVIOUS
<1>2. \A i \in 1 .. n : q[i] = p[i]
  OBVIOUS
<1>3. q[n + 1] = x
  OBVIOUS
<1>4. \A i \in (n + 2) .. Len(q) : q[i] = p[i - 1]
  <2> SUFFICES ASSUME NEW i \in (n + 2) .. Len(q) PROVE q[i] = p[i - 1]
    OBVIOUS
  <2>1. Append(a, x) \in Seq(Motioned) /\ Len(Append(a, x)) = n + 1
    OBVIOUS
  <2>2. q[i] = b[i - (n + 1)]
    BY <1>1, <2>1
  <2>3. p[i - 1] = b[i - 1 - n] /\ i - 1 - n = i - (n + 1)
    BY <1>1
  <2> QED  BY <2>2, <2>3
<1> HIDE DEF p, q, n
<1>5. \A j \in 1 .. Len(p) : \E k \in 1 .. Len(q) : q[k] = p[j] /\ k >= j /\ (j > n => k = j + 1)
  <2> SUFFICES ASSUME NEW j \in 1 .. Len(p)
               PROVE  \E k \in 1 .. Len(q) : q[k] = p[j] /\ k >= j /\ (j > n => k = j + 1)
    OBVIOUS
  <2>1. CASE j <= n
    BY <1>1, <1>2, <2>1
  <2>2. CASE j > n
    <3>1. j + 1 \in (n + 2) .. Len(q) /\ j + 1 - 1 = j /\ j + 1 \in 1 .. Len(q)
      BY <1>1, <2>2
    <3>2. q[j + 1] = p[j]
      BY <1>4, <3>1
    <3> QED  BY <2>2, <3>1, <3>2
  <2> QED  BY <1>1, <2>1, <2>2
<1>6. ASSUME NEW i \in 1 .. Len(q), q[i].device \notin t \cup {x.device}
      PROVE  Accompanied(q, i, s)
  <2>1. CASE i <= n
    <3>1. i \in 1 .. Len(p) /\ q[i] = p[i]
      BY <1>1, <1>2, <2>1
    <3>2. Accompanied(p, i, s)
      BY <1>6, <3>1 DEF InCompany, p
    <3>3. CASE \E j \in (i + 1) .. Len(p) : p[j].device # p[i].device
      <4>1. PICK j \in (i + 1) .. Len(p) : p[j].device # p[i].device
        BY <3>3
      <4>2. j \in 1 .. Len(p) /\ j >= i + 1
        BY <1>1, <3>1
      <4>3. PICK k \in 1 .. Len(q) : q[k] = p[j] /\ k >= j
        BY <1>5, <4>2
      <4>4. k \in (i + 1) .. Len(q)
        BY <1>1, <3>1, <4>2, <4>3
      <4> QED  BY <3>1, <4>1, <4>3, <4>4 DEF Accompanied
    <3>4. CASE i > 1 /\ p[i - 1].device # p[i].device
      <4>1. i - 1 \in 1 .. n
        BY <1>1, <2>1, <3>4
      <4>2. q[i - 1] = p[i - 1]
        BY <1>2, <4>1
      <4> QED  BY <3>1, <3>4, <4>2 DEF Accompanied
    <3>5. CASE i = 1 /\ s.last \notin {NoDevice, p[i].device} /\ s.lastAge = 0
      BY <3>1, <3>5 DEF Accompanied
    <3> QED  BY <3>2, <3>3, <3>4, <3>5 DEF Accompanied
  <2>2. CASE i = n + 1
    BY <1>3, <1>6, <2>2
  <2>3. CASE i > n + 1
    <3>1. i \in (n + 2) .. Len(q) /\ i - 1 \in 1 .. Len(p) /\ i > 1
      BY <1>1, <2>3
    <3>2. q[i] = p[i - 1]
      BY <1>4, <3>1
    <3>3. Accompanied(p, i - 1, s)
      BY <1>6, <3>1, <3>2 DEF InCompany, p
    <3>4. CASE \E j \in i .. Len(p) : p[j].device # p[i - 1].device
      <4>1. PICK j \in i .. Len(p) : p[j].device # p[i - 1].device
        BY <3>4
      <4>2. j \in 1 .. Len(p) /\ j > n
        BY <1>1, <2>3, <3>1
      <4>3. j + 1 \in 1 .. Len(q) /\ q[j + 1] = p[j]
        BY <1>5, <4>2
      <4>4. j + 1 \in (i + 1) .. Len(q)
        BY <1>1, <3>1, <4>3
      <4> QED  BY <3>2, <4>1, <4>3, <4>4 DEF Accompanied
    <3>5. CASE i = n + 2
      <4>1. q[i - 1] = x
        BY <1>1, <1>3, <3>5
      <4> QED  BY <1>6, <3>1, <4>1 DEF Accompanied
    <3>6. CASE i > n + 2 /\ p[i - 2].device # p[i - 1].device
      <4>1. i - 1 \in (n + 2) .. Len(q) /\ i - 1 - 1 = i - 2
        BY <1>1, <3>1, <3>6
      <4>2. q[i - 1] = p[i - 2]
        BY <1>4, <4>1
      <4> QED  BY <3>1, <3>2, <3>6, <4>2 DEF Accompanied
    <3>7. CASE i - 1 = 1
      <4>1. n = 0
        BY <1>1, <2>3, <3>7
      <4> QED  BY <1>1, <3>5, <3>7, <4>1
    <3>8. i - 1 + 1 = i /\ i - 1 - 1 = i - 2 /\ (i > n + 2 \/ i = n + 2)
      BY <1>1, <3>1
    <3> QED  BY <3>3, <3>4, <3>5, <3>6, <3>7, <3>8 DEF Accompanied
  <2> QED  BY <1>1, <2>1, <2>2, <2>3
<1> QED  BY <1>6 DEF InCompany, q

(* A new burst keeps the company of what is announced and brings its own. *)
LEMMA BurstInCompany ==
    ASSUME NEW a \in Seq(Motioned), NEW o, Visits(o), Len(o) >= 2, NEW g \in LayoutGroups,
           NEW s, NEW t, InCompany(a, s, t)
    PROVE  InCompany(a \o MovesOf(o, g), s, t)
<1> DEFINE b == MovesOf(o, g)
           q == a \o b
           n == Len(a)
<1>0. o \in Seq(Devices)
  BY DEF Visits
<1>1. b \in Seq(Motioned) /\ Len(b) = Len(o) /\ \A i \in 1 .. Len(o) : b[i].device = o[i]
  <2>1. /\ b \in Seq(Motioned) /\ Len(b) = Len(o)
        /\ \A i \in 1 .. Len(o) : b[i] = [device |-> o[i], group |-> g]
    BY <1>0, MovesOfAnOrder
  <2> HIDE DEF b
  <2>2. ASSUME NEW i \in 1 .. Len(o)
        PROVE  b[i].device = o[i]
    <3>1. b[i] = [device |-> o[i], group |-> g]
      BY <2>1
    <3> QED  BY <3>1
  <2> QED  BY <2>1, <2>2
<1> HIDE DEF b
<1>2. /\ q \in Seq(Motioned) /\ n \in Nat /\ Len(o) \in Nat /\ Len(q) = n + Len(o)
  BY <1>0, <1>1
<1>3. \A i \in 1 .. n : q[i] = a[i]
  BY <1>1
<1>4. \A i \in (n + 1) .. Len(q) : q[i].device = o[i - n] /\ i - n \in 1 .. Len(o)
  BY <1>1, <1>2
<1>5. \A i, j \in 1 .. Len(o) : i # j => o[i] # o[j]
  BY <1>0 DEF Visits, IsInjective
<1> HIDE DEF q, n
<1>6. ASSUME NEW i \in 1 .. Len(q), q[i].device \notin t
      PROVE  Accompanied(q, i, s)
  <2>1. CASE i <= n
    <3>1. i \in 1 .. Len(a) /\ q[i] = a[i]
      BY <1>2, <1>3, <2>1 DEF n
    <3>2. Accompanied(a, i, s)
      BY <1>6, <3>1 DEF InCompany
    <3>3. CASE \E j \in (i + 1) .. Len(a) : a[j].device # a[i].device
      <4>1. PICK j \in (i + 1) .. n : a[j].device # a[i].device
        BY <3>3 DEF n
      <4>2. j \in 1 .. n /\ j \in (i + 1) .. Len(q)
        BY <1>2, <3>1
      <4>3. q[j] = a[j]
        BY <1>3, <4>2
      <4> QED  BY <3>1, <4>1, <4>2, <4>3 DEF Accompanied
    <3>4. CASE i > 1 /\ a[i - 1].device # a[i].device
      <4>1. i - 1 \in 1 .. n
        BY <1>2, <2>1, <3>4
      <4>2. q[i - 1] = a[i - 1]
        BY <1>3, <4>1
      <4> QED  BY <3>1, <3>4, <4>2 DEF Accompanied
    <3>5. CASE i = 1 /\ s.last \notin {NoDevice, a[i].device} /\ s.lastAge = 0
      BY <3>1, <3>5 DEF Accompanied
    <3> QED  BY <3>2, <3>3, <3>4, <3>5 DEF Accompanied
  <2>2. CASE n < i /\ i < Len(q)
    <3>1. i \in (n + 1) .. Len(q) /\ i + 1 \in (n + 1) .. Len(q) /\ i + 1 \in (i + 1) .. Len(q)
      BY <1>2, <2>2
    <3>2. /\ q[i].device = o[i - n] /\ i - n \in 1 .. Len(o)
          /\ q[i + 1].device = o[i + 1 - n] /\ i + 1 - n \in 1 .. Len(o)
      <4>1. i \in Int /\ n \in Int
        BY <1>2
      <4>2. \A k \in (n + 1) .. Len(q) : q[k].device = o[k - n] /\ k - n \in 1 .. Len(o)
        BY <1>4
      <4> QED  BY <3>1, <4>1, <4>2
    <3>3. i - n # i + 1 - n
      BY <1>2
    <3>4. q[i].device # q[i + 1].device
      BY <1>5, <3>2, <3>3
    <3> QED  BY <3>1, <3>4 DEF Accompanied
  <2>3. CASE i = Len(q)
    <3>1. i \in (n + 1) .. Len(q) /\ i - 1 \in (n + 1) .. Len(q) /\ i > 1
      BY <1>2, <2>3
    <3>2. /\ q[i].device = o[i - n] /\ i - n \in 1 .. Len(o)
          /\ q[i - 1].device = o[i - 1 - n] /\ i - 1 - n \in 1 .. Len(o)
      BY <1>4, <3>1
    <3>3. i - n # i - 1 - n
      BY <1>2
    <3>4. q[i].device # q[i - 1].device
      BY <1>5, <3>2, <3>3
    <3> QED  BY <3>1, <3>4 DEF Accompanied
  <2> QED  BY <1>2, <2>1, <2>2, <2>3
<1> QED  BY <1>6 DEF InCompany, q, b

(* Another device to be heard stays one when a move is announced or a burst begins. *)
LEMMA OthersStay ==
    ASSUME NEW a \in Seq(Motioned), NEW b \in Seq(Motioned), NEW x \in Motioned, NEW d
    PROVE  /\ OthersFollow(a \o b, d) => OthersFollow(Append(a, x) \o b, d)
           /\ OthersFollow(a, d) => OthersFollow(a \o b, d)
<1>1. /\ a \o b \in Seq(Motioned) /\ Append(a, x) \o b \in Seq(Motioned) /\ Len(a) \in Nat
      /\ Len(b) \in Nat /\ Len(a \o b) = Len(a) + Len(b)
      /\ Len(Append(a, x) \o b) = Len(a) + Len(b) + 1
  OBVIOUS
<1>2. ASSUME OthersFollow(a, d)
      PROVE  OthersFollow(a \o b, d)
  <2>1. PICK i \in 1 .. Len(a) : a[i].device # d
    BY <1>2 DEF OthersFollow
  <2>2. i \in 1 .. Len(a \o b) /\ (a \o b)[i] = a[i]
    BY <1>1
  <2> QED  BY <2>1, <2>2 DEF OthersFollow
<1>3. ASSUME OthersFollow(a \o b, d)
      PROVE  OthersFollow(Append(a, x) \o b, d)
  <2>1. PICK i \in 1 .. Len(a \o b) : (a \o b)[i].device # d
    BY <1>3 DEF OthersFollow
  <2>2. CASE i <= Len(a)
    <3>1. i \in 1 .. Len(Append(a, x) \o b) /\ (Append(a, x) \o b)[i] = (a \o b)[i]
      BY <1>1, <2>2
    <3> QED  BY <2>1, <3>1 DEF OthersFollow
  <2>3. CASE i > Len(a)
    <3>1. i + 1 \in 1 .. Len(Append(a, x) \o b)
      BY <1>1, <2>3
    <3>2. (a \o b)[i] = b[i - Len(a)]
      BY <1>1, <2>3
    <3>3. Append(a, x) \in Seq(Motioned) /\ Len(Append(a, x)) = Len(a) + 1
      OBVIOUS
    <3>4. (Append(a, x) \o b)[i + 1] = b[i + 1 - (Len(a) + 1)]
      BY <1>1, <2>3, <3>1, <3>3
    <3>5. i + 1 - (Len(a) + 1) = i - Len(a)
      BY <1>1
    <3>6. (Append(a, x) \o b)[i + 1].device # d
      BY <2>1, <3>2, <3>4, <3>5
    <3> QED  BY <3>1, <3>6 DEF OthersFollow
  <2> QED  BY <1>1, <2>2, <2>3
<1> QED  BY <1>2, <1>3

(* A move in company that still looks lone when it is heard has its company coming. *)
LEMMA CompanyFollows ==
    ASSUME NEW p \in Seq(Motioned), p # <<>>, NEW s, NEW t, InCompany(p, s, t),
           p[1].device \notin t, isolated(s, p[1].device)
    PROVE  OthersFollow(Tail(p), p[1].device)
<1> USE FollowConstants
<1>1. 1 \in 1 .. Len(p) /\ Len(p) \in Nat
  OBVIOUS
<1>2. Accompanied(p, 1, s)
  BY <1>1 DEF InCompany
<1>3. ~(s.last \notin {NoDevice, p[1].device} /\ s.lastAge = 0)
  BY DEF isolated
<1>4. PICK j \in 2 .. Len(p) : p[j].device # p[1].device
  BY <1>2, <1>3 DEF Accompanied
<1>5. j - 1 \in 1 .. Len(Tail(p)) /\ Tail(p)[j - 1] = p[j]
  BY <1>1
<1>6. Tail(p)[j - 1].device # p[1].device
  BY <1>4, <1>5
<1> QED  BY <1>5, <1>6 DEF OthersFollow

(* What hearing an event leaves as the candidate: none; the device heard, if it looks
   lone; or an older one whose quiet has already held. *)
LEMMA EventEffects ==
    ASSUME NEW x \in Motions, NEW d \in Devices, NEW echo \in BOOLEAN,
           NEW y, y = event(x, d, echo)
    PROVE  /\ y.last = d /\ y.lastAge = 0
           /\ y.confirming \in {x.confirming, NoDevice}
           /\ \/ y.candidate = NoDevice
              \/ y.candidate = d /\ y.candidateAge = 0 /\ isolated(x, d)
              \/ /\ y.candidate = x.candidate /\ y.candidateAge = x.candidateAge
                 /\ ~(x.candidateAge < QuietTicks)
<1> DEFINE b == BurstEnds(x, d)
           c == ConfirmEnds(b, d)
           heard == [c EXCEPT !.mover = IF d \in Safe THEN d ELSE @,
                              !.last = d, !.lastAge = 0]
           named == [heard EXCEPT !.candidate = d, !.candidateAge = 0,
                                  !.candidateBase = IF heard.candidate = d THEN @
                                                    ELSE heard.previous]
<1>0. NoReading \in SeatReadings
  BY FollowConstants DEF NoReading, SeatReadings
<1>1. b \in Motions /\ b.confirming = x.confirming
      /\ \/ b.candidate = NoDevice \/ b.candidate = d
         \/ /\ b.candidate = x.candidate /\ b.candidateAge = x.candidateAge
            /\ ~(x.candidateAge < QuietTicks)
  <2>1. CASE x.candidate \notin {NoDevice, d} /\ x.candidateAge < QuietTicks
    <3>1. b = DropCandidate(x)
      BY <2>1 DEF BurstEnds
    <3>2. /\ DropCandidate(x) \in Motions /\ DropCandidate(x).candidate = NoDevice
          /\ DropCandidate(x).confirming = x.confirming
      BY <1>0 DEF DropCandidate, Motions
    <3> HIDE DEF b
    <3> QED  BY <3>1, <3>2
  <2>2. CASE ~(x.candidate \notin {NoDevice, d} /\ x.candidateAge < QuietTicks)
    <3>1. b = x
      BY <2>2 DEF BurstEnds
    <3> HIDE DEF b
    <3> QED  BY <2>2, <3>1
  <2> QED  BY <2>1, <2>2
<1>2. /\ c \in Motions /\ c.confirming \in {b.confirming, NoDevice}
      /\ c.candidate = b.candidate /\ c.candidateAge = b.candidateAge
  <2> HIDE DEF b
  <2>1. c = b \/ c = DropConfirming(b)
    BY DEF ConfirmEnds
  <2>2. /\ DropConfirming(b) \in Motions /\ DropConfirming(b).confirming = NoDevice
        /\ DropConfirming(b).candidate = b.candidate
        /\ DropConfirming(b).candidateAge = b.candidateAge
    BY <1>0, <1>1 DEF DropConfirming, Motions
  <2> HIDE DEF c
  <2> QED  BY <1>1, <2>1, <2>2
<1>3. /\ heard \in Motions /\ heard.last = d /\ heard.lastAge = 0
      /\ heard.confirming = c.confirming /\ heard.candidate = c.candidate
      /\ heard.candidateAge = c.candidateAge
  <2> HIDE DEF c
  <2> QED  BY <1>2 DEF Motions
<1>4. /\ named.last = d /\ named.lastAge = 0 /\ named.confirming = heard.confirming
      /\ named.candidate = d /\ named.candidateAge = 0
  <2> HIDE DEF heard
  <2> QED  BY <1>3 DEF Motions
<1>5. /\ DropCandidate(heard).last = d /\ DropCandidate(heard).lastAge = 0
      /\ DropCandidate(heard).confirming = heard.confirming
      /\ DropCandidate(heard).candidate = NoDevice
  <2> HIDE DEF heard
  <2> QED  BY <1>3 DEF Motions, DropCandidate
<1>6. \/ y = named /\ isolated(x, d)
      \/ y = DropCandidate(heard)
      \/ y = heard /\ heard.candidate # d
  BY DEF event
<1> HIDE DEF b, c, heard, named
<1> QED  BY <1>1, <1>2, <1>3, <1>4, <1>5, <1>6

(* The last step of an action that hears nothing and moves nothing. *)
LEMMA LoneUnchanged ==
    ASSUME LoneInv, touched \subseteq touched', UNCHANGED <<motion, moves, events, linked>>,
           answer'.taken => linked \/ answer.taken
    PROVE  LoneInv'
<1>1. Pending' = Pending
  BY DEF Pending
<1>2. NotLone(motion, Pending, touched) => NotLone(motion', Pending', touched')
  BY <1>1 DEF NotLone, OthersFollow
<1>3. InCompany(Pending, motion, touched) => InCompany(Pending', motion', touched')
  BY <1>1 DEF InCompany, Accompanied
<1> QED  BY <1>2, <1>3 DEF LoneInv

(* With two keyboards or more, no move but the user's is ever taken for a lone one:
   a burst moves another device before a candidate's quiet begins, since time passes
   only between bursts. *)
LEMMA LoneInvHolds ==
    ASSUME FollowTypes, FollowTypes', LoneInv, Cardinality(Safe) >= 2, [FollowNext]_followVars
    PROVE  LoneInv'
<1> USE FollowConstants
<1>0. /\ moves \in Seq(Motioned) /\ events \in Seq(Motioned) /\ motion \in Motions
      /\ Pending \in Seq(Motioned) /\ linked \in BOOLEAN
  BY DEF FollowTypes, Pending
<1>a. ASSUME Pending' = <<>>
      PROVE  InCompany(Pending', motion', touched')
  BY <1>a DEF InCompany
<1>b. ASSUME NEW o, Visits(o), Len(o) >= 2, NEW g \in LayoutGroups, moves = <<>>,
             moves' = MovesOf(o, g), UNCHANGED <<events, motion, touched, linked, answer>>
      PROVE  LoneInv'
  <2> DEFINE b == MovesOf(o, g)
  <2>1. b \in Seq(Motioned)
    BY <1>b, MovesOfAnOrder DEF Visits
  <2>2. Pending = events
    BY <1>0, <1>b DEF Pending
  <2>3. Pending' = events \o b
    BY <1>b DEF Pending
  <2>4. ASSUME linked PROVE InCompany(Pending', motion', touched')
    <3>1. InCompany(events, motion, touched)
      BY <2>2, <2>4 DEF LoneInv
    <3>2. InCompany(events \o b, motion, touched)
      BY <1>0, <1>b, <3>1, BurstInCompany
    <3> HIDE DEF b
    <3> QED  BY <1>b, <2>3, <3>2
  <2>5. NotLone(motion', Pending', touched')
    <3> HIDE DEF b
    <3>1. PICK x \in Motioned : TRUE
      <4>1. PICK k \in Safe : k \in Devices
        BY DevicesAssumption
      <4>2. [device |-> k, group |-> 0] \in Motioned
        BY <4>1 DEF Motioned
      <4> QED  BY <4>2
    <3>2. \A d : OthersFollow(events, d) => OthersFollow(events \o b, d)
      BY <1>0, <2>1, <3>1, OthersStay
    <3>3. NotLone(motion, events, touched)
      BY <2>2 DEF LoneInv
    <3> QED  BY <1>b, <2>3, <3>2, <3>3 DEF NotLone
  <2> QED  BY <1>b, <2>4, <2>5 DEF LoneInv
<1>1. ASSUME NEW d \in Safe, NEW g \in LayoutGroups, UserToggles(d, g)
      PROVE  LoneInv'
  <2> DEFINE x == [device |-> d, group |-> g]
  <2>1. /\ touched' = touched \cup {d} /\ Announce(d, g)
        /\ UNCHANGED <<moves, answer, linked, motion>>
    BY <1>1 DEF UserToggles, panelVars
  <2>2. CASE ~linked
    BY <2>1, <2>2, LoneUnchanged DEF Announce
  <2>3. CASE linked
    <3>1. x \in Motioned /\ x.device = d
      BY DEF Motioned
    <3>2. events' = Append(events, x)
      BY <2>1, <2>3 DEF Announce
    <3> HIDE DEF x
    <3>3. Pending' = Append(events, x) \o moves
      BY <2>1, <3>2 DEF Pending
    <3>4. InCompany(Pending', motion', touched')
      <4>1. InCompany(events \o moves, motion, touched)
        BY <2>3 DEF LoneInv, Pending
      <4>2. InCompany(Append(events, x) \o moves, motion, touched \cup {x.device})
        BY <1>0, <3>1, <4>1, InsertedInCompany
      <4> QED  BY <2>1, <3>1, <3>3, <4>2
    <3>5. NotLone(motion', Pending', touched')
      <4>1. \A e : OthersFollow(events \o moves, e) => OthersFollow(Append(events, x) \o moves, e)
        BY <1>0, <3>1, OthersStay
      <4>2. NotLone(motion, events \o moves, touched)
        BY DEF LoneInv, Pending
      <4> QED  BY <2>1, <3>3, <4>1, <4>2 DEF NotLone
    <3> QED  BY <2>1, <2>3, <3>4, <3>5 DEF LoneInv
  <2> QED  BY <1>0, <2>2, <2>3
<1>2. ASSUME NEW g \in LayoutGroups, BurstBegins(g)
      PROVE  LoneInv'
  <2>1. /\ moves = <<>> /\ moves' = MovesOf(Order, g)
        /\ UNCHANGED <<events, motion, touched, linked, answer>>
    BY <1>2 DEF BurstBegins, seatVars, panelVars
  <2> QED  BY <1>b, <2>1, OrdersVisit
<1>3. ASSUME NEW g \in LayoutGroups, Click(g)
      PROVE  LoneInv'
  <2>1. PICK o \in InOrder(Safe) : moves' = MovesOf(o, g)
    BY <1>3 DEF Click
  <2>2. /\ moves = <<>> /\ UNCHANGED <<events, motion, touched, linked, answer>>
    BY <1>3 DEF Click, seatVars
  <2>3. Visits(o) /\ Len(o) >= 2
    BY <2>1, OrdersVisit
  <2> QED  BY <1>b, <2>1, <2>2, <2>3
<1>4. ASSUME Moves
      PROVE  LoneInv'
  <2> DEFINE x == Head(moves)
  <2>1. /\ moves # <<>> /\ moves' = Tail(moves) /\ Announce(x.device, x.group)
        /\ UNCHANGED <<touched, motion, answer, linked>>
    BY <1>4 DEF Moves, panelVars
  <2>2. CASE linked
    <3>1. x \in Motioned
      BY <1>0, <2>1
    <3>2. events' = Append(events, x)
      <4>1. x = [device |-> x.device, group |-> x.group]
        BY <3>1 DEF Motioned
      <4> HIDE DEF x
      <4> QED  BY <2>1, <2>2, <4>1 DEF Announce
    <3>3. Append(events, x) \o Tail(moves) = events \o moves
      BY <1>0, <2>1
    <3>4. Pending' = Pending
      BY <2>1, <3>2, <3>3 DEF Pending
    <3>5. NotLone(motion', Pending', touched') /\ InCompany(Pending', motion', touched')
      BY <2>1, <2>2, <3>4 DEF LoneInv
    <3> QED  BY <2>1, <2>2, <3>5 DEF LoneInv
  <2>3. CASE ~linked
    <3>1. events' = <<>> /\ motion.candidate = NoDevice
      BY <2>1, <2>3 DEF Announce, LoneInv
    <3>2. NotLone(motion', Pending', touched')
      BY <2>1, <3>1 DEF NotLone
    <3> QED  BY <2>1, <2>3, <3>1, <3>2 DEF LoneInv
  <2> QED  BY <1>0, <2>2, <2>3
<1>5. ASSUME HearEvent
      PROVE  LoneInv'
  <2> DEFINE x == Head(events)
             echo == Guard!isEcho(guard, x.device, x.group)
  <2>1. /\ events # <<>> /\ events' = Tail(events) /\ motion' = event(motion, x.device, echo)
        /\ UNCHANGED <<moves, touched, answer, linked>>
    BY <1>5 DEF HearEvent, seatVars
  <2>2. linked
    BY <1>0, <2>1 DEF LoneInv
  <2>3. /\ Pending # <<>> /\ Pending[1] = x /\ Pending' = Tail(Pending)
    BY <1>0, <2>1 DEF Pending
  <2>4. x.device \in Devices /\ echo \in BOOLEAN
    <3>1. x \in Motioned
      BY <1>0, <2>1
    <3> QED  BY <3>1 DEF Motioned, Guard!isEcho
  <2> DEFINE e == x.device
  <2> HIDE DEF x, echo
  <2>5. /\ motion'.last = e /\ motion'.lastAge = 0
        /\ motion'.confirming \in {motion.confirming, NoDevice}
        /\ \/ motion'.candidate = NoDevice
           \/ motion'.candidate = e /\ motion'.candidateAge = 0 /\ isolated(motion, e)
           \/ /\ motion'.candidate = motion.candidate
              /\ motion'.candidateAge = motion.candidateAge
              /\ ~(motion.candidateAge < QuietTicks)
    BY <1>0, <2>1, <2>4, EventEffects
  <2>6. InCompany(Pending, motion, touched)
    BY <2>2 DEF LoneInv
  <2>7. InCompany(Pending', motion', touched')
    <3>1. InCompany(Tail(Pending), motion', touched)
      BY <1>0, <2>3, <2>5, <2>6, HeardInCompany
    <3> QED  BY <2>1, <2>3, <3>1
  <2>8. NotLone(motion', Pending', touched')
    <3> SUFFICES ASSUME motion'.candidate \notin touched \cup {NoDevice}
                 PROVE  motion'.candidateAge = 0 /\ OthersFollow(Pending', motion'.candidate)
      BY <2>1 DEF NotLone
    <3>1. CASE motion'.candidate = e /\ motion'.candidateAge = 0 /\ isolated(motion, e)
      <4>1. OthersFollow(Tail(Pending), e)
        BY <1>0, <2>3, <2>6, <3>1, CompanyFollows
      <4> QED  BY <2>3, <3>1, <4>1
    <3>2. CASE /\ motion'.candidate = motion.candidate
               /\ ~(motion.candidateAge < QuietTicks)
      <4>1. motion.candidateAge = 0
        BY <3>2 DEF LoneInv, NotLone
      <4> QED  BY <3>2, <4>1
    <3> QED  BY <2>5, <3>1, <3>2
  <2> QED  BY <2>1, <2>2, <2>5, <2>7, <2>8 DEF LoneInv
<1>6. ASSUME QuietTimer
      PROVE  LoneInv'
  <2>1. /\ linked /\ quietHeld(motion) /\ motion' = quiet(motion)
        /\ UNCHANGED <<moves, events, touched, answer, linked>>
    BY <1>6 DEF QuietTimer, seatVars
  <2>2. motion.candidate \in touched
    <3>1. motion.candidate # NoDevice /\ motion.candidateAge # 0
      BY <2>1 DEF quietHeld
    <3> QED  BY <3>1 DEF LoneInv, NotLone
  <2>3. /\ motion'.candidate = NoDevice /\ motion'.confirming = motion.candidate
        /\ motion'.last = motion.last /\ motion'.lastAge = motion.lastAge
    BY <1>0, <2>1 DEF quiet, DropCandidate, Motions
  <2>4. Pending' = Pending
    BY <2>1 DEF Pending
  <2>5. InCompany(Pending', motion', touched')
    <3>1. InCompany(Pending, motion, touched)
      BY <2>1 DEF LoneInv
    <3> QED  BY <2>1, <2>3, <2>4, <3>1 DEF InCompany, Accompanied
  <2>6. NotLone(motion', Pending', touched')
    BY <2>3 DEF NotLone
  <2> QED  BY <2>1, <2>2, <2>3, <2>5, <2>6 DEF LoneInv
<1>7. CASE SettleRecheck
  BY <1>7, LoneUnchanged DEF SettleRecheck, seatVars
<1>8. CASE TakeReading
  BY <1>8, LoneUnchanged DEF TakeReading, seatVars, panelVars
<1>9. ASSUME HearReading
      PROVE  LoneInv'
  <2>1. /\ answer.taken /\ answer' = NoAnswer /\ motion' = reading(motion, answer.groups)
        /\ UNCHANGED <<moves, events, touched, linked>>
    BY <1>9 DEF HearReading, seatVars
  <2>2. linked
    BY <1>0, <2>1 DEF LoneInv
  <2>3. /\ motion'.candidate = motion.candidate /\ motion'.confirming = NoDevice
        /\ motion'.candidateAge = motion.candidateAge
        /\ motion'.last = motion.last /\ motion'.lastAge = motion.lastAge
    BY <1>0, <2>1 DEF reading, DropConfirming, Motions
  <2>4. Pending' = Pending
    BY <2>1 DEF Pending
  <2>5. InCompany(Pending', motion', touched')
    <3>1. InCompany(Pending, motion, touched)
      BY <2>2 DEF LoneInv
    <3> QED  BY <2>1, <2>3, <2>4, <3>1 DEF InCompany, Accompanied
  <2>6. NotLone(motion', Pending', touched')
    BY <2>1, <2>3, <2>4 DEF LoneInv, NotLone
  <2> QED  BY <2>1, <2>2, <2>3, <2>5, <2>6 DEF LoneInv
<1>10. ASSUME Unlink
       PROVE  LoneInv'
  <2>1. /\ linked' = FALSE /\ events' = <<>> /\ answer' = NoAnswer
        /\ motion' = reconnected(motion) /\ touched' = touched
    BY <1>10 DEF Unlink
  <2>2. motion'.candidate = NoDevice /\ motion'.confirming = NoDevice
    BY <2>1 DEF reconnected, still
  <2>3. ~answer'.taken
    BY <2>1 DEF NoAnswer
  <2>4. NotLone(motion', Pending', touched')
    BY <2>2 DEF NotLone
  <2> QED  BY <2>1, <2>2, <2>3, <2>4 DEF LoneInv
<1>11. ASSUME Relink
       PROVE  LoneInv'
  <2>1. /\ ~linked /\ moves = <<>> /\ linked' = TRUE /\ motion' = reconnected(motion)
        /\ UNCHANGED <<touched, moves, events, answer>>
    BY <1>11 DEF Relink, seatVars
  <2>2. motion'.candidate = NoDevice /\ motion'.confirming = NoDevice
    BY <2>1 DEF reconnected, still
  <2>3. Pending' = <<>>
    BY <2>1 DEF LoneInv, Pending
  <2>4. NotLone(motion', Pending', touched')
    BY <2>2 DEF NotLone
  <2> QED  BY <1>a, <2>1, <2>2, <2>3, <2>4 DEF LoneInv
<1>12. ASSUME Tick
       PROVE  LoneInv'
  <2>1. /\ moves = <<>> /\ events = <<>> /\ motion' = motionAged(motion)
        /\ UNCHANGED <<touched, moves, events, answer, linked>>
    BY <1>12 DEF Tick, seatVars, wireVars
  <2>2. Pending = <<>> /\ Pending' = <<>>
    BY <2>1 DEF Pending
  <2>3. motion'.candidate = motion.candidate /\ motion'.confirming = motion.confirming
    BY <1>0, <2>1 DEF motionAged, Motions
  <2>4. motion.candidate \in touched \cup {NoDevice}
    BY <2>2 DEF LoneInv, NotLone, OthersFollow
  <2>5. NotLone(motion', Pending', touched')
    BY <2>1, <2>3, <2>4 DEF NotLone
  <2> QED  BY <1>a, <2>1, <2>2, <2>3, <2>5 DEF LoneInv
<1>13. CASE UNCHANGED followVars
  BY <1>13, LoneUnchanged DEF followVars, seatVars, panelVars, wireVars
<1> QED  BY <1>1, <1>2, <1>3, <1>4, <1>5, <1>6, <1>7, <1>8, <1>9, <1>10, <1>11, <1>12, <1>13
         DEF FollowNext

(* Where the panel starts. *)
LEMMA FollowInitHolds == FollowInit => FollowInv
<1> USE FollowConstants
<1> SUFFICES ASSUME FollowInit PROVE FollowInv
  OBVIOUS
<1>0. /\ guard = Guard!initial /\ motion = still /\ answer = NoAnswer /\ moves = <<>>
      /\ events = <<>> /\ linked = TRUE /\ touched = {} /\ seen = [group |-> -1, age |-> 0]
      /\ groups \in [Devices -> LayoutGroups] /\ remembered \in LayoutGroups
      /\ anchor = CHOOSE d \in Safe : TRUE
  BY DEF FollowInit
<1>1. FollowTypes
  <2>1. anchor \in Safe
    BY <1>0, DevicesAssumption
  <2>2. guard \in Guards
    BY <1>0 DEF Guard!initial, Guard!NoGroup, Guards
  <2>3. motion \in Motions
    <3>1. NoReading \in SeatReadings
      BY DEF NoReading, SeatReadings
    <3> QED  BY <1>0, <3>1 DEF still, Motions
  <2>4. /\ answer.groups \in [Devices -> LayoutGroups]
        /\ answer = [taken |-> answer.taken, groups |-> answer.groups, main |-> answer.main]
    BY <1>0 DEF NoAnswer
  <2>5. <<>> \in Seq(Motioned)
    OBVIOUS
  <2>6. seen \in [group : LayoutGroups \cup {-1}, age : Nat]
    BY <1>0
  <2> QED  BY <1>0, <2>1, <2>2, <2>3, <2>4, <2>5, <2>6 DEF FollowTypes
<1>2. HeldFlip
  BY <1>0 DEF HeldFlip, Guard!initial, Guard!NoGroup
<1>3. LoneInv
  <2>1. motion.confirming = NoDevice /\ motion.candidate = NoDevice
    BY <1>0 DEF still
  <2>2. Pending = <<>>
    BY <1>0 DEF Pending
  <2>3. NotLone(motion, Pending, touched) /\ InCompany(Pending, motion, touched)
    BY <2>1, <2>2 DEF NotLone, InCompany
  <2> QED  BY <1>0, <2>1, <2>3 DEF LoneInv
<1> QED  BY <1>1, <1>2, <1>3 DEF FollowInv

(* The types and the held flip, for any seat whatever. *)
THEOREM TheFlipIsWatched == FollowSpec => [](FollowTypes /\ HeldFlip)
<1>1. FollowInit => FollowTypes /\ HeldFlip
  BY FollowInitHolds DEF FollowInv
<1>2. FollowTypes /\ HeldFlip /\ [FollowNext]_followVars => (FollowTypes /\ HeldFlip)'
  BY FollowTypesHold, HeldFlipHolds
<1> QED  BY <1>1, <1>2, PTL DEF FollowSpec

(* SettleGuard.js: right after a connect the panel does not run after a compositor
   that is re-applying keymaps: it follows its own click, the user's toggle of the
   keyboard it reads, and what every reading has answered for a whole quiesce. *)
THEOREM ChurnLeavesTheGroup == FollowSpec => ChurnIsNotFollowed
<1> DEFINE churn == guard.followed # guard'.followed /\ Guard!InWindow(guard) /\ linked
                      => \/ guard'.followed \in {guard.commanded, Guard!NoGroup}
                         \/ loneAnchor(Picked, anchor)
                         \/ guard'.followed = seen.group /\ seen.age >= QuiesceTicks
<1>1. FollowTypes /\ HeldFlip /\ [FollowNext]_followVars => [churn]_followVars
  <2> SUFFICES ASSUME FollowTypes, HeldFlip, [FollowNext]_followVars,
                      guard.followed # guard'.followed, Guard!InWindow(guard), linked
               PROVE  \/ guard'.followed \in {guard.commanded, Guard!NoGroup}
                      \/ loneAnchor(Picked, anchor)
                      \/ guard'.followed = seen.group /\ seen.age >= QuiesceTicks
    BY DEF churn
  <2>0. guard \in Guards /\ seen.age \in Nat /\ QuiesceTicks \in Nat
    BY FollowConstants DEF FollowTypes
  <2>1. CASE HearReading
    <3>1. guard' = Decided.state
      BY <2>1 DEF HearReading
    <3>2. Picked.group \in LayoutGroups /\ loneAnchor(Picked, anchor) \in BOOLEAN
      BY PickedIsAGroup DEF loneAnchor
    <3>3. FollowsForAReason(guard, Picked.group, loneAnchor(Picked, anchor), guard')
      BY <2>0, <3>1, <3>2, DecideCases DEF Decided
    <3>4. guard.followed # -1
      BY DEF HeldFlip, Guard!InWindow
    <3>5. CASE Guard!Persisted(guard, Picked.group) /\ guard'.followed = Picked.group
      <4>1. guard.candidate = Picked.group /\ guard.candidateAge >= QuiesceTicks
        BY <3>5 DEF Guard!Persisted
      <4>2. guard.candidate # -1
        BY <3>2, <4>1, FollowConstants
      <4>3. seen.group = guard.candidate /\ guard.candidateAge <= seen.age
        BY <4>2 DEF HeldFlip
      <4>4. guard.candidateAge \in Nat
        BY <2>0 DEF Guards
      <4> QED  BY <2>0, <3>5, <4>1, <4>3, <4>4
    <3> QED  BY <3>3, <3>4, <3>5 DEF FollowsForAReason
  <2>2. ASSUME NEW g \in LayoutGroups, Click(g)
        PROVE  FALSE
    <3>1. guard' = Guard!commanded(guard, g, Safe)
      BY <2>2 DEF Click
    <3>2. guard'.followed = guard.followed
      BY <2>0, <3>1 DEF Guard!commanded, Guard!NoCandidate, Guards
    <3> QED  BY <3>2
  <2>3. CASE Tick
    <3>1. guard' = Guard!aged(guard)
      BY <2>3 DEF Tick
    <3>2. guard'.followed = guard.followed
      BY <2>0, <3>1 DEF Guard!aged, Guards
    <3> QED  BY <3>2
  <2>4. CASE Relink
    BY <2>4 DEF Relink
  <2>5. ASSUME NEW g \in LayoutGroups, BurstBegins(g) PROVE FALSE
    BY <2>5 DEF BurstBegins, panelVars
  <2>6. ASSUME NEW d \in Safe, NEW g \in LayoutGroups, UserToggles(d, g) PROVE FALSE
    BY <2>6 DEF UserToggles, panelVars
  <2>7. CASE Moves \/ HearEvent \/ QuietTimer \/ SettleRecheck
    BY <2>7 DEF Moves, HearEvent, QuietTimer, SettleRecheck, panelVars
  <2>8. CASE TakeReading \/ Unlink \/ UNCHANGED followVars
    BY <2>8 DEF TakeReading, Unlink, panelVars, followVars
  <2> QED  BY <2>1, <2>2, <2>3, <2>4, <2>5, <2>6, <2>7, <2>8 DEF FollowNext
<1>2. FollowSpec => [][churn]_followVars
  BY <1>1, TheFlipIsWatched, PTL DEF FollowSpec
<1> QED  BY <1>2 DEF ChurnIsNotFollowed, churn

(* Two keyboards or more: the whole invariant. *)
THEOREM MovesKeepCompany ==
    ASSUME Cardinality(Safe) >= 2
    PROVE  FollowSpec => []FollowInv
<1>1. FollowInit => FollowInv
  BY FollowInitHolds
<1>2. FollowInv /\ [FollowNext]_followVars => FollowInv'
  BY FollowTypesHold, HeldFlipHolds, LoneInvHolds DEF FollowInv
<1> QED  BY <1>1, <1>2, PTL DEF FollowSpec

(* SeatMotion.js: with two keyboards or more, the keyboard the panel takes for toggled
   by itself is one the user toggled, whatever bursts, clicks, lost connections and
   slow readings come between. *)
THEOREM LoneMovesAreTheUsers ==
    ASSUME Cardinality(Safe) >= 2
    PROVE  FollowSpec => LoneMoveIsTheUsers
<1> DEFINE lone == answer.taken /\ ~answer'.taken /\ linked' /\ ~motion.gap
                     /\ Picked.movedAlone # NoDevice => Picked.movedAlone \in touched
<1>1. FollowInv => (~motion.gap /\ Picked.movedAlone # NoDevice => Picked.movedAlone \in touched)
  <2> SUFFICES ASSUME FollowTypes, LoneInv, ~motion.gap, Picked.movedAlone # NoDevice
               PROVE  Picked.movedAlone \in touched
    BY DEF FollowInv
  <2> DEFINE asks == motionOf(motion)
             found == IF asks.asked THEN loneMover(asks.base, answer.groups, asks.candidate)
                                    ELSE NoDevice
  <2>1. Picked.movedAlone \in {found, NoDevice}
    <3> HIDE DEF found
    <3>1. \A a : (IF found = a THEN found ELSE NoDevice) \in {found, NoDevice}
      OBVIOUS
    <3> QED  BY <3>1 DEF Picked, select, found
  <2>2. CASE motion.confirming # NoDevice /\ motion.confirmingBase.known
    <3>1. asks = [asked |-> TRUE, base |-> motion.confirmingBase.groups,
                  candidate |-> motion.confirming]
      BY <2>2 DEF motionOf
    <3> DEFINE base == motion.confirmingBase.groups
               moved == Changed(base, answer.groups)
    <3>2. found = loneMover(base, answer.groups, motion.confirming)
      BY <3>1
    <3>3. found # NoDevice
      <4> HIDE DEF found
      <4> QED  BY <2>1
    <3> HIDE DEF found, asks
    <3>4. /\ Cardinality(moved) = 1 /\ motion.confirming \in moved
          /\ found = CHOOSE d \in moved : TRUE
      BY <2>2, <3>2, <3>3 DEF loneMover
    <3>5. IsFiniteSet(moved)
      BY DevicesAssumption, FS_Subset DEF Changed
    <3> HIDE DEF moved
    <3>6. PICK e : moved = {e}
      BY <3>4, <3>5, FS_Singleton
    <3>7. found = motion.confirming
      BY <3>4, <3>6
    <3>8. motion.confirming \in touched
      BY <2>2 DEF LoneInv
    <3> QED  BY <2>1, <3>7, <3>8
  <2>3. CASE ~(motion.confirming # NoDevice /\ motion.confirmingBase.known)
    <3>1. asks = NoMotion
      BY <2>3 DEF motionOf
    <3>2. found = NoDevice
      BY <3>1 DEF NoMotion
    <3> HIDE DEF found
    <3> QED  BY <2>1, <3>2
  <2> QED  BY <2>2, <2>3
<1>2. FollowInv => [lone]_followVars
  BY <1>1
<1>3. FollowSpec => [][lone]_followVars
  BY <1>2, MovesKeepCompany, PTL
<1> QED  BY <1>3 DEF LoneMoveIsTheUsers, lone

===============================================================================
