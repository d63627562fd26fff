----------------------------- MODULE SharePanels -----------------------------
(***************************************************************************)
(* The panels that drive KbFileShare: what Keyboard.qml does with a seat   *)
(* reading, an acknowledged keymap, a share's verdict and its own          *)
(* destruction, and what it remembers of the user's kb_file meanwhile.     *)
(*                                                                         *)
(* A panel is one life of the shell's component over one connection.  Its  *)
(* lines wait on the wire and the helper runs them one at a time, in order,*)
(* those of a panel that is gone included.                                 *)
(*                                                                         *)
(* Abstractions:                                                           *)
(*   - An answer is handled before the connection's next line is run: all  *)
(*     it does is change the panel and add lines behind those on the wire. *)
(*   - Keymap generations are replaced by "some acknowledged map is        *)
(*     shared" (shared), and a newer one by a choice.                      *)
(*   - The keycap facts of all groups are one `caps` line.                 *)
(*   - The five retries of a share are replaced by giving up at any of     *)
(*     them.                                                               *)
(***************************************************************************)
EXTENDS KbFileShare, Naturals, Sequences

CONSTANTS
    Existing,  \* the user's files that exist
    Overlap,   \* a panel may open while another one's lines are still running
    MaxEdits   \* bound: how often the user changes their kb_file

ASSUME PanelAssumption ==
    /\ Existing \subseteq UserFiles
    /\ Overlap \in BOOLEAN
    /\ MaxEdits \in Nat

VARIABLES
    panel,   \* connection -> the panel at its other end
    wire,    \* connection -> the lines the helper has not run yet
    answer,  \* connection -> the answer its panel has not handled yet
    users,   \* the user's own kb_file
    edits    \* how often they changed it

sharing == <<comp, record, lastSeen, gate, job, phase, outcome, outside, lost>>
allVars == <<sharing, panel, wire, answer, users, edits>>

Seat == [verb |-> "seat", file |-> None]
Share(v) == [verb |-> "share", file |-> v]
Configured(v) == [verb |-> "configure", file |-> v]
Caps == [verb |-> "caps", file |-> None]
Nothing == [word |-> "none", file |-> None]

Panel == [life     : {"absent", "live", "closed", "died"},
          mem      : Existing \cup {None},            \* userKeymapFile
          observed : BOOLEAN,                         \* userKeymapObserved
          literal  : UserFiles \cup {None},           \* userKeymapLiteral
          facts    : BOOLEAN,                         \* keycap facts are current
          shared   : BOOLEAN,                         \* sharedKeymapGen # 0
          run      : {"none", "sent", "retry"}]       \* the share run owned

Absent == [life |-> "absent", mem |-> None, observed |-> FALSE, literal |-> None,
           facts |-> FALSE, shared |-> FALSE, run |-> "none"]

PanelsTypeOK ==
    /\ TypeOK
    /\ panel \in [Conns -> Panel]
    /\ wire \in [Conns -> Seq([verb : {"seat", "share", "configure", "caps"}, file : Values])]
    /\ answer \in [Conns -> [word : {"none", "seat", "noSeat", "configured", "refused", "facts",
                                     "ok", "failed", "unrestorable"},
                             file : Values]]
    /\ users \in UserFiles \cup {None}
    /\ edits \in 0..MaxEdits

PanelsInit ==
    /\ Init
    /\ panel = [p \in Conns |-> Absent]
    /\ wire = [p \in Conns |-> <<>>]
    /\ answer = [p \in Conns |-> Nothing]
    /\ users = comp
    /\ edits = 0

Live(p) == panel[p].life = "live"
Quiet(p) == wire[p] = <<>> /\ At(p, "idle") /\ answer[p] = Nothing

-----------------------------------------------------------------------------
(* The helper's end of a connection *)

(* The next line of p is run: its answer is at once, or its worker's. *)
Dispatch(p) ==
    /\ wire[p] # <<>>
    /\ answer[p] = Nothing
    /\ wire' = [wire EXCEPT ![p] = Tail(@)]
    /\ CASE Head(wire[p]).verb = "seat" -> AskSeat(p) /\ UNCHANGED answer
         [] Head(wire[p]).verb = "share" ->
              AskShare(p, Head(wire[p]).file) /\ UNCHANGED answer
         [] Head(wire[p]).verb = "configure" ->
              /\ Configure(p, Head(wire[p]).file)
              /\ IF Live(p)
                   THEN \E word \in {"configured", "refused"} :
                           answer' = [answer EXCEPT ![p] = [Nothing EXCEPT !.word = word]]
                   ELSE UNCHANGED answer
         [] Head(wire[p]).verb = "caps" ->
              /\ answer' = IF Live(p) THEN [answer EXCEPT ![p] = [Nothing EXCEPT !.word = "facts"]]
                                      ELSE answer
              /\ UNCHANGED sharing
    /\ UNCHANGED <<panel, users, edits>>

(* What a worker that ends here answers. *)
Verdict(p) ==
    CASE At(p, "seat") -> [Nothing EXCEPT !.word = "noSeat"]
      [] At(p, "observe") -> [word |-> "seat", file |-> job[p].current]
      [] At(p, "confirmed") -> [Nothing EXCEPT !.word = "ok"]
      [] At(p, "capture") /\ ~MayTakeOver(p) -> [Nothing EXCEPT !.word = "unrestorable"]
      [] OTHER -> [Nothing EXCEPT !.word = "failed"]

WorkerSteps(p) ==
    /\ Work(p)
    /\ answer' = IF job'[p] = Idle /\ Live(p)
                   THEN [answer EXCEPT ![p] = Verdict(p)] ELSE answer
    /\ UNCHANGED <<panel, wire, users, edits>>

-----------------------------------------------------------------------------
(* The panel's end *)

Send(p, lines) == wire' = [wire EXCEPT ![p] = @ \o lines]

(* recoverUserKeymapSource *)
Recover(m) ==
    IF m.mem = None /\ ~m.observed /\ record \in Existing
      THEN [m EXCEPT !.mem = record] ELSE m

Open(p) ==
    /\ panel[p].life = "absent"
    /\ ~Stopping
    /\ Overlap \/ \A q \in Conns \ {p} : ~Live(q) /\ Quiet(q)
    /\ panel' = [panel EXCEPT ![p] = Recover([@ EXCEPT !.life = "live"])]
    /\ Send(p, <<Seat>>)
    /\ UNCHANGED <<sharing, answer, users, edits>>

(* A wish for a fresh reading: one `seat` outstanding at a time. *)
AskAgain(p) ==
    /\ Live(p)
    /\ answer[p].word \notin {"seat", "noSeat"}
    /\ job[p].at \notin {"seat", "observe"}
    /\ \A i \in DOMAIN wire[p] : wire[p][i] # Seat
    /\ Send(p, <<Seat>>)
    /\ UNCHANGED <<sharing, panel, answer, users, edits>>

Hear(p, word) ==
    /\ Live(p)
    /\ answer[p].word = word
    /\ answer' = [answer EXCEPT ![p] = Nothing]
    /\ UNCHANGED <<sharing, users, edits>>

(* ingestSeatFacts on a compositor that is on the published keymap... *)
HearPublished(p) ==
    /\ Hear(p, "seat")
    /\ answer[p].file = Published
    /\ LET m == Recover(panel[p])
       IN  /\ panel' = [panel EXCEPT ![p] = m]
           /\ Send(p, <<Configured(m.mem)>>)

(* ... and on one that is not.  What was shared is displaced, and shared again
   ahead of the configure. *)
HearOwn(p) ==
    /\ Hear(p, "seat")
    /\ answer[p].file # Published
    /\ LET file   == IF answer[p].file \in Existing THEN answer[p].file ELSE None
           again  == panel[p].shared /\ panel[p].run = "none"
           before == IF again THEN <<Share(Published)>> ELSE <<>>
       IN  /\ panel' = [panel EXCEPT ![p] =
                          [@ EXCEPT !.observed = TRUE,
                                    !.literal = answer[p].file,
                                    !.mem = file,
                                    !.shared = FALSE,
                                    !.run = IF again THEN "sent" ELSE panel[p].run]]
           /\ Send(p, before \o <<Configured(file)>>)

HearNoSeat(p) == Hear(p, "noSeat") /\ UNCHANGED <<panel, wire>>
HearRefused(p) == Hear(p, "refused") /\ UNCHANGED <<panel, wire>>

(* The keycap facts of an acknowledged keymap are asked for unless they are at
   hand, once no other configure is on its way. *)
HearConfigured(p) ==
    /\ Hear(p, "configured")
    /\ \E facts \in {FALSE, panel[p].facts} :   \* a new keymap, or the same
          /\ panel' = [panel EXCEPT ![p].facts = facts]
          /\ IF facts \/ \E i \in DOMAIN wire[p] : wire[p][i].verb = "configure"
               THEN UNCHANGED wire
               ELSE Send(p, <<Caps>>)

(* A keymap whose facts are accepted is shared unless it is already, or a run
   is on; facts of a keymap another connection has replaced are refused. *)
HearFacts(p) ==
    /\ Hear(p, "facts")
    /\ \/ /\ panel[p].run = "none"
          /\ panel' = [panel EXCEPT ![p].facts = TRUE, ![p].run = "sent"]
          /\ Send(p, <<Share(Published)>>)
       \/ /\ panel[p].run # "none" \/ panel[p].shared
          /\ panel' = [panel EXCEPT ![p].facts = TRUE]
          /\ UNCHANGED wire
       \/ /\ \E q \in Conns \ {p} : Live(q)
          /\ UNCHANGED <<panel, wire>>

HearShared(p) ==
    /\ Hear(p, "ok")
    /\ \/ /\ panel' = [panel EXCEPT ![p].shared = TRUE, ![p].run = "none"]
          /\ UNCHANGED wire
       \/ /\ panel' = [panel EXCEPT ![p].shared = TRUE]
          /\ Send(p, <<Share(Published)>>)

HearNotShared(p) ==
    /\ \/ Hear(p, "unrestorable") /\ panel' = [panel EXCEPT ![p].run = "none"]
       \/ /\ Hear(p, "failed")
          /\ \E run \in {"none", "retry"} : panel' = [panel EXCEPT ![p].run = run]
    /\ UNCHANGED wire

(* The retry timer: only while the run is still owned. *)
Retry(p) ==
    /\ Live(p)
    /\ panel[p].run = "retry"
    /\ panel' = [panel EXCEPT ![p].run = "sent"]
    /\ Send(p, <<Share(Published)>>)
    /\ UNCHANGED <<sharing, answer, users, edits>>

(* What the destruction hook gives back: the literal setting, once observed. *)
GivenBack(p) == IF panel[p].observed THEN panel[p].literal ELSE panel[p].mem

Close(p) ==
    /\ Live(p)
    /\ panel' = [panel EXCEPT ![p] = [Absent EXCEPT !.life = "closed"]]
    /\ answer' = [answer EXCEPT ![p] = Nothing]
    /\ IF panel[p].shared /\ Restorable(GivenBack(p))
         THEN Send(p, <<Share(GivenBack(p))>>)
         ELSE UNCHANGED wire
    /\ UNCHANGED <<sharing, users, edits>>

(* The shell dies without its destruction hook. *)
Die(p) ==
    /\ Live(p)
    /\ panel' = [panel EXCEPT ![p] = [Absent EXCEPT !.life = "died"]]
    /\ answer' = [answer EXCEPT ![p] = Nothing]
    /\ UNCHANGED <<sharing, wire, users, edits>>

-----------------------------------------------------------------------------
(* A config reload puts the user's own value back; an edit changes it first. *)
Reload ==
    /\ UserSets(users)
    /\ UNCHANGED <<panel, wire, answer, users, edits>>

Edit(v) ==
    /\ edits < MaxEdits
    /\ v # users
    /\ UserSets(v)
    /\ users' = v
    /\ edits' = edits + 1
    /\ UNCHANGED <<panel, wire, answer>>

ShutdownSteps ==
    /\ BeginStop \/ Shutdown \/ WatchdogFires
    /\ UNCHANGED <<panel, wire, answer, users, edits>>

(* The model ends with the helper: what a panel does next is to its heir. *)
PanelSteps(p) ==
    /\ phase # "exited"
    /\ \/ Open(p) \/ AskAgain(p) \/ Close(p) \/ Die(p) \/ Retry(p)
       \/ HearPublished(p) \/ HearOwn(p) \/ HearNoSeat(p)
       \/ HearConfigured(p) \/ HearFacts(p) \/ HearRefused(p) \/ HearShared(p) \/ HearNotShared(p)

PanelsNext ==
    \/ \E p \in Conns : PanelSteps(p) \/ Dispatch(p) \/ WorkerSteps(p)
    \/ ShutdownSteps
    \/ Reload
    \/ \E v \in UserFiles \cup {None} : Edit(v)

PanelsSpec == PanelsInit /\ [][PanelsNext]_allVars

-----------------------------------------------------------------------------
(* The user's setting is never lost: whenever the compositor is off it, the
   record names it, through crashes of the shell, reloads and failed shares.
   It holds of a setting that is unset, relative, or names a file that exists;
   one whose file is gone is cleared instead (LiteralIsPutBack). *)
RecordKeepsTheUsers == comp # users /\ ~lost => record = users

(* With no share under way the compositor is on the user's own setting or on
   the published keymap, never empty by the helper's doing. *)
NeverHalfShared == gate = Free /\ ~lost => comp \in {users, Published}

(* A helper that left in order leaves the user's own setting behind. *)
StopGivesBackTheUsers ==
    outcome \in {"notOurs", "restored"} /\ ~lost => comp = users

(* An edit reaches the record: a panel that has read the user's new file, and
   whose lines have all been run, leaves nothing older to be given back,
   although its share of the old keymap runs ahead of its configure. *)
RecordFollowsTheEdit ==
    \A p \in Conns :
        /\ Live(p) /\ Quiet(p)
        /\ panel[p].observed /\ panel[p].literal = users
        /\ users \in Existing
        /\ comp = Published
        /\ ~lost
        => record = users

-----------------------------------------------------------------------------
(* What comments of the source say, and the code does not do. *)

(* seat.rs on SourceDecision::Clear: "the recovery record must not outlive the
   setting": once a panel has read the setting and all its lines were run. *)
RecordDiesWithTheSetting ==
    \A p \in Conns :
        /\ Live(p) /\ Quiet(p)
        /\ panel[p].observed /\ panel[p].literal = users
        /\ comp = Published
        /\ ~lost
        => record = users

(* seat.rs on SourceDecision::Leave: "an empty one while the compositor still
   compiles the published keymap: keep whatever is recorded". *)
EmptyKeepsTheRecord ==
    [][comp = Published /\ record # None => record' # None]_allVars

(* Keyboard.qml on the destruction hook: "a session that ends with the OSK
   closed must not be left compiling every physical keyboard from" it. *)
ClosingGivesBack ==
    (\A p \in Conns : panel[p].life \in {"absent", "closed"} /\ Quiet(p)) /\ gate = Free /\ ~lost
        => comp # Published

(* Keyboard.qml on userKeymapLiteral: a value naming no file is the user's all
   the same, "and the destruction restore puts that literal value back". *)
LiteralIsPutBack ==
    gate = Free /\ ~lost /\ users \in UserFiles \ Existing => comp # None
=============================================================================
