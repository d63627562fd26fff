----------------------------- MODULE PanelSettings -----------------------------
(***************************************************************************)
(* The panel's two private files, config.json and state.json: what the     *)
(* panel holds of them (Panel.qml), the saves on their way to the disk     *)
(* (PrivateSaves.qml: a directory maker per file, then one writer with a   *)
(* queue and one retry), the theme held while following is off (Theme.qml),*)
(* beside a user who changes settings, edits the files by hand, switches   *)
(* the desktop's theme and restarts the shell.                             *)
(*                                                                         *)
(* Abstracted: a changed file is read and applied in one step, at any time *)
(* after the change; a writer that cannot start is one that fails; a write *)
(* that fails has not landed.                                              *)
(***************************************************************************)
EXTENDS ConfigFile

CONSTANTS
    Picks,       \* <<field, value>> pairs the user picks
    ConfigTexts,   \* what config.json is set to by hand
    StateTexts,    \* what state.json is set to by hand
    FirstTexts,    \* the pairs of them the first session finds
    Budgets        \* how often each of it happens, one per scenario

Counted == {"changes", "moves", "opens", "themes", "edits", "failures", "restarts"}

(* The panel offers only what a field takes.                                *)
ASSUME SettingsAssumption ==
    /\ \A c \in Picks :
          /\ c[1] \in DOMAIN CONFIG_FIELDS
          /\ c[2] = Plain(c[2].v) /\ validFieldValue(c[1], c[2])
    /\ \A text \in ConfigTexts \cup StateTexts : IsText(text)
    /\ \A pair \in FirstTexts : IsText(pair[1]) /\ IsText(pair[2])
    /\ Budgets \subseteq [Counted -> Nat]

VARIABLES
    panel,     \* what Panel.qml and Theme.qml hold, with the makers' runs
    writer,    \* privateWriteInFlight and its process
    queue,     \* privateWriteQueue
    failed,    \* saveFailedPaths
    disk,      \* the two files
    heard,     \* a change of a file the watch has not reported yet
    orphan,    \* a writer that outlived its panel
    theme,     \* the desktop's theme
    budget,
    past       \* what a property excuses, below

vars == <<panel, writer, queue, failed, disk, heard, orphan, theme, budget, past>>

Paths == {"config", "state"}
Idle == NoWrite
Parsed(path, text) ==
    IF path = "config"
    THEN IF text.kind = "missing" THEN Read(NoKeys) ELSE reloadOverrides(NoKeys, text)
    ELSE IF text.kind = "missing" THEN Read(stateDefaults) ELSE reloadState(stateDefaults, text)
Memory(p, path) == IF path = "config" THEN p.overrides ELSE p.geometry
Serialized(p, path) ==
    IF path = "config" THEN serializeOverrides(p.overrides) ELSE serializeState(p.geometry)

unhealthyPaths(p) == {path \in Paths : p.error[path]}
configHealthy == ~panel.error["config"]

(* Nothing is saved over a file that is known not to parse.                 *)
Save(p, path) ==
    IF p.error[path] THEN p ELSE [p EXCEPT !.making[path] = TRUE]
saveOverrides(p) == Save(p, "config")
saveState(p) == Save(p, "state")

storeThemeSnapshot(p, snapshot) == saveState([p EXCEPT !.geometry.themeSnapshot = snapshot])

freeze(p) == IF p.held = "none" THEN [p EXCEPT !.held = theme] ELSE p
restore(p, saved) ==
    IF p.held = "none" THEN [p EXCEPT !.held = heldThemeFrom(saved)] ELSE p
release(p) == [p EXCEPT !.held = "none"]

syncThemeHold(p, stopped) ==
    LET saved == p.geometry.themeSnapshot
        step == themeHoldStep(
            [settingsKnown |-> p.settingsKnown, follow |-> p.followTheme, stopped |-> stopped,
             opened |-> p.opened, held |-> p.held # "none", stateKnown |-> p.stateKnown,
             saved |-> saved # None])
        kept == IF step = "freeze" THEN freeze(p) ELSE p
        file == serializeThemeSnapshot(kept.held)
    IN  CASE step = "keep" -> p
          [] step = "restore" -> restore(p, saved)
          [] step = "release" ->
                IF saved = None THEN release(p) ELSE storeThemeSnapshot(release(p), None)
          [] step \in {"freeze", "persist"} ->
                IF file = None THEN kept ELSE storeThemeSnapshot(kept, file)

(* The one panel that comes of p by a step.                                 *)
By(p, Step(_)) == CHOOSE q \in {Step(r) : r \in {p}} : TRUE

settled(p) == LET Step(q) == syncThemeHold(q, FALSE) IN By(p, Step)

applyEffectiveSettings(p) ==
    LET Step(q) ==
            LET follows == merge(q.overrides)["followTheme"] = Plain("on")
                Stop(r) == syncThemeHold(r, q.settingsKnown /\ q.followTheme /\ ~follows)
            IN  By([q EXCEPT !.followTheme = follows, !.settingsKnown = TRUE], Stop)
    IN  By(p, Step)

loadOverrides(p, text) ==
    LET result == reloadOverrides(p.overrides, text)
        heeded == [p EXCEPT !.error["config"] = result.error]
    IN  IF result.error THEN heeded
        ELSE applyEffectiveSettings([heeded EXCEPT !.overrides = result.value])

missingOverrides(p) ==
    applyEffectiveSettings([p EXCEPT !.error["config"] = FALSE, !.overrides = NoKeys])

loadState(p, text) ==
    LET result == reloadState(p.geometry, text)
    IN  settled([p EXCEPT !.error["state"] = result.error, !.stateKnown = TRUE,
                          !.geometry = result.value])

missingState(p) ==
    settled([p EXCEPT !.error["state"] = FALSE, !.stateKnown = TRUE,
                      !.geometry = stateDefaults])

(* A file that is there and cannot be read is an error and nothing else.    *)
Loaded(p, path) ==
    LET text == disk[path]
    IN  CASE text.kind = "unreadable" -> [p EXCEPT !.error[path] = TRUE]
          [] text.kind = "missing" ->
                IF path = "config" THEN missingOverrides(p) ELSE missingState(p)
          [] OTHER -> IF path = "config" THEN loadOverrides(p, text) ELSE loadState(p, text)

Fresh ==
    [overrides |-> NoKeys, geometry |-> stateDefaults, error |-> [path \in Paths |-> FALSE],
     settingsKnown |-> FALSE, stateKnown |-> FALSE, followTheme |-> TRUE, held |-> "none",
     opened |-> FALSE, making |-> [path \in Paths |-> FALSE]]

(* Both files load before the panel is up, in either order.                 *)
Started ==
    UNION {{Loaded(p, order[2]) : p \in {Loaded(Fresh, order[1])}} :
              order \in {<<"config", "state">>, <<"state", "config">>}}

----------------------------------------------------------------------------
(* past.meant: what each file should come to hold, the last that was saved  *)
(* by the panel or put there by the user; past.crossed: the two met;        *)
(* past.vouched: a save failed before it was written while an older write   *)
(* of its file was under way, whose landing takes the notice back.          *)

CanSpend(what) == budget[what] > 0
Spend(what) == budget' = [budget EXCEPT ![what] = @ - 1]

Writing(path) == writer.path = path \/ \E i \in DOMAIN queue : queue[i].path = path
Underway(path) == panel.making[path] \/ Writing(path) \/ orphan.path = path

(* A step of the panel: what it asks to save is meant to last.              *)
Kept(path) == Memory(panel', path) = Memory(panel, path)
Meant ==
    [path \in Paths |->
        IF panel'.making[path] /\ (~panel.making[path] \/ ~Kept(path))
        THEN Memory(panel', path) ELSE past.meant[path]]

Panel(p) == panel' = p /\ past' = [past EXCEPT !.meant = Meant]

Init ==
    /\ disk \in {[config |-> pair[1], state |-> pair[2]] : pair \in FirstTexts}
    /\ theme \in Themes /\ budget \in Budgets
    /\ panel \in Started
    /\ writer = Idle /\ queue = <<>> /\ failed = {} /\ orphan = Idle
    /\ heard = [path \in Paths |-> FALSE]
    /\ past = [meant |-> [path \in Paths |-> Memory(panel, path)], crossed |-> {}, vouched |-> {}]

commitOverrides(next) ==
    Panel(saveOverrides(applyEffectiveSettings([panel EXCEPT !.overrides = next])))

world == <<disk, heard, orphan, theme>>
saves == <<writer, queue, failed>>

setOverride(name, value) ==
    /\ configHealthy /\ CanSpend("changes") /\ Spend("changes")
    /\ commitOverrides(withOverride(panel.overrides, name, value, panel.followTheme))
    /\ UNCHANGED <<world, saves>>

(* A reset is offered only where it would change something.                 *)
clearOverride(name) ==
    /\ configHealthy /\ CanSpend("changes") /\ Spend("changes")
    /\ resetOffered(panel.overrides, name, panel.followTheme)
    /\ commitOverrides(Restrict(panel.overrides, DOMAIN panel.overrides \ {name}))
    /\ UNCHANGED <<world, saves>>

clearAllOverrides ==
    /\ configHealthy /\ CanSpend("changes") /\ Spend("changes")
    /\ commitOverrides(NoKeys)
    /\ UNCHANGED <<world, saves>>

(* A drag of the card, and every other fact state.json remembers.           *)
PlaceCard(point) ==
    /\ CanSpend("moves") /\ Spend("moves")
    /\ Panel(saveState([panel EXCEPT !.geometry.center = Plain(point)]))
    /\ UNCHANGED <<world, saves>>

Open ==
    /\ ~panel.opened /\ CanSpend("opens") /\ Spend("opens")
    /\ Panel(settled([panel EXCEPT !.opened = TRUE]))
    /\ UNCHANGED <<world, saves>>

Close ==
    /\ panel.opened /\ panel' = [panel EXCEPT !.opened = FALSE]
    /\ UNCHANGED <<world, saves, budget, past>>

SwitchTheme ==
    /\ CanSpend("themes") /\ Spend("themes") /\ theme' \in Themes \ {theme}
    /\ UNCHANGED <<panel, saves, disk, heard, orphan, past>>

(* The user edits a file, or removes it.                                    *)
Edit(path, text) ==
    /\ CanSpend("edits") /\ Spend("edits") /\ disk[path] # text
    /\ disk' = [disk EXCEPT ![path] = text]
    /\ heard' = [heard EXCEPT ![path] = TRUE]
    /\ past' = [meant |-> [past.meant EXCEPT ![path] = Parsed(path, text).value],
                vouched |-> past.vouched,
                crossed |-> past.crossed \cup IF Underway(path) THEN {path} ELSE {}]
    /\ UNCHANGED <<panel, saves, orphan, theme>>

(* The watch reports a change. What it reads replaces what is held, a       *)
(* change whose directory is still being made included.                     *)
Reload(path) ==
    /\ heard[path] /\ heard' = [heard EXCEPT ![path] = FALSE]
    /\ panel' = Loaded(panel, path)
    /\ past' = [meant |-> Meant, vouched |-> past.vouched,
                crossed |-> past.crossed \cup
                    IF \/ panel.making[path] /\ ~Kept(path)
                       \/ panel'.error[path] /\ Underway(path)
                    THEN {path} ELSE {}]
    /\ UNCHANGED <<saves, disk, orphan, theme, budget>>

----------------------------------------------------------------------------
runPrivateWrite(entry) == writer' = With(entry, "landed", FALSE)

(* The filter of a file's entry: the queue holds one of each file.          *)
withoutFile(path) ==
    LET older == {i \in DOMAIN queue : queue[i].path = path}
    IN  IF older = {} THEN queue ELSE RemoveAt(queue, CHOOSE i \in older : TRUE)

writePrivateFile(path, text) ==
    LET entry == [path |-> path, text |-> text, retried |-> FALSE]
    IN  IF writer # Idle
        THEN queue' = Append(withoutFile(path), entry) /\ UNCHANGED writer
        ELSE runPrivateWrite(entry) /\ UNCHANGED queue

(* A directory maker's exit: what the panel holds by now is written.        *)
MakerExits(path) ==
    /\ panel.making[path] /\ panel' = [panel EXCEPT !.making[path] = FALSE]
    /\ IF panel.error[path] THEN UNCHANGED <<writer, queue>>
       ELSE writePrivateFile(path, Serialized(panel, path))
    /\ UNCHANGED <<failed, world, budget, past>>

MakerFails(path) ==
    /\ CanSpend("failures") /\ Spend("failures")
    /\ panel.making[path] /\ panel' = [panel EXCEPT !.making[path] = FALSE]
    /\ failed' = IF panel.error[path] THEN failed ELSE failed \cup {path}
    /\ past' = [past EXCEPT !.vouched = @ \cup IF Writing(path) THEN {path} ELSE {}]
    /\ UNCHANGED <<writer, queue, world>>

Land(entry) ==
    /\ disk' = [disk EXCEPT ![entry.path] = entry.text]
    /\ heard' = [heard EXCEPT ![entry.path] = TRUE]

WriterLands ==
    /\ writer # Idle /\ ~writer.landed
    /\ Land(writer) /\ writer' = [writer EXCEPT !.landed = TRUE]
    /\ UNCHANGED <<panel, queue, failed, orphan, theme, budget, past>>

hasNewer == \E i \in DOMAIN queue : queue[i].path = writer.path

(* Mutant: a failed write is queued again behind a newer one of its file.   *)
AgainAnyhow ==
    IF writer.retried THEN queue
    ELSE Append(queue, [path |-> writer.path, text |-> writer.text, retried |-> TRUE])
Again ==
    IF hasNewer \/ writer.retried THEN queue
    ELSE Append(queue, [path |-> writer.path, text |-> writer.text, retried |-> TRUE])

(* Mutant: the exit leaves the queue to the next save.                      *)
finishedUndrained(waiting) == queue' = waiting /\ writer' = Idle
privateWriteFinished(waiting) ==
    LET pick == nextPrivateWrite(waiting, unhealthyPaths(panel))
    IN  /\ queue' = pick.queue
        /\ IF pick.next = NoWrite THEN writer' = Idle ELSE runPrivateWrite(pick.next)

WriterExits ==
    /\ writer # Idle /\ writer.landed
    /\ failed' = failed \ {writer.path}
    /\ privateWriteFinished(queue)
    /\ UNCHANGED <<panel, world, budget, past>>

WriterFails ==
    /\ writer # Idle /\ ~writer.landed
    /\ CanSpend("failures") /\ Spend("failures")
    /\ failed' = IF writer.retried THEN failed \cup {writer.path} ELSE failed
    /\ privateWriteFinished(Again)
    /\ UNCHANGED <<panel, world, past>>

(* The shell goes down, the writer with it or after it, and comes back.     *)
Restart ==
    /\ CanSpend("restarts") /\ Spend("restarts")
    /\ panel' \in Started
    /\ orphan' \in {Idle} \cup IF writer # Idle /\ ~writer.landed THEN {writer} ELSE {}
    /\ orphan = Idle
    /\ writer' = Idle /\ queue' = <<>> /\ failed' = {}
    /\ heard' = [path \in Paths |-> FALSE]
    /\ past' = [meant |-> [path \in Paths |-> Memory(panel', path)],
                vouched |-> {}, crossed |-> IF orphan' = Idle THEN {} ELSE {orphan'.path}]
    /\ UNCHANGED <<disk, theme>>

OrphanLands ==
    /\ orphan # Idle /\ orphan' = Idle /\ Land(orphan)
    /\ UNCHANGED <<panel, saves, theme, budget, past>>

Chooses ==
    \/ \E c \in Picks : setOverride(c[1], c[2])
    \/ \E name \in DOMAIN CONFIG_FIELDS : clearOverride(name)
    \/ clearAllOverrides
    \/ \E point \in Points : PlaceCard(point)

Edits ==
    \/ \E text \in ConfigTexts : Edit("config", text)
    \/ \E text \in StateTexts : Edit("state", text)

Saves ==
    \/ \E path \in Paths : Reload(path) \/ MakerExits(path)
    \/ WriterLands \/ WriterExits \/ OrphanLands

Next ==
    \/ Chooses \/ Edits \/ Saves
    \/ Open \/ Close \/ SwitchTheme \/ Restart
    \/ \E path \in Paths : MakerFails(path)
    \/ WriterFails

Spec == Init /\ [][Next]_vars

(* Processes exit and the watch reports; the user and the failures need not *)
(* come.                                                                    *)
FairSpec ==
    /\ Spec
    /\ \A path \in Paths : WF_vars(Reload(path)) /\ WF_vars(MakerExits(path))
    /\ WF_vars(WriterLands) /\ WF_vars(WriterExits) /\ WF_vars(OrphanLands)

----------------------------------------------------------------------------
SettingsTypeOK ==
    /\ panel.held \in Themes \cup {"none"} /\ theme \in Themes
    /\ DOMAIN panel.overrides \subseteq FieldNames \cup {"future"}
    /\ \A n \in DOMAIN panel.overrides \cap DOMAIN CONFIG_FIELDS :
          validFieldValue(n, panel.overrides[n])
    /\ panel.error \in [Paths -> BOOLEAN] /\ panel.making \in [Paths -> BOOLEAN]
    /\ failed \subseteq Paths /\ past.crossed \subseteq Paths

AtRest ==
    \A path \in Paths : ~Underway(path) /\ ~heard[path]

(* "The newest wins per file", and a save that did not reach the disk is    *)
(* said (PrivateSaves.qml:45-52, 108-125): once nothing is on its way, each *)
(* file that parses and has no failed save reads as exactly what the panel  *)
(* holds, whatever was retried, queued, overtaken or read back on the way;  *)
(* and that is the last thing the panel saved or the user put there, unless *)
(* the two met.                                                             *)
ChangesAreKept ==
    AtRest =>
        \A path \in Paths \ (failed \cup past.vouched) : ~panel.error[path] =>
            /\ Parsed(path, disk[path]) = Read(Memory(panel, path))
            /\ path \notin past.crossed => Memory(panel, path) = past.meant[path]

(* "A file that does not parse is never overwritten" (README.md:442): no    *)
(* write starts, fresh, queued or retried, on a file known not to parse.    *)
MalformedIsKept ==
    [][ writer' \notin {writer, Idle} /\ ~writer'.landed => ~panel.error[writer'.path] ]_vars

(* With following off the look is held (Theme.qml, Config.js themeHoldStep):*)
(* no theme switch, reload, open or save changes it, and neither does a     *)
(* restart once its save is at rest and the file holds no other.            *)
Restarts == budget'.restarts < budget.restarts
Carried ==
    /\ AtRest /\ failed = {} /\ past.vouched = {} /\ unhealthyPaths(panel) = {}
    /\ disk["config"].kind # "unreadable" /\ panel.held \notin Uncarried
    /\ Parsed("state", disk["state"]).value.themeSnapshot \in {None, Plain(panel.held)}
HeldThemeIsKept ==
    [][ /\ panel.held # "none" /\ ~panel.followTheme /\ ~panel'.followTheme
        /\ Restarts => Carried
        => panel'.held = panel.held ]_vars

(* Reading a save back and saving what was read do not chase each other:    *)
(* after the last change everything comes to rest.                          *)
SavesSettle == <>[]AtRest
=============================================================================
