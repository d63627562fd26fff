------------------------------ MODULE ConfigFile ------------------------------
(***************************************************************************)
(* Config.js as the panel's saves use it: what the text of config.json and *)
(* of state.json means, what the panel writes for what it holds, which     *)
(* override is in force, and the two decisions of the saves, what becomes  *)
(* of the held theme and which write runs next.                            *)
(*                                                                         *)
(* A value of the JSON is a form and what it spells: a plain one, a        *)
(* boolean quoted as a string, a colour with stray blanks, one no field    *)
(* takes ("odd"), one beyond the cap of the unknown keys ("huge").  Of the *)
(* fields of each file, one of every rule stands for its kind: followTheme *)
(* and sound for the booleans, accentColor for the appearance, center for  *)
(* what a malformed value of makes the whole of state.json malformed.      *)
(***************************************************************************)
EXTENDS Sequences, FiniteSets, Functions, SequencesExt

CONSTANTS
    Colors,      \* the colours a colour field takes
    Points,      \* the places the card is put at
    Themes,      \* the looks of the desktop's theme
    Uncarried    \* those with a token state.json has no form for

ASSUME ThemesAssumption == Uncarried \subseteq Themes /\ "none" \notin Themes

Plain(v) == [form |-> "plain", v |-> v]
None == Plain("none")
NoKeys == [k \in {} |-> None]

IsValue(raw) == raw = [form |-> raw.form, v |-> raw.v]
IsKeys(keys) ==
    keys = [k \in DOMAIN keys |-> keys[k]] /\ \A k \in DOMAIN keys : IsValue(keys[k])
IsText(text) == text = [kind |-> text.kind, keys |-> text.keys] /\ IsKeys(text.keys)

Missing == [kind |-> "missing", keys |-> NoKeys]
Unreadable == [kind |-> "unreadable", keys |-> NoKeys]
Broken == [kind |-> "broken", keys |-> NoKeys]
Json(keys) == [kind |-> "json", keys |-> keys]

CONFIG_FIELDS == [followTheme |-> "follow_theme", accentColor |-> "accent_color", sound |-> "sound"]
APPEARANCE_FIELDS == {"accentColor"}
STATE_FILE_KEYS == {"center", "theme_snapshot"}
FieldNames == DOMAIN CONFIG_FIELDS \cup Range(CONFIG_FIELDS)

maintainerDefaults ==
    [followTheme |-> Plain("on"), accentColor |-> Plain("shipped"), sound |-> Plain("off")]
stateDefaults == [center |-> None, themeSnapshot |-> None, unknown |-> NoKeys]

parseObject(text) == text.kind = "json"

isColor(raw) == raw.form \in {"plain", "padded"} /\ raw.v \in Colors

validFieldValue(field, raw) ==
    IF field \in APPEARANCE_FIELDS THEN isColor(raw)
    ELSE raw.form = "plain" /\ raw.v \in {"on", "off"}

(* A quoted boolean heals where a boolean is valid; a colour is trimmed.    *)
healed(field, raw) ==
    IF \/ raw.form = "quoted" /\ validFieldValue(field, Plain(raw.v))
       \/ isColor(raw)
    THEN Plain(raw.v) ELSE raw

(* The keys the engine holds as a plain object's own.                       *)
storeUnknown(keys) == keys \ {"__proto__"}
unknownTooLarge(unknown) == \E k \in DOMAIN unknown : unknown[k].form = "huge"

Error(previous) == [value |-> previous, error |-> TRUE]
Read(value) == [value |-> value, error |-> FALSE]

(* Every spelling of a field is validated; the canonical one wins over the  *)
(* alias, whatever their order.                                             *)
reloadOverrides(previous, text) ==
    LET keys == text.keys
        foreign == storeUnknown(DOMAIN keys \ FieldNames)
        spellings(field) == {CONFIG_FIELDS[field], field} \cap DOMAIN keys
        named == {field \in DOMAIN CONFIG_FIELDS : spellings(field) # {}}
        wins(field) ==
            IF CONFIG_FIELDS[field] \in DOMAIN keys THEN CONFIG_FIELDS[field] ELSE field
        valid ==
            \A field \in named : \A k \in spellings(field) :
                validFieldValue(field, healed(field, keys[k]))
    IN  IF parseObject(text) /\ valid /\ ~unknownTooLarge(Restrict(keys, foreign))
        THEN Read([n \in named \cup foreign |->
                     IF n \in named THEN healed(n, keys[wins(n)]) ELSE keys[n]])
        ELSE Error(previous)

parsePoint(raw) == raw.form = "plain" /\ raw.v \in Points \cup {"none"}

(* A snapshot that does not read is absent, never an error.                 *)
parseThemeSnapshot(raw) ==
    IF raw.form = "plain" /\ raw.v \in Themes \ Uncarried THEN raw ELSE None

reloadState(previous, text) ==
    LET keys == text.keys
        unknown == Restrict(keys, storeUnknown(DOMAIN keys \ STATE_FILE_KEYS))
        value(key) == IF key \in DOMAIN keys THEN keys[key] ELSE None
    IN  IF parseObject(text) /\ ~unknownTooLarge(unknown) /\ parsePoint(value("center"))
        THEN Read([center |-> value("center"),
                   themeSnapshot |-> parseThemeSnapshot(value("theme_snapshot")),
                   unknown |-> unknown])
        ELSE Error(previous)

overrideApplies(overrides, name, following) ==
    name \in DOMAIN overrides /\ ~(following /\ name \in APPEARANCE_FIELDS)

resetOffered(overrides, name, following) ==
    /\ overrideApplies(overrides, name, following)
    /\ \/ name \in APPEARANCE_FIELDS
       \/ overrides[name] # maintainerDefaults[name]

With(f, name, value) ==
    [n \in DOMAIN f \cup {name} |-> IF n = name THEN value ELSE f[n]]

(* An appearance field set while following turns following off with it.     *)
withOverride(overrides, name, value, following) ==
    LET next == With(overrides, name, value)
    IN  IF following /\ name \in APPEARANCE_FIELDS
        THEN With(next, "followTheme", Plain("off")) ELSE next

(* The settings in force, without a theme: what applyEffectiveSettings asks.*)
merge(overrides) ==
    LET stored(name) ==
            IF name \in DOMAIN overrides THEN overrides[name] ELSE maintainerDefaults[name]
        follows == stored("followTheme") = Plain("on")
    IN  [name \in DOMAIN CONFIG_FIELDS |->
            IF overrideApplies(overrides, name, follows)
            THEN overrides[name] ELSE maintainerDefaults[name]]

serializeOverrides(overrides) ==
    LET spelled(n) == IF n \in DOMAIN CONFIG_FIELDS THEN CONFIG_FIELDS[n] ELSE n
    IN  Json([k \in {spelled(n) : n \in DOMAIN overrides} |->
                overrides[CHOOSE n \in DOMAIN overrides : spelled(n) = k]])

(* Unknown keys never shadow a known one; the snapshot is there only while  *)
(* a theme is held.                                                         *)
serializeState(state) ==
    LET snapshot == parseThemeSnapshot(state.themeSnapshot)
        own == IF snapshot = None THEN {"center"} ELSE STATE_FILE_KEYS
    IN  Json([k \in own \cup storeUnknown(DOMAIN state.unknown) |->
                CASE k = "center" -> state.center
                  [] k = "theme_snapshot" /\ k \in own -> snapshot
                  [] OTHER -> state.unknown[k]])

(* The theme held in memory in its file form, and back.                     *)
serializeThemeSnapshot(held) == IF held \in Uncarried THEN None ELSE Plain(held)
heldThemeFrom(saved) == saved.v

(* Mutant: the shipped `follow` is taken for the user's word.               *)
holdStepEarly(facts) ==
    CASE facts.follow ->
            IF facts.held \/ facts.saved THEN "release" ELSE "keep"
      [] ~facts.follow ->
            IF ~facts.stateKnown THEN "keep"
            ELSE IF facts.held THEN IF facts.saved THEN "keep" ELSE "persist"
            ELSE IF facts.saved THEN "restore"
            ELSE IF facts.opened \/ facts.stopped THEN "freeze" ELSE "keep"

themeHoldStep(facts) ==
    CASE ~facts.settingsKnown -> "keep"
      [] facts.settingsKnown /\ facts.follow ->
            IF facts.held \/ facts.saved THEN "release" ELSE "keep"
      [] facts.settingsKnown /\ ~facts.follow ->
            IF ~facts.stateKnown THEN "keep"
            ELSE IF facts.held THEN IF facts.saved THEN "keep" ELSE "persist"
            ELSE IF facts.saved THEN "restore"
            ELSE IF facts.opened \/ facts.stopped THEN "freeze" ELSE "keep"

(* The head of the queue whose file is healthy; the others are dropped.     *)
NoWrite == [path |-> "none", text |-> Missing, retried |-> FALSE]
(* Mutant: a write that waited runs whatever became of its file.            *)
nextWriteAnyhow(queue, unhealthy) ==
    IF queue = <<>> THEN [next |-> NoWrite, queue |-> <<>>]
    ELSE [next |-> Head(queue), queue |-> Tail(queue)]
nextPrivateWrite(queue, unhealthy) ==
    LET healthy == {i \in DOMAIN queue : queue[i].path \notin unhealthy}
        first == CHOOSE i \in healthy : \A j \in healthy : i <= j
    IN  IF healthy = {} THEN [next |-> NoWrite, queue |-> <<>>]
        ELSE [next |-> queue[first], queue |-> SubSeq(queue, first + 1, Len(queue))]
=============================================================================
