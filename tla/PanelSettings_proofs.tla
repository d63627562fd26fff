------------------------- MODULE PanelSettings_proofs -------------------------
(***************************************************************************)
(* What holds of the panel's two files for any texts a user leaves in them,*)
(* any settings they pick, and any number of changes, failed saves, edits, *)
(* and restarts: what the panel writes reads back as what it holds; once   *)
(* nothing is on its way a file reads as what the panel holds; a file that *)
(* does not parse is not written over; a held theme stays held.            *)
(***************************************************************************)
EXTENDS PanelSettings, SequenceTheorems, WellFoundedInduction, TLAPS

(* The overrides of a panel: canonical names, values their fields take, and the keys
   of a newer version, none beyond the cap. *)
HealthyOverrides(m) ==
    /\ IsKeys(m) /\ DOMAIN m \cap {"follow_theme", "accent_color", "__proto__"} = {}
    /\ \A n \in DOMAIN m \cap DOMAIN CONFIG_FIELDS :
          m[n] = Plain(m[n].v) /\ validFieldValue(n, m[n])
    /\ \A n \in DOMAIN m : m[n].form # "huge"

(* What a panel holds of state.json. *)
HealthyState(g) ==
    /\ g = [center |-> g.center, themeSnapshot |-> g.themeSnapshot, unknown |-> g.unknown]
    /\ IsValue(g.center) /\ parsePoint(g.center)
    /\ g.themeSnapshot \in {None} \cup {Plain(t) : t \in Themes \ Uncarried}
    /\ IsKeys(g.unknown) /\ ~unknownTooLarge(g.unknown)
    /\ DOMAIN g.unknown \cap (STATE_FILE_KEYS \cup {"__proto__"}) = {}

(* The three fields and their spellings. *)
LEMMA FieldsAre ==
    /\ DOMAIN CONFIG_FIELDS = {"followTheme", "accentColor", "sound"}
    /\ FieldNames = {"followTheme", "accentColor", "sound", "follow_theme", "accent_color"}
    /\ CONFIG_FIELDS["followTheme"] = "follow_theme"
    /\ CONFIG_FIELDS["accentColor"] = "accent_color" /\ CONFIG_FIELDS["sound"] = "sound"
<1>1. DOMAIN CONFIG_FIELDS = {"followTheme", "accentColor", "sound"}
  BY DEF CONFIG_FIELDS
<1>2. /\ CONFIG_FIELDS["followTheme"] = "follow_theme"
      /\ CONFIG_FIELDS["accentColor"] = "accent_color" /\ CONFIG_FIELDS["sound"] = "sound"
  BY DEF CONFIG_FIELDS
<1>3. Range(CONFIG_FIELDS) = {"follow_theme", "accent_color", "sound"}
  BY <1>1, <1>2 DEF Range
<1> QED BY <1>1, <1>2, <1>3 DEF FieldNames

(* What serializeOverrides writes, reloadOverrides reads back: nothing the panel holds
   is lost, healed, renamed or refused on its way over the disk. *)
LEMMA OverridesReadBack ==
    ASSUME NEW m, HealthyOverrides(m)
    PROVE  /\ Parsed("config", serializeOverrides(m)) = Read(m)
           /\ IsText(serializeOverrides(m))
<1> DEFINE text == serializeOverrides(m)
           keys == text.keys
           spelled(n) == IF n \in DOMAIN CONFIG_FIELDS THEN CONFIG_FIELDS[n] ELSE n
<1>1. text = Json([k \in {spelled(n) : n \in DOMAIN m} |->
                     m[CHOOSE n \in DOMAIN m : spelled(n) = k]])
  BY DEF serializeOverrides
<1>2. /\ text.kind = "json"
      /\ keys = [k \in {spelled(n) : n \in DOMAIN m} |->
                     m[CHOOSE n \in DOMAIN m : spelled(n) = k]]
      /\ text = [kind |-> text.kind, keys |-> keys]
  BY <1>1 DEF Json
<1>3. /\ IsKeys(m) /\ DOMAIN m \cap {"follow_theme", "accent_color", "__proto__"} = {}
      /\ \A n \in DOMAIN m \cap DOMAIN CONFIG_FIELDS :
            m[n] = Plain(m[n].v) /\ validFieldValue(n, m[n])
      /\ \A n \in DOMAIN m : m[n].form # "huge"
  BY DEF HealthyOverrides
<1>4. ASSUME NEW n \in DOMAIN m, NEW o \in DOMAIN m, spelled(n) = spelled(o) PROVE n = o
  BY <1>3, <1>4, FieldsAre
<1>5. DOMAIN keys = {spelled(n) : n \in DOMAIN m}
  BY <1>2
<1>6. \A n \in DOMAIN m : keys[spelled(n)] = m[n]
  <2>1. TAKE n \in DOMAIN m
  <2>2. (CHOOSE o \in DOMAIN m : spelled(o) = spelled(n)) = n
    BY <1>4
  <2> QED BY <1>2, <2>2
<1> HIDE DEF text, keys
<1>7. \A f \in DOMAIN CONFIG_FIELDS : CONFIG_FIELDS[f] \in DOMAIN keys <=> f \in DOMAIN m
  BY <1>3, <1>5, FieldsAre
<1>8. \A f \in DOMAIN CONFIG_FIELDS : f \in DOMAIN keys => f = "sound" /\ f \in DOMAIN m
  BY <1>3, <1>5, FieldsAre
<1>9. \A f \in DOMAIN CONFIG_FIELDS \cap DOMAIN m : keys[CONFIG_FIELDS[f]] = m[f]
  BY <1>6
<1> DEFINE foreign == storeUnknown(DOMAIN keys \ FieldNames)
           spellings(field) == {CONFIG_FIELDS[field], field} \cap DOMAIN keys
           named == {field \in DOMAIN CONFIG_FIELDS : spellings(field) # {}}
           wins(field) ==
              IF CONFIG_FIELDS[field] \in DOMAIN keys THEN CONFIG_FIELDS[field] ELSE field
<1>10. named = DOMAIN m \cap DOMAIN CONFIG_FIELDS
  BY <1>7, <1>8
<1>11. foreign = DOMAIN m \ DOMAIN CONFIG_FIELDS
  BY <1>3, <1>5, FieldsAre DEF storeUnknown
<1>12. \A n \in foreign : n \in DOMAIN keys /\ keys[n] = m[n]
  BY <1>5, <1>6, <1>11
<1>13. \A f \in named : healed(f, m[f]) = m[f]
  BY <1>3, <1>10 DEF healed, Plain
<1>14. \A f \in named : wins(f) = CONFIG_FIELDS[f]
  BY <1>7, <1>10
<1>15. \A f \in named : \A k \in spellings(f) : k = CONFIG_FIELDS[f]
  BY <1>8, FieldsAre
<1>16. \A f \in named : \A k \in spellings(f) : validFieldValue(f, healed(f, keys[k]))
  BY <1>3, <1>9, <1>10, <1>13, <1>15
<1>17. ~unknownTooLarge(Restrict(keys, foreign))
  BY <1>3, <1>11, <1>12 DEF unknownTooLarge, Restrict
<1>18. [n \in named \cup foreign |-> IF n \in named THEN healed(n, keys[wins(n)]) ELSE keys[n]]
         = m
  <2>1. m = [n \in DOMAIN m |-> m[n]]
    BY <1>3 DEF IsKeys
  <2>2. named \cup foreign = DOMAIN m
    BY <1>10, <1>11
  <2>3. ASSUME NEW n \in DOMAIN m
        PROVE  (IF n \in named THEN healed(n, keys[wins(n)]) ELSE keys[n]) = m[n]
    <3>1. CASE n \in named
      BY <3>1, <1>9, <1>10, <1>13, <1>14
    <3>2. CASE n \notin named
      BY <3>2, <2>2, <1>12
    <3> QED BY <3>1, <3>2
  <2> HIDE DEF named, foreign, wins
  <2> QED BY <2>1, <2>2, <2>3
<1>19. parseObject(text) /\ text.kind # "missing"
  BY <1>2 DEF parseObject
<1>20. reloadOverrides(NoKeys, text) = Read(m)
  BY <1>16, <1>17, <1>18, <1>19 DEF reloadOverrides, keys
<1>21. Parsed("config", text) = Read(m)
  BY <1>19, <1>20 DEF Parsed
<1>22. IsText(text)
  <2>1. \A k \in DOMAIN keys : \E n \in DOMAIN m : keys[k] = m[n]
    BY <1>5, <1>6
  <2>2. \A k \in DOMAIN keys : IsValue(keys[k])
    BY <2>1, <1>3 DEF IsKeys
  <2>3. keys = [k \in DOMAIN keys |-> keys[k]]
    BY <1>2
  <2> QED BY <2>2, <2>3, <1>2 DEF IsText, IsKeys, keys
<1> QED BY <1>21, <1>22 DEF text

LEMMA KeysRestricted ==
    ASSUME NEW keys, IsKeys(keys), NEW S \in SUBSET DOMAIN keys
    PROVE  IsKeys(Restrict(keys, S))
<1>1. DOMAIN Restrict(keys, S) = S /\ \A k \in S : Restrict(keys, S)[k] = keys[k]
  BY DEF Restrict
<1>2. \A k \in S : IsValue(Restrict(keys, S)[k])
  BY <1>1 DEF IsKeys
<1>3. Restrict(keys, S) = [k \in S |-> Restrict(keys, S)[k]]
  BY <1>1 DEF Restrict
<1> HIDE DEF Restrict
<1> QED BY <1>1, <1>2, <1>3 DEF IsKeys

(* Whatever is in config.json, reading it gives healthy overrides or leaves the
   panel's own, and which of the two does not depend on them. *)
LEMMA OverridesAsRead ==
    ASSUME NEW text, IsText(text), NEW previous
    PROVE  \/ reloadOverrides(previous, text) = Error(previous)
              /\ reloadOverrides(NoKeys, text) = Error(NoKeys)
           \/ \E m : /\ HealthyOverrides(m)
                     /\ reloadOverrides(previous, text) = Read(m)
                     /\ reloadOverrides(NoKeys, text) = Read(m)
<1> DEFINE keys == text.keys
           foreign == storeUnknown(DOMAIN keys \ FieldNames)
           spellings(field) == {CONFIG_FIELDS[field], field} \cap DOMAIN keys
           named == {field \in DOMAIN CONFIG_FIELDS : spellings(field) # {}}
           wins(field) ==
              IF CONFIG_FIELDS[field] \in DOMAIN keys THEN CONFIG_FIELDS[field] ELSE field
           valid == \A field \in named : \A k \in spellings(field) :
                       validFieldValue(field, healed(field, keys[k]))
           good == parseObject(text) /\ valid /\ ~unknownTooLarge(Restrict(keys, foreign))
           m == [n \in named \cup foreign |->
                   IF n \in named THEN healed(n, keys[wins(n)]) ELSE keys[n]]
<1>1. \A before : reloadOverrides(before, text) = IF good THEN Read(m) ELSE Error(before)
  BY DEF reloadOverrides
<1>2. CASE ~good
  BY <1>1, <1>2
<1>3. CASE good
  <2>1. IsKeys(keys)
    BY DEF IsText
  <2>2. \A n \in named : n \in DOMAIN CONFIG_FIELDS /\ wins(n) \in spellings(n)
    OBVIOUS
  <2>3. \A n \in foreign : n \in DOMAIN keys /\ n \notin FieldNames /\ n # "__proto__"
    BY DEF storeUnknown
  <2>4. \A n \in named : IsValue(keys[wins(n)]) /\ validFieldValue(n, healed(n, keys[wins(n)]))
    BY <1>3, <2>1, <2>2 DEF IsKeys
  <2>5. \A n \in foreign : keys[n].form # "huge"
    BY <1>3 DEF unknownTooLarge, Restrict
  <2>6. DOMAIN m = named \cup foreign
    OBVIOUS
  <2>7. \A n \in named : m[n] = healed(n, keys[wins(n)])
    OBVIOUS
  <2>8. \A n \in foreign : m[n] = keys[n]
    <3>1. \A n \in foreign : n \notin named
      BY <2>2, <2>3, FieldsAre
    <3> QED BY <3>1
  <2> HIDE DEF named, foreign, m, wins, spellings, valid, good
  <2>9. ASSUME NEW f \in named
        PROVE  m[f] = Plain(m[f].v) /\ validFieldValue(f, m[f])
    <3> DEFINE raw == keys[wins(f)]
    <3>1. IsValue(raw) /\ validFieldValue(f, healed(f, raw)) /\ m[f] = healed(f, raw)
      BY <2>4, <2>7
    <3> HIDE DEF raw
    <3>2. CASE (raw.form = "quoted" /\ validFieldValue(f, Plain(raw.v))) \/ isColor(raw)
      <4>1. m[f] = Plain(raw.v)
        BY <3>1, <3>2 DEF healed
      <4> QED BY <4>1, <3>1 DEF Plain
    <3>3. CASE ~((raw.form = "quoted" /\ validFieldValue(f, Plain(raw.v))) \/ isColor(raw))
      <4>1. m[f] = raw
        BY <3>1, <3>3 DEF healed
      <4>2. raw.form = "plain"
        BY <4>1, <3>1, <3>3 DEF validFieldValue
      <4>3. raw = [form |-> raw.form, v |-> raw.v]
        BY <3>1 DEF IsValue
      <4> QED BY <4>1, <4>2, <4>3, <3>1 DEF Plain
    <3> QED BY <3>2, <3>3
  <2>10. \A n \in DOMAIN m : IsValue(m[n]) /\ m[n].form # "huge"
    <3>1. ASSUME NEW n \in named PROVE IsValue(m[n]) /\ m[n].form # "huge"
      <4>1. PICK v : m[n] = Plain(v)
        BY <2>9
      <4> QED BY <4>1 DEF Plain, IsValue
    <3>2. \A n \in foreign : IsValue(m[n]) /\ m[n].form # "huge"
      BY <2>1, <2>3, <2>5, <2>8 DEF IsKeys
    <3> QED BY <3>1, <3>2, <2>6
  <2>11. DOMAIN m \cap {"follow_theme", "accent_color", "__proto__"} = {}
    BY <2>2, <2>3, <2>6, FieldsAre
  <2>12. DOMAIN m \cap DOMAIN CONFIG_FIELDS \subseteq named
    BY <2>3, <2>6, FieldsAre
  <2>13. m = [n \in DOMAIN m |-> m[n]]
    BY DEF m
  <2>14. HealthyOverrides(m)
    BY <2>9, <2>10, <2>11, <2>12, <2>13 DEF HealthyOverrides, IsKeys
  <2> QED BY <1>1, <1>3, <2>14
<1> QED BY <1>2, <1>3

(* What serializeState writes, reloadState reads back. *)
LEMMA StateReadsBack ==
    ASSUME NEW g, HealthyState(g)
    PROVE  /\ Parsed("state", serializeState(g)) = Read(g)
           /\ IsText(serializeState(g))
<1> DEFINE text == serializeState(g)
           keys == text.keys
           snapshot == parseThemeSnapshot(g.themeSnapshot)
           own == IF snapshot = None THEN {"center"} ELSE STATE_FILE_KEYS
<1>1. text = Json([k \in own \cup storeUnknown(DOMAIN g.unknown) |->
                CASE k = "center" -> g.center
                  [] k = "theme_snapshot" /\ k \in own -> snapshot
                  [] OTHER -> g.unknown[k]])
  BY DEF serializeState
<1>2. /\ g = [center |-> g.center, themeSnapshot |-> g.themeSnapshot, unknown |-> g.unknown]
      /\ IsValue(g.center) /\ parsePoint(g.center)
      /\ g.themeSnapshot \in {None} \cup {Plain(t) : t \in Themes \ Uncarried}
      /\ IsKeys(g.unknown) /\ ~unknownTooLarge(g.unknown)
      /\ DOMAIN g.unknown \cap (STATE_FILE_KEYS \cup {"__proto__"}) = {}
  BY DEF HealthyState
<1>3. snapshot = g.themeSnapshot /\ IsValue(snapshot)
  BY <1>2, ThemesAssumption DEF parseThemeSnapshot, Plain, None, IsValue
<1>4. storeUnknown(DOMAIN g.unknown) = DOMAIN g.unknown
  BY <1>2 DEF storeUnknown
<1>5. own \subseteq STATE_FILE_KEYS /\ "center" \in own
      /\ ("theme_snapshot" \in own <=> snapshot # None)
  BY DEF STATE_FILE_KEYS
<1>6. /\ text.kind = "json" /\ text = [kind |-> text.kind, keys |-> keys]
      /\ keys = [k \in own \cup DOMAIN g.unknown |->
                CASE k = "center" -> g.center
                  [] k = "theme_snapshot" /\ k \in own -> snapshot
                  [] OTHER -> g.unknown[k]]
  BY <1>1, <1>4 DEF Json
<1> HIDE DEF text, keys, own, snapshot
<1>7. DOMAIN keys = own \cup DOMAIN g.unknown
  BY <1>6
<1>8. keys["center"] = g.center
  BY <1>5, <1>6
<1>9. "theme_snapshot" \in own => keys["theme_snapshot"] = snapshot
  BY <1>6
<1>10. \A k \in DOMAIN g.unknown : keys[k] = g.unknown[k]
  BY <1>2, <1>6 DEF STATE_FILE_KEYS
<1>11. "theme_snapshot" \in DOMAIN keys <=> snapshot # None
  BY <1>2, <1>5, <1>7 DEF STATE_FILE_KEYS
<1> DEFINE unknown == Restrict(keys, storeUnknown(DOMAIN keys \ STATE_FILE_KEYS))
           value(key) == IF key \in DOMAIN keys THEN keys[key] ELSE None
<1>12. storeUnknown(DOMAIN keys \ STATE_FILE_KEYS) = DOMAIN g.unknown
  BY <1>2, <1>5, <1>7 DEF storeUnknown
<1>13. unknown = g.unknown
  <2>1. unknown = [k \in DOMAIN g.unknown |-> g.unknown[k]]
    BY <1>10, <1>12 DEF Restrict
  <2>2. g.unknown = [k \in DOMAIN g.unknown |-> g.unknown[k]]
    BY <1>2 DEF IsKeys
  <2> QED BY <2>1, <2>2
<1>14. value("center") = g.center
  BY <1>5, <1>7, <1>8
<1>15. parseThemeSnapshot(value("theme_snapshot")) = g.themeSnapshot
  <2>1. parseThemeSnapshot(None) = None
    BY DEF parseThemeSnapshot
  <2>2. parseThemeSnapshot(snapshot) = snapshot
    BY <1>3 DEF snapshot
  <2> QED BY <2>1, <2>2, <1>3, <1>5, <1>9, <1>11
<1>16. parseObject(text) /\ text.kind # "missing"
  BY <1>6 DEF parseObject
<1>17. reloadState(stateDefaults, text)
         = Read([center |-> value("center"),
                 themeSnapshot |-> parseThemeSnapshot(value("theme_snapshot")),
                 unknown |-> unknown])
  BY <1>2, <1>13, <1>14, <1>16 DEF reloadState, keys
<1>18. reloadState(stateDefaults, text) = Read(g)
  BY <1>2, <1>13, <1>14, <1>15, <1>17
<1>19. IsText(text)
  <2>1. ASSUME NEW k \in DOMAIN keys PROVE IsValue(keys[k])
    BY <1>2, <1>3, <1>5, <1>7, <1>8, <1>9, <1>10 DEF IsKeys, STATE_FILE_KEYS
  <2>2. keys = [k \in DOMAIN keys |-> keys[k]]
    BY <1>6
  <2> QED BY <2>1, <2>2, <1>6 DEF IsText, IsKeys, keys
<1> QED BY <1>16, <1>18, <1>19 DEF Parsed, text

(* Whatever is in state.json, reading it gives a healthy state or leaves the panel's
   own, and which of the two does not depend on it. *)
LEMMA StateAsRead ==
    ASSUME NEW text, IsText(text), NEW previous
    PROVE  \/ reloadState(previous, text) = Error(previous)
              /\ reloadState(stateDefaults, text) = Error(stateDefaults)
           \/ \E g : /\ HealthyState(g)
                     /\ reloadState(previous, text) = Read(g)
                     /\ reloadState(stateDefaults, text) = Read(g)
<1> DEFINE keys == text.keys
           unknown == Restrict(keys, storeUnknown(DOMAIN keys \ STATE_FILE_KEYS))
           value(key) == IF key \in DOMAIN keys THEN keys[key] ELSE None
           good == parseObject(text) /\ ~unknownTooLarge(unknown) /\ parsePoint(value("center"))
           g == [center |-> value("center"),
                 themeSnapshot |-> parseThemeSnapshot(value("theme_snapshot")),
                 unknown |-> unknown]
<1>1. \A before : reloadState(before, text) = IF good THEN Read(g) ELSE Error(before)
  BY DEF reloadState
<1>2. CASE ~good
  BY <1>1, <1>2
<1>3. CASE good
  <2>1. IsKeys(keys)
    BY DEF IsText
  <2>2. /\ DOMAIN unknown = storeUnknown(DOMAIN keys \ STATE_FILE_KEYS)
        /\ \A k \in DOMAIN unknown : k \in DOMAIN keys /\ unknown[k] = keys[k]
        /\ unknown = [k \in DOMAIN unknown |-> unknown[k]]
    BY DEF Restrict, storeUnknown
  <2>3. g.center = value("center") /\ g.unknown = unknown
        /\ g.themeSnapshot = parseThemeSnapshot(value("theme_snapshot"))
        /\ g = [center |-> g.center, themeSnapshot |-> g.themeSnapshot, unknown |-> g.unknown]
    OBVIOUS
  <2>4. \A key : IsValue(value(key))
    BY <2>1 DEF IsKeys, IsValue, None, Plain
  <2> HIDE DEF unknown, g
  <2>5. ASSUME NEW raw, IsValue(raw)
        PROVE  parseThemeSnapshot(raw) \in {None} \cup {Plain(t) : t \in Themes \ Uncarried}
    <3>1. CASE raw.form = "plain" /\ raw.v \in Themes \ Uncarried
      <4>1. raw = Plain(raw.v)
        BY <2>5, <3>1 DEF IsValue, Plain
      <4> QED BY <4>1, <3>1 DEF parseThemeSnapshot
    <3>2. CASE ~(raw.form = "plain" /\ raw.v \in Themes \ Uncarried)
      BY <3>2 DEF parseThemeSnapshot
    <3> QED BY <3>1, <3>2
  <2>6. IsKeys(unknown)
    <3>1. storeUnknown(DOMAIN keys \ STATE_FILE_KEYS) \in SUBSET DOMAIN keys
      BY DEF storeUnknown
    <3> HIDE DEF keys
    <3> QED BY <2>1, <3>1, KeysRestricted DEF unknown
  <2>7. DOMAIN unknown \cap (STATE_FILE_KEYS \cup {"__proto__"}) = {}
    BY <2>2 DEF storeUnknown
  <2>8. ~unknownTooLarge(unknown) /\ parsePoint(value("center"))
    BY <1>3
  <2> HIDE DEF value
  <2>9. HealthyState(g)
    BY <2>3, <2>4, <2>5, <2>6, <2>7, <2>8 DEF HealthyState
  <2> QED BY <1>1, <1>3, <2>9 DEF g
<1> QED BY <1>2, <1>3

-----------------------------------------------------------------------------
(* The panel: saves, the held theme, and what a load makes of it. *)

(* A panel as every step leaves it. *)
HealthyPanel(p) ==
    /\ p = [overrides |-> p.overrides, geometry |-> p.geometry, error |-> p.error,
            settingsKnown |-> p.settingsKnown, stateKnown |-> p.stateKnown,
            followTheme |-> p.followTheme, held |-> p.held, opened |-> p.opened,
            making |-> p.making]
    /\ HealthyOverrides(p.overrides) /\ HealthyState(p.geometry)
    /\ p.error \in [Paths -> BOOLEAN] /\ p.making \in [Paths -> BOOLEAN]
    /\ p.settingsKnown \in BOOLEAN /\ p.stateKnown \in BOOLEAN
    /\ p.followTheme \in BOOLEAN /\ p.opened \in BOOLEAN
    /\ p.held \in Themes \cup {"none"}

(* A step of the panel that changes what it holds of a healthy file asks for its save,
   and takes no save back. *)
Carries(p, q, path) ==
    /\ p.making[path] => q.making[path]
    /\ q.making[path] => p.making[path] \/ ~p.error[path]
    /\ ~q.making[path] /\ ~p.error[path] => Memory(q, path) = Memory(p, path)

(* A theme held with following off has its snapshot, where it has a file form: what
   themeHoldStep's "persist" is for. *)
HeldIsSaved(p) ==
    p.held # "none" /\ p.settingsKnown /\ p.stateKnown /\ ~p.followTheme
        /\ p.held \notin Uncarried
        => p.geometry.themeSnapshot # None

SameButTheState(p, q) ==
    /\ q.overrides = p.overrides /\ q.error = p.error
    /\ q.making["config"] = p.making["config"]
    /\ q.settingsKnown = p.settingsKnown /\ q.stateKnown = p.stateKnown
    /\ q.followTheme = p.followTheme /\ q.opened = p.opened
    /\ Carries(p, q, "state")

SaveAsked(p, q, path) ==
    /\ q.overrides = p.overrides /\ q.geometry = p.geometry /\ q.error = p.error
    /\ q.settingsKnown = p.settingsKnown /\ q.stateKnown = p.stateKnown
    /\ q.followTheme = p.followTheme /\ q.opened = p.opened /\ q.held = p.held
    /\ \A other \in Paths \ {path} : q.making[other] = p.making[other]
    /\ q.making[path] = (p.making[path] \/ ~p.error[path])

(* saveOverrides and saveState. *)
LEMMA SavingKeeps ==
    ASSUME NEW p, HealthyPanel(p), NEW path \in Paths, NEW q, q = Save(p, path)
    PROVE  HealthyPanel(q) /\ SaveAsked(p, q, path)
<1>1. CASE p.error[path]
  <2>1. q = p
    BY <1>1 DEF Save
  <2>2. p.making[path] \in BOOLEAN
    BY DEF HealthyPanel
  <2> QED BY <1>1, <2>1, <2>2 DEF SaveAsked
<1>2. CASE ~p.error[path]
  <2>1. q = [p EXCEPT !.making[path] = TRUE]
    BY <1>2 DEF Save
  <2>2. q = [overrides |-> p.overrides, geometry |-> p.geometry, error |-> p.error,
            settingsKnown |-> p.settingsKnown, stateKnown |-> p.stateKnown,
            followTheme |-> p.followTheme, held |-> p.held, opened |-> p.opened,
            making |-> [p.making EXCEPT ![path] = TRUE]]
    BY <2>1 DEF HealthyPanel
  <2>3. p.making \in [Paths -> BOOLEAN]
    BY DEF HealthyPanel
  <2>4. q.making \in [Paths -> BOOLEAN] /\ q.making[path] = TRUE
        /\ \A other \in Paths \ {path} : q.making[other] = p.making[other]
    BY <2>2, <2>3
  <2>5. /\ q.overrides = p.overrides /\ q.geometry = p.geometry /\ q.error = p.error
        /\ q.settingsKnown = p.settingsKnown /\ q.stateKnown = p.stateKnown
        /\ q.followTheme = p.followTheme /\ q.opened = p.opened /\ q.held = p.held
        /\ q.making = [p.making EXCEPT ![path] = TRUE]
    BY <2>2
  <2>6. HealthyPanel(q)
    BY <2>2, <2>4, <2>5 DEF HealthyPanel
  <2> QED BY <1>2, <2>4, <2>5, <2>6 DEF SaveAsked
<1> QED BY <1>1, <1>2

Snapshots == {None} \cup {Plain(t) : t \in Themes \ Uncarried}

(* storeThemeSnapshot. *)
LEMMA StoringKeeps ==
    ASSUME NEW p, HealthyPanel(p), NEW snapshot \in Snapshots,
           NEW q, q = storeThemeSnapshot(p, snapshot)
    PROVE  /\ HealthyPanel(q) /\ SameButTheState(p, q) /\ q.held = p.held
           /\ q.geometry.themeSnapshot = snapshot
<1> DEFINE g == [p.geometry EXCEPT !.themeSnapshot = snapshot]
           r == [p EXCEPT !.geometry.themeSnapshot = snapshot]
<1>1. /\ p.geometry = [center |-> p.geometry.center,
                       themeSnapshot |-> p.geometry.themeSnapshot,
                       unknown |-> p.geometry.unknown]
      /\ HealthyState(p.geometry)
  BY DEF HealthyPanel, HealthyState
<1>2. g = [center |-> p.geometry.center, themeSnapshot |-> snapshot,
           unknown |-> p.geometry.unknown]
  BY <1>1
<1>3. HealthyState(g) /\ g.themeSnapshot = snapshot
  BY <1>1, <1>2 DEF HealthyState, Snapshots
<1>4. r = [overrides |-> p.overrides, geometry |-> g, error |-> p.error,
            settingsKnown |-> p.settingsKnown, stateKnown |-> p.stateKnown,
            followTheme |-> p.followTheme, held |-> p.held, opened |-> p.opened,
            making |-> p.making]
  BY DEF HealthyPanel
<1>5. q = Save(r, "state")
  BY DEF storeThemeSnapshot, saveState
<1> HIDE DEF g, r
<1>6. HealthyPanel(r)
  BY <1>3, <1>4 DEF HealthyPanel
<1>7. /\ HealthyPanel(q)
      /\ q.overrides = r.overrides /\ q.geometry = r.geometry /\ q.error = r.error
      /\ q.settingsKnown = r.settingsKnown /\ q.stateKnown = r.stateKnown
      /\ q.followTheme = r.followTheme /\ q.opened = r.opened /\ q.held = r.held
      /\ \A other \in Paths \ {"state"} : q.making[other] = r.making[other]
      /\ q.making["state"] = (r.making["state"] \/ ~r.error["state"])
  <2>1. "state" \in Paths
    BY DEF Paths
  <2>2. HealthyPanel(q) /\ SaveAsked(r, q, "state")
    BY <1>5, <1>6, <2>1, SavingKeeps
  <2> QED BY <2>2 DEF SaveAsked
<1>8. /\ r.overrides = p.overrides /\ r.geometry = g /\ r.error = p.error
      /\ r.settingsKnown = p.settingsKnown /\ r.stateKnown = p.stateKnown
      /\ r.followTheme = p.followTheme /\ r.opened = p.opened /\ r.held = p.held
      /\ r.making = p.making
  BY <1>4
<1>9. Carries(p, q, "state")
  BY <1>7, <1>8 DEF Carries
<1>10. q.making["config"] = p.making["config"]
  BY <1>7, <1>8 DEF Paths
<1> QED BY <1>3, <1>7, <1>8, <1>9, <1>10 DEF SameButTheState

(* themeHoldStep, as far as a proof asks. *)
LEMMA HoldSteps ==
    ASSUME NEW facts, NEW step, step = themeHoldStep(facts),
           facts.settingsKnown \in BOOLEAN, facts.follow \in BOOLEAN,
           facts.stateKnown \in BOOLEAN, facts.held \in BOOLEAN, facts.saved \in BOOLEAN
    PROVE  /\ step \in {"keep", "release", "persist", "restore", "freeze"}
           /\ ~facts.settingsKnown => step = "keep"
           /\ step = "release" => facts.settingsKnown /\ facts.follow
           /\ step = "release" => facts.held \/ facts.saved
           /\ step = "persist" => facts.held
           /\ step \in {"restore", "freeze"} => ~facts.held
           /\ facts.held /\ facts.settingsKnown /\ facts.stateKnown /\ ~facts.follow
                 => step = IF facts.saved THEN "keep" ELSE "persist"
           /\ step = "restore" => facts.saved
           /\ ~facts.held /\ facts.settingsKnown /\ facts.stateKnown /\ ~facts.follow /\ facts.saved
                 => step = "restore"
           /\ step \in {"restore", "freeze", "persist"} => facts.stateKnown
<1>1. CASE ~facts.settingsKnown
  BY <1>1 DEF themeHoldStep
<1>2. CASE facts.settingsKnown /\ facts.follow
  BY <1>2 DEF themeHoldStep
<1>3. CASE facts.settingsKnown /\ ~facts.follow
  BY <1>3 DEF themeHoldStep
<1> QED BY <1>1, <1>2, <1>3

(* A panel that knows nothing of its state yet. *)
Untouched(p) ==
    p.held = "none" /\ p.geometry.themeSnapshot = None /\ ~p.stateKnown

(* syncThemeHold: a held theme stays while following is off, a saved one is taken up
   by a panel that holds none, and what is held is saved. *)
LEMMA HoldingKeeps ==
    ASSUME theme \in Themes, NEW p, HealthyPanel(p), NEW stopped \in BOOLEAN,
           NEW q, q = syncThemeHold(p, stopped)
    PROVE  /\ HealthyPanel(q) /\ SameButTheState(p, q) /\ HeldIsSaved(q)
           /\ ~p.settingsKnown => q = p
           /\ Untouched(p) => q.making = p.making
           /\ p.held # "none" /\ ~p.followTheme => q.held = p.held
           /\ /\ p.held = "none" /\ p.settingsKnown /\ p.stateKnown /\ ~p.followTheme
              /\ p.geometry.themeSnapshot # None
              => q.held = p.geometry.themeSnapshot.v
           /\ q.held # "none" => p.held # "none" \/ p.stateKnown
<1> DEFINE saved == p.geometry.themeSnapshot
           facts == [settingsKnown |-> p.settingsKnown, follow |-> p.followTheme,
                     stopped |-> stopped, opened |-> p.opened, held |-> p.held # "none",
                     stateKnown |-> p.stateKnown, saved |-> saved # None]
           step == themeHoldStep(facts)
           kept == IF step = "freeze" THEN freeze(p) ELSE p
           file == serializeThemeSnapshot(kept.held)
<1>1. q = CASE step = "keep" -> p
            [] step = "restore" -> restore(p, saved)
            [] step = "release" ->
                  IF saved = None THEN release(p) ELSE storeThemeSnapshot(release(p), None)
            [] step \in {"freeze", "persist"} ->
                  IF file = None THEN kept ELSE storeThemeSnapshot(kept, file)
  BY DEF syncThemeHold
<1>2. /\ p.settingsKnown \in BOOLEAN /\ p.stateKnown \in BOOLEAN
      /\ p.followTheme \in BOOLEAN /\ p.held \in Themes \cup {"none"}
      /\ saved \in Snapshots
      /\ p = [overrides |-> p.overrides, geometry |-> p.geometry, error |-> p.error,
              settingsKnown |-> p.settingsKnown, stateKnown |-> p.stateKnown,
              followTheme |-> p.followTheme, held |-> p.held, opened |-> p.opened,
              making |-> p.making]
  BY DEF HealthyPanel, HealthyState, Snapshots
<1>3. /\ facts.settingsKnown = p.settingsKnown /\ facts.follow = p.followTheme
      /\ facts.held = (p.held # "none") /\ facts.stateKnown = p.stateKnown
      /\ facts.saved = (saved # None)
  OBVIOUS
<1> HIDE DEF facts
<1>4. /\ step \in {"keep", "release", "persist", "restore", "freeze"}
      /\ ~p.settingsKnown => step = "keep"
      /\ step = "release" => p.settingsKnown /\ p.followTheme
      /\ Untouched(p) => step = "keep"
      /\ step = "persist" => p.held # "none"
      /\ step \in {"restore", "freeze"} => p.held = "none"
      /\ p.held # "none" /\ p.settingsKnown /\ p.stateKnown /\ ~p.followTheme
            => step = IF saved # None THEN "keep" ELSE "persist"
      /\ step = "restore" => saved # None
      /\ p.held = "none" /\ p.settingsKnown /\ p.stateKnown /\ ~p.followTheme /\ saved # None
            => step = "restore"
      /\ step \in {"restore", "freeze", "persist"} => p.stateKnown
  BY <1>2, <1>3, HoldSteps DEF Untouched
<1> HIDE DEF step
<1>5. \A value \in Themes \cup {"none"} :
         LET r == [p EXCEPT !.held = value]
         IN  HealthyPanel(r) /\ SameButTheState(p, r) /\ r.held = value
             /\ r.geometry = p.geometry
  <2>1. TAKE value \in Themes \cup {"none"}
  <2> DEFINE r == [p EXCEPT !.held = value]
  <2>2. r = [overrides |-> p.overrides, geometry |-> p.geometry, error |-> p.error,
              settingsKnown |-> p.settingsKnown, stateKnown |-> p.stateKnown,
              followTheme |-> p.followTheme, held |-> value, opened |-> p.opened,
              making |-> p.making]
    BY <1>2
  <2> HIDE DEF r
  <2>3. HealthyPanel(r) /\ r.held = value /\ r.geometry = p.geometry
    BY <2>2 DEF HealthyPanel
  <2>4. SameButTheState(p, r)
    BY <2>2 DEF SameButTheState, Carries, Memory
  <2> QED BY <2>3, <2>4 DEF r
<1>6. \A r, s : SameButTheState(p, r) /\ SameButTheState(r, s) => SameButTheState(p, s)
  BY DEF SameButTheState, Carries
<1>7. CASE step = "keep"
  <2>1. q = p
    BY <1>1, <1>7
  <2>2. SameButTheState(p, q)
    BY <2>1 DEF SameButTheState, Carries
  <2>3. HeldIsSaved(q)
    BY <2>1, <1>2, <1>4, <1>7 DEF HeldIsSaved
  <2> QED BY <1>4, <1>7, <2>1, <2>2, <2>3
<1>8. CASE step = "restore"
  <2>1. PICK t \in Themes \ Uncarried : saved = Plain(t)
    BY <1>2, <1>4, <1>8 DEF Snapshots
  <2>2. q = [p EXCEPT !.held = saved.v] /\ saved.v = t
    BY <1>1, <1>4, <1>8, <2>1 DEF restore, heldThemeFrom, Plain
  <2>3. HealthyPanel(q) /\ SameButTheState(p, q) /\ q.held = saved.v /\ q.geometry = p.geometry
    BY <1>5, <2>2
  <2>4. HeldIsSaved(q)
    BY <2>3, <1>4, <1>8 DEF HeldIsSaved
  <2> QED BY <1>4, <1>8, <2>3, <2>4
<1>9. CASE step = "release"
  <2> DEFINE r == [p EXCEPT !.held = "none"]
  <2>1. HealthyPanel(r) /\ SameButTheState(p, r) /\ r.held = "none" /\ r.geometry = p.geometry
    BY <1>5
  <2>2. q = IF saved = None THEN r ELSE storeThemeSnapshot(r, None)
    BY <1>1, <1>9 DEF release
  <2> HIDE DEF r
  <2>3. HealthyPanel(q) /\ SameButTheState(p, q) /\ q.held = "none"
    <3>1. CASE saved = None
      BY <3>1, <2>1, <2>2
    <3>2. CASE saved # None
      <4>1. None \in Snapshots /\ q = storeThemeSnapshot(r, None)
        BY <3>2, <2>2 DEF Snapshots
      <4>2. HealthyPanel(q) /\ SameButTheState(r, q) /\ q.held = r.held
        BY <4>1, <2>1, StoringKeeps
      <4> QED BY <4>2, <2>1, <1>6
    <3> QED BY <3>1, <3>2
  <2>4. HeldIsSaved(q)
    BY <2>3 DEF HeldIsSaved
  <2> QED BY <1>4, <1>9, <2>3, <2>4
<1>10. CASE step \in {"freeze", "persist"}
  <2>1. /\ HealthyPanel(kept) /\ SameButTheState(p, kept)
        /\ kept.held \in Themes /\ (p.held # "none" => kept.held = p.held)
    <3>1. CASE step = "freeze"
      <4>1. kept = [p EXCEPT !.held = theme]
        BY <3>1, <1>4 DEF freeze
      <4> QED BY <4>1, <1>4, <1>5, <3>1
    <3>2. CASE step = "persist"
      <4>1. kept = p
        BY <3>2
      <4>2. SameButTheState(p, kept)
        BY <4>1 DEF SameButTheState, Carries
      <4> QED BY <4>1, <4>2, <1>2, <1>4, <3>2
    <3> QED BY <3>1, <3>2, <1>10
  <2>2. q = IF file = None THEN kept ELSE storeThemeSnapshot(kept, file)
    BY <1>1, <1>10
  <2> HIDE DEF kept
  <2>3. CASE file = None
    <3>1. kept.held \in Uncarried
      <4>1. kept.held # "none"
        BY <2>1, ThemesAssumption
      <4> QED BY <4>1, <2>3 DEF serializeThemeSnapshot, None, Plain
    <3>2. HeldIsSaved(kept)
      BY <3>1 DEF HeldIsSaved
    <3> QED BY <1>4, <1>10, <2>1, <2>2, <2>3, <3>2
  <2>4. CASE file # None
    <3>1. file \in Snapshots
      BY <2>1, <2>4 DEF serializeThemeSnapshot, Snapshots
    <3>2. /\ HealthyPanel(q) /\ SameButTheState(kept, q) /\ q.held = kept.held
          /\ q.geometry.themeSnapshot = file
      BY <2>1, <2>2, <2>4, <3>1, StoringKeeps
    <3>3. SameButTheState(p, q)
      BY <1>6, <2>1, <3>2
    <3>4. HeldIsSaved(q)
      BY <2>4, <3>2 DEF HeldIsSaved
    <3> QED BY <1>4, <1>10, <2>1, <3>2, <3>3, <3>4
  <2> QED BY <2>3, <2>4
<1> QED BY <1>4, <1>7, <1>8, <1>9, <1>10

LEMMA SettledIs == \A p : settled(p) = syncThemeHold(p, FALSE)
BY DEF settled, By

(* The panel that comes of a step is the step of the panel. *)
LEMMA ApplyingIs ==
    ASSUME NEW p, NEW follows, follows = (merge(p.overrides)["followTheme"] = Plain("on"))
    PROVE  applyEffectiveSettings(p)
             = syncThemeHold([p EXCEPT !.followTheme = follows, !.settingsKnown = TRUE],
                             p.settingsKnown /\ p.followTheme /\ ~follows)
BY DEF applyEffectiveSettings, By

(* The hold of a panel that was read: it never follows or holds before it knows. *)
HoldKnown(p) ==
    /\ p.held # "none" => p.stateKnown
    /\ ~p.followTheme => p.settingsKnown
    /\ HeldIsSaved(p)

(* applyEffectiveSettings. *)
LEMMA ApplyingKeeps ==
    ASSUME theme \in Themes, NEW p, HealthyPanel(p), NEW q, q = applyEffectiveSettings(p)
    PROVE  /\ HealthyPanel(q) /\ q.overrides = p.overrides /\ q.error = p.error
           /\ q.making["config"] = p.making["config"] /\ Carries(p, q, "state")
           /\ q.opened = p.opened /\ q.stateKnown = p.stateKnown /\ q.settingsKnown
           /\ HeldIsSaved(q) /\ (Untouched(p) => q.making = p.making)
           /\ p.held # "none" /\ ~q.followTheme => q.held = p.held
           /\ /\ p.held = "none" /\ p.stateKnown /\ ~q.followTheme
              /\ p.geometry.themeSnapshot # None
              => q.held = p.geometry.themeSnapshot.v
           /\ q.held # "none" => p.held # "none" \/ p.stateKnown
<1>0. PICK follows \in BOOLEAN : follows = (merge(p.overrides)["followTheme"] = Plain("on"))
  OBVIOUS
<1> DEFINE stopped == p.settingsKnown /\ p.followTheme /\ ~follows
           r == [p EXCEPT !.followTheme = follows, !.settingsKnown = TRUE]
<1>1. q = syncThemeHold(r, stopped)
  BY <1>0, ApplyingIs
<1>2. follows \in BOOLEAN /\ stopped \in BOOLEAN
  BY DEF HealthyPanel
<1> HIDE DEF stopped
<1>3. r = [overrides |-> p.overrides, geometry |-> p.geometry, error |-> p.error,
           settingsKnown |-> TRUE, stateKnown |-> p.stateKnown,
           followTheme |-> follows, held |-> p.held, opened |-> p.opened,
           making |-> p.making]
  <2>1. PICK yes : yes = TRUE
    OBVIOUS
  <2>2. r = [[p EXCEPT !.followTheme = follows] EXCEPT !.settingsKnown = yes]
    BY <2>1
  <2> HIDE DEF r
  <2>3. p = [overrides |-> p.overrides, geometry |-> p.geometry, error |-> p.error,
             settingsKnown |-> p.settingsKnown, stateKnown |-> p.stateKnown,
             followTheme |-> p.followTheme, held |-> p.held, opened |-> p.opened,
             making |-> p.making]
    BY DEF HealthyPanel
  <2> QED BY <2>1, <2>2, <2>3
<1> HIDE DEF r
<1>4. /\ r.overrides = p.overrides /\ r.geometry = p.geometry /\ r.error = p.error
      /\ r.settingsKnown = TRUE /\ r.stateKnown = p.stateKnown /\ r.followTheme = follows
      /\ r.held = p.held /\ r.opened = p.opened /\ r.making = p.making
  BY <1>3
<1>5. HealthyPanel(r)
  BY <1>2, <1>3, <1>4 DEF HealthyPanel
<1>6. /\ HealthyPanel(q) /\ SameButTheState(r, q) /\ HeldIsSaved(q)
      /\ Untouched(r) => q.making = r.making
      /\ r.held # "none" /\ ~r.followTheme => q.held = r.held
      /\ /\ r.held = "none" /\ r.settingsKnown /\ r.stateKnown /\ ~r.followTheme
         /\ r.geometry.themeSnapshot # None
         => q.held = r.geometry.themeSnapshot.v
      /\ q.held # "none" => r.held # "none" \/ r.stateKnown
  BY <1>1, <1>2, <1>5, HoldingKeeps
<1>7. Carries(p, q, "state")
  BY <1>4, <1>6 DEF SameButTheState, Carries, Memory
<1>8. Untouched(p) => q.making = p.making
  BY <1>4, <1>6 DEF Untouched
<1> QED BY <1>4, <1>6, <1>7, <1>8 DEF SameButTheState

(* A file read into the panel: it reads as what is held, unless a save of it is asked
   for or it does not parse; the other file is carried. *)
Loads(p, q, path) ==
    /\ HealthyPanel(q) /\ q.opened = p.opened
    /\ q.error[path] = Parsed(path, disk[path]).error
    /\ p.making[path] => q.making[path]
    /\ q.making[path] => p.making[path] \/ ~q.error[path]
    /\ ~q.error[path] /\ ~q.making[path]
          => Parsed(path, disk[path]) = Read(Memory(q, path))
    /\ \A other \in Paths \ {path} : q.error[other] = p.error[other] /\ Carries(p, q, other)
    /\ HoldKnown(p) => HoldKnown(q)
    /\ p.held # "none" /\ ~p.followTheme /\ ~q.followTheme => q.held = p.held

Heed(p, path, flag) == [p EXCEPT !.error[path] = flag]
Heeds(p, q, path) ==
    /\ q.overrides = p.overrides /\ q.geometry = p.geometry
    /\ q.settingsKnown = p.settingsKnown /\ q.stateKnown = p.stateKnown
    /\ q.followTheme = p.followTheme /\ q.opened = p.opened /\ q.held = p.held
    /\ q.making = p.making
    /\ \A other \in Paths \ {path} : q.error[other] = p.error[other]

(* A file's error, noted. *)
LEMMA Heeding ==
    ASSUME NEW p, HealthyPanel(p), NEW path \in Paths, NEW flag \in BOOLEAN,
           NEW q, q = Heed(p, path, flag)
    PROVE  HealthyPanel(q) /\ Heeds(p, q, path) /\ q.error[path] = flag
<1>1. q = [overrides |-> p.overrides, geometry |-> p.geometry,
           error |-> [p.error EXCEPT ![path] = flag],
           settingsKnown |-> p.settingsKnown, stateKnown |-> p.stateKnown,
           followTheme |-> p.followTheme, held |-> p.held, opened |-> p.opened,
           making |-> p.making]
  BY DEF HealthyPanel, Heed
<1>2. p.error \in [Paths -> BOOLEAN]
  BY DEF HealthyPanel
<1>3. /\ q.overrides = p.overrides /\ q.geometry = p.geometry
      /\ q.settingsKnown = p.settingsKnown /\ q.stateKnown = p.stateKnown
      /\ q.followTheme = p.followTheme /\ q.opened = p.opened /\ q.held = p.held
      /\ q.making = p.making /\ q.error = [p.error EXCEPT ![path] = flag]
  BY <1>1
<1>4. /\ q.error \in [Paths -> BOOLEAN] /\ q.error[path] = flag
      /\ \A other \in Paths \ {path} : q.error[other] = p.error[other]
  BY <1>2, <1>3
<1>5. HealthyPanel(q)
  BY <1>1, <1>3, <1>4 DEF HealthyPanel
<1> QED BY <1>3, <1>4, <1>5 DEF Heeds

(* A file that is there and cannot be read. *)
LEMMA UnreadableLoads ==
    ASSUME NEW p, HealthyPanel(p), NEW path \in Paths,
           Parsed(path, disk[path]).error, NEW q, q = [p EXCEPT !.error[path] = TRUE]
    PROVE  Loads(p, q, path)
<1>0. HealthyPanel(q) /\ Heeds(p, q, path) /\ q.error[path] = TRUE
  <2>1. q = Heed(p, path, TRUE)
    BY DEF Heed
  <2> QED BY <2>1, Heeding
<1>1. /\ HealthyPanel(q)
      /\ q.overrides = p.overrides /\ q.geometry = p.geometry
      /\ q.settingsKnown = p.settingsKnown /\ q.stateKnown = p.stateKnown
      /\ q.followTheme = p.followTheme /\ q.opened = p.opened /\ q.held = p.held
      /\ q.making = p.making /\ q.error[path] = TRUE
      /\ \A other \in Paths \ {path} : q.error[other] = p.error[other]
  BY <1>0 DEF Heeds
<1>2. \A other \in Paths \ {path} : Carries(p, q, other)
  BY <1>1 DEF Carries, Memory
<1>3. HoldKnown(p) => HoldKnown(q)
  BY <1>1 DEF HoldKnown, HeldIsSaved
<1>4. Parsed(path, disk[path]).error = TRUE
  <2>1. \A x, y : Error(x).error = TRUE /\ Read(y).error = FALSE
    BY DEF Error, Read
  <2>2. \E x : Parsed(path, disk[path]) \in {Error(x), Read(x)}
    BY DEF Parsed, reloadOverrides, reloadState
  <2> QED BY <2>1, <2>2
<1> QED BY <1>1, <1>2, <1>3, <1>4 DEF Loads

LEMMA ReadOrError == \A v : ~Read(v).error /\ Read(v).value = v /\ Error(v).error
BY DEF Read, Error

(* onLoaded and onLoadFailed of config.json. *)
LEMMA ConfigLoads ==
    ASSUME theme \in Themes, NEW p, HealthyPanel(p), IsText(disk["config"]),
           NEW q, q = Loaded(p, "config")
    PROVE  /\ Loads(p, q, "config") /\ q.stateKnown = p.stateKnown
           /\ ~q.error["config"] /\ p.held = "none" /\ p.stateKnown /\ ~q.followTheme
              /\ p.geometry.themeSnapshot # None
              => q.held = p.geometry.themeSnapshot.v
           /\ q.error["config"] => q.followTheme = p.followTheme
           /\ Untouched(p) => q.making = p.making
<1> DEFINE text == disk["config"]
<1>1. CASE Parsed("config", text).error
  <2>1. q = [p EXCEPT !.error["config"] = TRUE]
    <3>1. CASE text.kind = "unreadable"
      BY <3>1 DEF Loaded
    <3>2. CASE text.kind # "unreadable"
      <4>1. text.kind # "missing"
        BY <1>1, ReadOrError DEF Parsed
      <4>2. reloadOverrides(NoKeys, text).error
        BY <1>1, <4>1 DEF Parsed
      <4>3. reloadOverrides(p.overrides, text) = Error(p.overrides)
        BY <4>2, OverridesAsRead, ReadOrError
      <4>4. q = loadOverrides(p, text)
        BY <3>2, <4>1 DEF Loaded
      <4>5. reloadOverrides(p.overrides, text).error = TRUE
        BY <4>3 DEF Error
      <4> QED BY <4>4, <4>5 DEF loadOverrides
    <3> QED BY <3>1, <3>2
  <2>2. Loads(p, q, "config")
    BY <1>1, <2>1, UnreadableLoads DEF Paths
  <2>3. /\ q.stateKnown = p.stateKnown /\ q.error["config"]
        /\ q.followTheme = p.followTheme /\ q.making = p.making
    <3>1. q = Heed(p, "config", TRUE) /\ "config" \in Paths
      BY <2>1 DEF Paths, Heed
    <3>2. Heeds(p, q, "config") /\ q.error["config"] = TRUE
      BY <3>1, Heeding
    <3> QED BY <3>2 DEF Heeds
  <2> QED BY <2>2, <2>3
<1>2. CASE ~Parsed("config", text).error
  <2>1. PICK m : /\ HealthyOverrides(m) /\ Parsed("config", text) = Read(m)
                 /\ q = applyEffectiveSettings(
                          [p EXCEPT !.error["config"] = FALSE, !.overrides = m])
    <3>1. CASE text.kind = "missing"
      <4>1. HealthyOverrides(NoKeys)
        BY DEF HealthyOverrides, NoKeys, IsKeys
      <4>2. Parsed("config", text) = Read(NoKeys)
        BY <3>1 DEF Parsed
      <4>3. q = missingOverrides(p)
        BY <3>1 DEF Loaded
      <4> QED BY <4>1, <4>2, <4>3 DEF missingOverrides
    <3>2. CASE text.kind # "missing"
      <4>1. Parsed("config", text) = reloadOverrides(NoKeys, text)
        BY <3>2 DEF Parsed
      <4>2. PICK m : /\ HealthyOverrides(m)
                     /\ reloadOverrides(p.overrides, text) = Read(m)
                     /\ reloadOverrides(NoKeys, text) = Read(m)
        BY <1>2, <4>1, OverridesAsRead, ReadOrError
      <4>3. text.kind # "unreadable"
        BY <4>2, ReadOrError DEF reloadOverrides, parseObject
      <4>4. q = loadOverrides(p, text)
        BY <3>2, <4>3 DEF Loaded
      <4>5. Read(m).error = FALSE /\ Read(m).value = m
        BY DEF Read
      <4>6. q = applyEffectiveSettings([[p EXCEPT !.error["config"] = FALSE]
                                           EXCEPT !.overrides = m])
        BY <4>2, <4>4, <4>5 DEF loadOverrides
      <4>7. [[p EXCEPT !.error["config"] = FALSE] EXCEPT !.overrides = m]
              = [p EXCEPT !.error["config"] = FALSE, !.overrides = m]
        OBVIOUS
      <4> QED BY <4>1, <4>2, <4>6, <4>7
    <3> QED BY <3>1, <3>2
  <2> DEFINE e == [p EXCEPT !.error["config"] = FALSE]
             r == [p EXCEPT !.error["config"] = FALSE, !.overrides = m]
  <2>2. /\ HealthyPanel(e)
        /\ e.overrides = p.overrides /\ e.geometry = p.geometry
        /\ e.settingsKnown = p.settingsKnown /\ e.stateKnown = p.stateKnown
        /\ e.followTheme = p.followTheme /\ e.opened = p.opened /\ e.held = p.held
        /\ e.making = p.making /\ e.error["config"] = FALSE
        /\ \A other \in Paths \ {"config"} : e.error[other] = p.error[other]
    <3>1. e = Heed(p, "config", FALSE) /\ "config" \in Paths
      BY DEF Paths, Heed
    <3> HIDE DEF e
    <3>2. HealthyPanel(e) /\ Heeds(p, e, "config") /\ e.error["config"] = FALSE
      BY <3>1, Heeding
    <3> QED BY <3>2 DEF Heeds
  <2>3. r = [e EXCEPT !.overrides = m]
    OBVIOUS
  <2> HIDE DEF e, r
  <2>4. r = [overrides |-> m, geometry |-> e.geometry, error |-> e.error,
             settingsKnown |-> e.settingsKnown, stateKnown |-> e.stateKnown,
             followTheme |-> e.followTheme, held |-> e.held, opened |-> e.opened,
             making |-> e.making]
    BY <2>2, <2>3 DEF HealthyPanel
  <2>5. /\ r.overrides = m /\ r.geometry = e.geometry /\ r.error = e.error
        /\ r.settingsKnown = e.settingsKnown /\ r.stateKnown = e.stateKnown
        /\ r.followTheme = e.followTheme
        /\ r.held = e.held /\ r.opened = e.opened /\ r.making = e.making
    BY <2>4
  <2>6. HealthyPanel(r)
    BY <2>1, <2>2, <2>4, <2>5 DEF HealthyPanel
  <2>7. q = applyEffectiveSettings(r)
    BY <2>1 DEF r
  <2>8. /\ HealthyPanel(q) /\ q.overrides = r.overrides /\ q.error = r.error
        /\ q.making["config"] = r.making["config"] /\ Carries(r, q, "state")
        /\ q.opened = r.opened /\ q.stateKnown = r.stateKnown /\ q.settingsKnown
        /\ HeldIsSaved(q) /\ (Untouched(r) => q.making = r.making)
        /\ r.held # "none" /\ ~q.followTheme => q.held = r.held
        /\ /\ r.held = "none" /\ r.stateKnown /\ ~q.followTheme
           /\ r.geometry.themeSnapshot # None
           => q.held = r.geometry.themeSnapshot.v
        /\ q.held # "none" => r.held # "none" \/ r.stateKnown
    BY <2>6, <2>7, ApplyingKeeps
  <2>9. q.error["config"] = FALSE /\ q.error["state"] = p.error["state"]
    BY <2>2, <2>5, <2>8 DEF Paths
  <2>10. Parsed("config", text).error = FALSE
    BY <2>1 DEF Read
  <2>11. Carries(p, q, "state")
    BY <2>2, <2>5, <2>8 DEF Carries, Memory, Paths
  <2>12. Parsed("config", text) = Read(Memory(q, "config"))
    BY <2>1, <2>5, <2>8 DEF Memory
  <2>13. HoldKnown(p) => HoldKnown(q)
    BY <2>2, <2>5, <2>8 DEF HoldKnown
  <2>14. Loads(p, q, "config")
    BY <2>2, <2>5, <2>8, <2>9, <2>10, <2>11, <2>12, <2>13 DEF Loads, Paths
  <2>15. Untouched(p) => q.making = p.making
    BY <2>2, <2>5, <2>8 DEF Untouched
  <2> QED BY <2>2, <2>5, <2>8, <2>9, <2>14, <2>15
<1> QED BY <1>1, <1>2

(* onLoaded and onLoadFailed of state.json. *)
LEMMA StateLoads ==
    ASSUME theme \in Themes, NEW p, HealthyPanel(p), IsText(disk["state"]),
           NEW q, q = Loaded(p, "state")
    PROVE  /\ Loads(p, q, "state") /\ q.followTheme = p.followTheme
           /\ q.making["config"] = p.making["config"]
           /\ \A g : Parsed("state", disk["state"]) = Read(g) /\ g.themeSnapshot # None
                     /\ p.held = "none"
                => /\ p.settingsKnown /\ ~p.followTheme => q.held = g.themeSnapshot.v
                   /\ ~p.settingsKnown => q.held = "none" /\ q.geometry = g /\ q.stateKnown
<1> DEFINE text == disk["state"]
<1>1. CASE text.kind = "unreadable"
  <2>1. q = [p EXCEPT !.error["state"] = TRUE]
    BY <1>1 DEF Loaded
  <2>2. Parsed("state", text).error
    BY <1>1, ReadOrError DEF Parsed, reloadState, parseObject
  <2>3. Loads(p, q, "state")
    BY <2>1, <2>2, UnreadableLoads DEF Paths
  <2>4. q.followTheme = p.followTheme /\ q.making = p.making
    <3>1. q = Heed(p, "state", TRUE) /\ "state" \in Paths
      BY <2>1 DEF Paths, Heed
    <3>2. Heeds(p, q, "state")
      BY <3>1, Heeding
    <3> QED BY <3>2 DEF Heeds
  <2> QED BY <2>2, <2>3, <2>4, ReadOrError
<1>2. CASE text.kind # "unreadable"
  <2>1. PICK flag, g :
           /\ flag \in BOOLEAN /\ HealthyState(g)
           /\ q = settled([p EXCEPT !.error["state"] = flag, !.stateKnown = TRUE,
                                    !.geometry = g])
           /\ Parsed("state", text).error = flag
           /\ ~flag => Parsed("state", text) = Read(g)
    <3>1. CASE text.kind = "missing"
      <4>1. HealthyState(stateDefaults)
        BY DEF HealthyState, stateDefaults, NoKeys, IsKeys, IsValue, None, Plain, parsePoint,
               unknownTooLarge
      <4>2. Parsed("state", text) = Read(stateDefaults)
        BY <3>1 DEF Parsed
      <4>3. q = missingState(p)
        BY <3>1 DEF Loaded
      <4>4. Read(stateDefaults).error = FALSE
        BY DEF Read
      <4> QED BY <4>1, <4>2, <4>3, <4>4 DEF missingState
    <3>2. CASE text.kind # "missing"
      <4>1. Parsed("state", text) = reloadState(stateDefaults, text)
        BY <3>2 DEF Parsed
      <4>2. q = loadState(p, text)
        BY <1>2, <3>2 DEF Loaded
      <4>3. CASE /\ reloadState(p.geometry, text) = Error(p.geometry)
                 /\ reloadState(stateDefaults, text) = Error(stateDefaults)
        <5>1. HealthyState(p.geometry)
          BY DEF HealthyPanel
        <5>2. \A v : Error(v).error = TRUE /\ Error(v).value = v
          BY DEF Error
        <5>3. q = settled([p EXCEPT !.error["state"] = TRUE, !.stateKnown = TRUE,
                                    !.geometry = p.geometry])
          BY <4>2, <4>3, <5>2 DEF loadState
        <5> QED BY <4>1, <4>3, <5>1, <5>2, <5>3
      <4>4. ASSUME NEW g, HealthyState(g), reloadState(p.geometry, text) = Read(g),
                   reloadState(stateDefaults, text) = Read(g)
            PROVE  /\ q = settled([p EXCEPT !.error["state"] = FALSE, !.stateKnown = TRUE,
                                    !.geometry = g])
                   /\ Parsed("state", text).error = FALSE /\ Parsed("state", text) = Read(g)
        <5>1. \A v : Read(v).error = FALSE /\ Read(v).value = v
          BY DEF Read
        <5> QED BY <4>1, <4>2, <4>4, <5>1 DEF loadState
      <4> QED BY <4>3, <4>4, StateAsRead
    <3> QED BY <3>1, <3>2
  <2> DEFINE e == Heed(p, "state", flag)
             r == [p EXCEPT !.error["state"] = flag, !.stateKnown = TRUE, !.geometry = g]
  <2>2. HealthyPanel(e) /\ Heeds(p, e, "state") /\ e.error["state"] = flag
    <3>1. flag \in BOOLEAN
      BY <2>1
    <3> QED BY <3>1, Heeding DEF Paths
  <2>3. /\ e.overrides = p.overrides /\ e.geometry = p.geometry
        /\ e.settingsKnown = p.settingsKnown /\ e.stateKnown = p.stateKnown
        /\ e.followTheme = p.followTheme /\ e.opened = p.opened /\ e.held = p.held
        /\ e.making = p.making /\ e.error["config"] = p.error["config"]
    BY <2>2 DEF Heeds, Paths
  <2>4. PICK yes \in BOOLEAN : yes = TRUE
    OBVIOUS
  <2>5. r = [[e EXCEPT !.stateKnown = yes] EXCEPT !.geometry = g]
    BY <2>4 DEF Heed
  <2>6. e = [overrides |-> e.overrides, geometry |-> e.geometry, error |-> e.error,
             settingsKnown |-> e.settingsKnown, stateKnown |-> e.stateKnown,
             followTheme |-> e.followTheme, held |-> e.held, opened |-> e.opened,
             making |-> e.making]
    BY <2>2 DEF HealthyPanel
  <2> HIDE DEF e, r
  <2>7. r = [overrides |-> e.overrides, geometry |-> g, error |-> e.error,
             settingsKnown |-> e.settingsKnown, stateKnown |-> yes,
             followTheme |-> e.followTheme, held |-> e.held, opened |-> e.opened,
             making |-> e.making]
    BY <2>5, <2>6
  <2>8. /\ r.overrides = e.overrides /\ r.geometry = g /\ r.error = e.error
        /\ r.settingsKnown = e.settingsKnown /\ r.stateKnown = TRUE
        /\ r.followTheme = e.followTheme
        /\ r.held = e.held /\ r.opened = e.opened /\ r.making = e.making
    BY <2>4, <2>7
  <2>9. HealthyPanel(r)
    BY <2>1, <2>2, <2>4, <2>7, <2>8 DEF HealthyPanel
  <2>10. q = syncThemeHold(r, FALSE)
    BY <2>1, SettledIs DEF r
  <2>11. /\ HealthyPanel(q) /\ SameButTheState(r, q) /\ HeldIsSaved(q)
         /\ ~r.settingsKnown => q = r
         /\ r.held # "none" /\ ~r.followTheme => q.held = r.held
         /\ /\ r.held = "none" /\ r.settingsKnown /\ r.stateKnown /\ ~r.followTheme
            /\ r.geometry.themeSnapshot # None
            => q.held = r.geometry.themeSnapshot.v
         /\ q.held # "none" => r.held # "none" \/ r.stateKnown
    <3>1. FALSE \in BOOLEAN
      OBVIOUS
    <3> QED BY <2>9, <2>10, <3>1, HoldingKeeps
  <2>12. /\ q.overrides = p.overrides /\ q.error = r.error
         /\ q.making["config"] = p.making["config"]
         /\ q.settingsKnown = p.settingsKnown /\ q.stateKnown = TRUE
         /\ q.followTheme = p.followTheme /\ q.opened = p.opened
         /\ Carries(r, q, "state")
    BY <2>3, <2>8, <2>11 DEF SameButTheState
  <2>13. q.error["state"] = flag /\ q.error["config"] = p.error["config"]
    BY <2>2, <2>3, <2>8, <2>12
  <2>14. Carries(p, q, "config")
    BY <2>3, <2>8, <2>12 DEF Carries, Memory
  <2>15. ~flag /\ ~q.making["state"] => Parsed("state", text) = Read(Memory(q, "state"))
    BY <2>1, <2>2, <2>8, <2>12 DEF Carries, Memory
  <2>16. p.making["state"] => q.making["state"]
    BY <2>3, <2>8, <2>12 DEF Carries
  <2>17. q.making["state"] => p.making["state"] \/ ~flag
    BY <2>2, <2>3, <2>8, <2>12 DEF Carries
  <2>18. HoldKnown(p) => HoldKnown(q)
    BY <2>11, <2>12 DEF HoldKnown
  <2>19. Loads(p, q, "state")
    BY <2>1, <2>3, <2>8, <2>11, <2>12, <2>13, <2>14, <2>15, <2>16, <2>17, <2>18
       DEF Loads, Paths
  <2>20. ASSUME NEW h, Parsed("state", text) = Read(h), h.themeSnapshot # None,
                p.held = "none"
         PROVE  /\ p.settingsKnown /\ ~p.followTheme => q.held = h.themeSnapshot.v
                /\ ~p.settingsKnown => q.held = "none" /\ q.geometry = h /\ q.stateKnown
    <3>1. h = g
      BY <2>1, <2>20, ReadOrError
    <3> QED BY <2>3, <2>8, <2>11, <2>12, <2>20, <3>1
  <2> QED BY <2>12, <2>19, <2>20
<1> QED BY <1>1, <1>2

(* The panel before it has read anything. *)
LEMMA FreshIs ==
    /\ HealthyPanel(Fresh) /\ HoldKnown(Fresh)
    /\ Untouched(Fresh)
    /\ Fresh.held = "none" /\ ~Fresh.settingsKnown /\ ~Fresh.stateKnown /\ Fresh.followTheme
    /\ \A path \in Paths : ~Fresh.making[path] /\ ~Fresh.error[path]
<1>1. HealthyOverrides(NoKeys)
  BY DEF HealthyOverrides, NoKeys, IsKeys
<1>2. HealthyState(stateDefaults)
  BY DEF HealthyState, stateDefaults, NoKeys, IsKeys, IsValue, None, Plain, parsePoint,
         unknownTooLarge
<1>3. /\ Fresh.overrides = NoKeys /\ Fresh.geometry = stateDefaults
      /\ Fresh.error = [path \in Paths |-> FALSE] /\ Fresh.making = [path \in Paths |-> FALSE]
      /\ Fresh.settingsKnown = FALSE /\ Fresh.stateKnown = FALSE /\ Fresh.followTheme = TRUE
      /\ Fresh.held = "none" /\ Fresh.opened = FALSE
      /\ Fresh = [overrides |-> Fresh.overrides, geometry |-> Fresh.geometry,
            error |-> Fresh.error, settingsKnown |-> Fresh.settingsKnown,
            stateKnown |-> Fresh.stateKnown, followTheme |-> Fresh.followTheme,
            held |-> Fresh.held, opened |-> Fresh.opened, making |-> Fresh.making]
  BY DEF Fresh
<1>6. Fresh.geometry.themeSnapshot = None
  BY <1>3 DEF stateDefaults
<1> HIDE DEF Fresh
<1>7. Untouched(Fresh)
  BY <1>3, <1>6 DEF Untouched
<1>4. HealthyPanel(Fresh)
  BY <1>1, <1>2, <1>3 DEF HealthyPanel
<1>5. HoldKnown(Fresh)
  BY <1>3 DEF HoldKnown, HeldIsSaved
<1> QED BY <1>3, <1>4, <1>5, <1>7

(* The panel holds what the file reads as, or is about to save what it added. *)
LoadedFrom(p, path) ==
    /\ p.making[path] => ~p.error[path]
    /\ ~p.error[path] /\ ~p.making[path]
          => Parsed(path, disk[path]) = Read(Memory(p, path))
    /\ p.error[path] = Parsed(path, disk[path]).error

(* A panel that comes up, in either order of the two loads: it holds what the files
   read as, and a theme of state.json's where following is off. *)
LEMMA StartedReads ==
    ASSUME theme \in Themes, \A path \in Paths : IsText(disk[path]), NEW p \in Started
    PROVE  /\ HealthyPanel(p) /\ HoldKnown(p) /\ \A path \in Paths : LoadedFrom(p, path)
           /\ \A g : Parsed("state", disk["state"]) = Read(g) /\ g.themeSnapshot # None
                     /\ ~p.followTheme
                => p.held = g.themeSnapshot.v
<1>1. IsText(disk["config"]) /\ IsText(disk["state"])
  BY DEF Paths
<1>2. PICK order \in {<<"config", "state">>, <<"state", "config">>} :
         p = Loaded(Loaded(Fresh, order[1]), order[2])
  BY DEF Started
<1>3. CASE order = <<"config", "state">>
  <2> DEFINE r == Loaded(Fresh, "config")
  <2>1. p = Loaded(r, "state")
    BY <1>2, <1>3
  <2> HIDE DEF r
  <2>2. /\ Loads(Fresh, r, "config") /\ r.stateKnown = Fresh.stateKnown
        /\ r.making = Fresh.making
    BY <1>1, FreshIs, ConfigLoads DEF r
  <2>3. HealthyPanel(r) /\ HoldKnown(r) /\ r.held = "none"
    BY <2>2, FreshIs DEF Loads, HoldKnown
  <2>4. /\ Loads(r, p, "state") /\ p.followTheme = r.followTheme
        /\ \A g : Parsed("state", disk["state"]) = Read(g) /\ g.themeSnapshot # None
                     /\ r.held = "none"
                => /\ r.settingsKnown /\ ~r.followTheme => p.held = g.themeSnapshot.v
                   /\ ~r.settingsKnown => p.held = "none" /\ p.geometry = g /\ p.stateKnown
    BY <1>1, <2>1, <2>3, StateLoads
  <2>5. ~r.making["state"]
    BY <2>2, FreshIs DEF Paths
  <2>6. LoadedFrom(p, "state")
    BY <2>4, <2>5 DEF Loads, LoadedFrom
  <2>7. r.making["config"] => ~r.error["config"]
    BY <2>2, FreshIs DEF Loads, Paths
  <2>8. Carries(r, p, "config") /\ p.error["config"] = r.error["config"]
    BY <2>4 DEF Loads, Paths
  <2>9. LoadedFrom(p, "config")
    BY <2>2, <2>7, <2>8 DEF Loads, LoadedFrom, Carries
  <2>10. HealthyPanel(p) /\ HoldKnown(p)
    BY <2>3, <2>4 DEF Loads
  <2> QED BY <2>3, <2>4, <2>6, <2>9, <2>10 DEF Paths, HoldKnown
<1>4. CASE order = <<"state", "config">>
  <2> DEFINE r == Loaded(Fresh, "state")
  <2>1. p = Loaded(r, "config")
    BY <1>2, <1>4
  <2> HIDE DEF r
  <2>2. /\ Loads(Fresh, r, "state") /\ r.followTheme = Fresh.followTheme
        /\ r.making["config"] = Fresh.making["config"]
        /\ \A g : Parsed("state", disk["state"]) = Read(g) /\ g.themeSnapshot # None
                     /\ Fresh.held = "none"
                => /\ Fresh.settingsKnown /\ ~Fresh.followTheme => r.held = g.themeSnapshot.v
                   /\ ~Fresh.settingsKnown
                        => r.held = "none" /\ r.geometry = g /\ r.stateKnown
    BY <1>1, FreshIs, StateLoads DEF r
  <2>3. HealthyPanel(r) /\ HoldKnown(r)
    BY <2>2, FreshIs DEF Loads
  <2>4. /\ Loads(r, p, "config")
        /\ ~p.error["config"] /\ r.held = "none" /\ r.stateKnown /\ ~p.followTheme
              /\ r.geometry.themeSnapshot # None
              => p.held = r.geometry.themeSnapshot.v
        /\ p.error["config"] => p.followTheme = r.followTheme
    BY <1>1, <2>1, <2>3, ConfigLoads
  <2>5. ~r.making["config"]
    BY <2>2, FreshIs DEF Paths
  <2>6. LoadedFrom(p, "config")
    BY <2>4, <2>5 DEF Loads, LoadedFrom
  <2>7. r.making["state"] => ~r.error["state"]
    BY <2>2, FreshIs DEF Loads, Paths
  <2>8. Carries(r, p, "state") /\ p.error["state"] = r.error["state"]
    BY <2>4 DEF Loads, Paths
  <2>9. LoadedFrom(p, "state")
    BY <2>2, <2>7, <2>8 DEF Loads, LoadedFrom, Carries
  <2>10. HealthyPanel(p) /\ HoldKnown(p)
    BY <2>3, <2>4 DEF Loads
  <2>11. \A g : Parsed("state", disk["state"]) = Read(g) /\ g.themeSnapshot # None
                     /\ ~p.followTheme
                => p.held = g.themeSnapshot.v
    BY <2>2, <2>4, FreshIs
  <2> QED BY <2>6, <2>9, <2>10, <2>11 DEF Paths
<1> QED BY <1>2, <1>3, <1>4

LEMMA WithIsHealthy ==
    ASSUME NEW m, HealthyOverrides(m), NEW name \in DOMAIN CONFIG_FIELDS,
           NEW value, value = Plain(value.v), validFieldValue(name, value)
    PROVE  HealthyOverrides(With(m, name, value))
<1> DEFINE w == With(m, name, value)
<1>1. w = [n \in DOMAIN m \cup {name} |-> IF n = name THEN value ELSE m[n]]
  BY DEF With
<1>2. /\ IsKeys(m) /\ DOMAIN m \cap {"follow_theme", "accent_color", "__proto__"} = {}
      /\ \A n \in DOMAIN m \cap DOMAIN CONFIG_FIELDS :
            m[n] = Plain(m[n].v) /\ validFieldValue(n, m[n])
      /\ \A n \in DOMAIN m : m[n].form # "huge" /\ IsValue(m[n])
  BY DEF HealthyOverrides, IsKeys
<1>3. /\ DOMAIN w = DOMAIN m \cup {name} /\ w[name] = value
      /\ \A n \in DOMAIN m \ {name} : w[n] = m[n]
      /\ w = [n \in DOMAIN w |-> w[n]]
  BY <1>1
<1> HIDE DEF w
<1>4. value.form # "huge" /\ IsValue(value)
  <2>1. PICK v : value = Plain(v)
    OBVIOUS
  <2> QED BY <2>1 DEF Plain, IsValue
<1>5. \A n \in DOMAIN w : IsValue(w[n]) /\ w[n].form # "huge"
  BY <1>2, <1>3, <1>4
<1>6. \A n \in DOMAIN w \cap DOMAIN CONFIG_FIELDS :
         w[n] = Plain(w[n].v) /\ validFieldValue(n, w[n])
  BY <1>2, <1>3
<1>7. DOMAIN w \cap {"follow_theme", "accent_color", "__proto__"} = {}
  BY <1>2, <1>3, FieldsAre
<1> QED BY <1>3, <1>5, <1>6, <1>7 DEF HealthyOverrides, IsKeys, w

(* withOverride, of what the panel offers. *)
LEMMA OverriddenIsHealthy ==
    ASSUME NEW m, HealthyOverrides(m), NEW c \in Picks, NEW following
    PROVE  HealthyOverrides(withOverride(m, c[1], c[2], following))
<1>1. c[1] \in DOMAIN CONFIG_FIELDS /\ c[2] = Plain(c[2].v) /\ validFieldValue(c[1], c[2])
  BY SettingsAssumption
<1>2. HealthyOverrides(With(m, c[1], c[2]))
  BY <1>1, WithIsHealthy
<1>3. /\ "followTheme" \in DOMAIN CONFIG_FIELDS /\ Plain("off") = Plain(Plain("off").v)
      /\ validFieldValue("followTheme", Plain("off"))
  BY FieldsAre DEF Plain, validFieldValue, APPEARANCE_FIELDS
<1>4. HealthyOverrides(With(With(m, c[1], c[2]), "followTheme", Plain("off")))
  BY <1>2, <1>3, WithIsHealthy
<1> QED BY <1>2, <1>4 DEF withOverride

(* A reset. *)
LEMMA RestrictedIsHealthy ==
    ASSUME NEW m, HealthyOverrides(m), NEW S \in SUBSET DOMAIN m
    PROVE  HealthyOverrides(Restrict(m, S))
<1>1. IsKeys(m)
  BY DEF HealthyOverrides
<1>2. IsKeys(Restrict(m, S))
  BY <1>1, KeysRestricted
<1>3. DOMAIN Restrict(m, S) = S /\ \A n \in S : Restrict(m, S)[n] = m[n]
  BY DEF Restrict
<1> QED BY <1>2, <1>3 DEF HealthyOverrides

(* A step of the panel that reads no file. *)
Stepped(p, q) ==
    /\ HealthyPanel(q) /\ q.error = p.error
    /\ \A path \in Paths : Carries(p, q, path)
    /\ HoldKnown(p) => HoldKnown(q)
    /\ p.held # "none" /\ ~p.followTheme /\ ~q.followTheme => q.held = p.held

(* commitOverrides. *)
LEMMA CommitSteps ==
    ASSUME theme \in Themes, NEW p, HealthyPanel(p), ~p.error["config"],
           NEW next, HealthyOverrides(next),
           NEW q, q = saveOverrides(applyEffectiveSettings([p EXCEPT !.overrides = next]))
    PROVE  Stepped(p, q)
<1> DEFINE r == [p EXCEPT !.overrides = next]
           s == applyEffectiveSettings(r)
<1>1. r = [overrides |-> next, geometry |-> p.geometry, error |-> p.error,
           settingsKnown |-> p.settingsKnown, stateKnown |-> p.stateKnown,
           followTheme |-> p.followTheme, held |-> p.held, opened |-> p.opened,
           making |-> p.making]
  BY DEF HealthyPanel
<1>2. q = Save(s, "config")
  BY DEF saveOverrides
<1> HIDE DEF r
<1>3. /\ r.overrides = next /\ r.geometry = p.geometry /\ r.error = p.error
      /\ r.settingsKnown = p.settingsKnown /\ r.stateKnown = p.stateKnown
      /\ r.followTheme = p.followTheme /\ r.opened = p.opened /\ r.held = p.held
      /\ r.making = p.making
  BY <1>1
<1>4. HealthyPanel(r)
  BY <1>1, <1>3 DEF HealthyPanel
<1> HIDE DEF s
<1>5. /\ HealthyPanel(s) /\ s.overrides = r.overrides /\ s.error = r.error
      /\ s.making["config"] = r.making["config"] /\ Carries(r, s, "state")
      /\ s.opened = r.opened /\ s.stateKnown = r.stateKnown /\ s.settingsKnown
      /\ HeldIsSaved(s)
      /\ r.held # "none" /\ ~s.followTheme => s.held = r.held
      /\ s.held # "none" => r.held # "none" \/ r.stateKnown
  BY <1>4, ApplyingKeeps DEF s
<1>6. /\ HealthyPanel(q)
      /\ q.overrides = s.overrides /\ q.geometry = s.geometry /\ q.error = s.error
      /\ q.settingsKnown = s.settingsKnown /\ q.stateKnown = s.stateKnown
      /\ q.followTheme = s.followTheme /\ q.opened = s.opened /\ q.held = s.held
      /\ \A other \in Paths \ {"config"} : q.making[other] = s.making[other]
      /\ q.making["config"] = (s.making["config"] \/ ~s.error["config"])
  <2>1. "config" \in Paths
    BY DEF Paths
  <2>2. HealthyPanel(q) /\ SaveAsked(s, q, "config")
    BY <1>2, <1>5, <2>1, SavingKeeps
  <2> QED BY <2>2 DEF SaveAsked
<1>7. Carries(p, q, "config")
  BY <1>3, <1>5, <1>6 DEF Carries
<1>8. Carries(p, q, "state")
  BY <1>3, <1>5, <1>6 DEF Carries, Memory, Paths
<1>9. HoldKnown(p) => HoldKnown(q)
  BY <1>3, <1>5, <1>6 DEF HoldKnown, HeldIsSaved
<1> QED BY <1>3, <1>5, <1>6, <1>7, <1>8, <1>9 DEF Stepped, Paths

LEMMA PlaceSteps ==
    ASSUME NEW p, HealthyPanel(p), NEW point \in Points,
           NEW q, q = saveState([p EXCEPT !.geometry.center = Plain(point)])
    PROVE  Stepped(p, q)
<1> DEFINE g == [p.geometry EXCEPT !.center = Plain(point)]
           r == [p EXCEPT !.geometry.center = Plain(point)]
<1>1. /\ p.geometry = [center |-> p.geometry.center,
                       themeSnapshot |-> p.geometry.themeSnapshot,
                       unknown |-> p.geometry.unknown]
      /\ HealthyState(p.geometry)
  BY DEF HealthyPanel, HealthyState
<1>2. g = [center |-> Plain(point), themeSnapshot |-> p.geometry.themeSnapshot,
           unknown |-> p.geometry.unknown]
  BY <1>1
<1>3. IsValue(Plain(point)) /\ parsePoint(Plain(point))
  BY DEF IsValue, Plain, parsePoint
<1>4. HealthyState(g) /\ g.themeSnapshot = p.geometry.themeSnapshot
  BY <1>1, <1>2, <1>3 DEF HealthyState
<1>5. r = [overrides |-> p.overrides, geometry |-> g, error |-> p.error,
           settingsKnown |-> p.settingsKnown, stateKnown |-> p.stateKnown,
           followTheme |-> p.followTheme, held |-> p.held, opened |-> p.opened,
           making |-> p.making]
  BY DEF HealthyPanel
<1>6. q = Save(r, "state")
  BY DEF saveState
<1> HIDE DEF g, r
<1>7. /\ r.overrides = p.overrides /\ r.geometry = g /\ r.error = p.error
      /\ r.settingsKnown = p.settingsKnown /\ r.stateKnown = p.stateKnown
      /\ r.followTheme = p.followTheme /\ r.opened = p.opened /\ r.held = p.held
      /\ r.making = p.making
  BY <1>5
<1>8. HealthyPanel(r)
  BY <1>4, <1>5 DEF HealthyPanel
<1>9. /\ HealthyPanel(q)
      /\ q.overrides = r.overrides /\ q.geometry = r.geometry /\ q.error = r.error
      /\ q.settingsKnown = r.settingsKnown /\ q.stateKnown = r.stateKnown
      /\ q.followTheme = r.followTheme /\ q.opened = r.opened /\ q.held = r.held
      /\ \A other \in Paths \ {"state"} : q.making[other] = r.making[other]
      /\ q.making["state"] = (r.making["state"] \/ ~r.error["state"])
  <2>1. "state" \in Paths
    BY DEF Paths
  <2>2. HealthyPanel(q) /\ SaveAsked(r, q, "state")
    BY <1>6, <1>8, <2>1, SavingKeeps
  <2> QED BY <2>2 DEF SaveAsked
<1>10. Carries(p, q, "state")
  BY <1>7, <1>9 DEF Carries
<1>11. Carries(p, q, "config")
  BY <1>7, <1>9 DEF Carries, Memory, Paths
<1>12. HoldKnown(p) => HoldKnown(q)
  BY <1>4, <1>7, <1>9 DEF HoldKnown, HeldIsSaved
<1> QED BY <1>7, <1>9, <1>10, <1>11, <1>12 DEF Stepped, Paths

LEMMA OpenedKeeps ==
    ASSUME NEW p, HealthyPanel(p), NEW flag \in BOOLEAN, NEW q, q = [p EXCEPT !.opened = flag]
    PROVE  Stepped(p, q) /\ q.making = p.making /\ q.followTheme = p.followTheme
           /\ q.held = p.held /\ \A path : Memory(q, path) = Memory(p, path)
<1>1. q = [overrides |-> p.overrides, geometry |-> p.geometry, error |-> p.error,
           settingsKnown |-> p.settingsKnown, stateKnown |-> p.stateKnown,
           followTheme |-> p.followTheme, held |-> p.held, opened |-> flag,
           making |-> p.making]
  BY DEF HealthyPanel
<1>2. /\ q.overrides = p.overrides /\ q.geometry = p.geometry /\ q.error = p.error
      /\ q.settingsKnown = p.settingsKnown /\ q.stateKnown = p.stateKnown
      /\ q.followTheme = p.followTheme /\ q.opened = flag /\ q.held = p.held
      /\ q.making = p.making
  BY <1>1
<1>3. HealthyPanel(q)
  BY <1>1, <1>2 DEF HealthyPanel
<1>4. \A path : Memory(q, path) = Memory(p, path) /\ Carries(p, q, path)
  BY <1>2 DEF Memory, Carries
<1>5. HoldKnown(p) => HoldKnown(q)
  BY <1>2 DEF HoldKnown, HeldIsSaved
<1> QED BY <1>2, <1>3, <1>4, <1>5 DEF Stepped

(* Opening the panel, which may hold the theme. *)
LEMMA OpenSteps ==
    ASSUME theme \in Themes, NEW p, HealthyPanel(p),
           NEW q, q = settled([p EXCEPT !.opened = TRUE])
    PROVE  Stepped(p, q)
<1> DEFINE r == [p EXCEPT !.opened = TRUE]
<1>1. PICK flag \in BOOLEAN : flag = TRUE
  OBVIOUS
<1>2. r = [p EXCEPT !.opened = flag]
  BY <1>1
<1>3. q = syncThemeHold(r, FALSE)
  BY SettledIs
<1> HIDE DEF r
<1>4. Stepped(p, r) /\ r.making = p.making /\ r.followTheme = p.followTheme
      /\ r.held = p.held /\ \A path : Memory(r, path) = Memory(p, path)
  BY <1>2, OpenedKeeps
<1>5. HealthyPanel(r) /\ r.error = p.error
  BY <1>4 DEF Stepped
<1>6. /\ HealthyPanel(q) /\ SameButTheState(r, q) /\ HeldIsSaved(q)
      /\ r.held # "none" /\ ~r.followTheme => q.held = r.held
      /\ q.held # "none" => r.held # "none" \/ r.stateKnown
  <2>1. FALSE \in BOOLEAN
    OBVIOUS
  <2> QED BY <1>3, <1>5, <2>1, HoldingKeeps
<1>7. Carries(p, q, "state")
  BY <1>4, <1>5, <1>6 DEF SameButTheState, Carries
<1>8. Carries(p, q, "config")
  BY <1>4, <1>6 DEF SameButTheState, Carries, Memory
<1>9. HoldKnown(p) => HoldKnown(q)
  BY <1>4, <1>6 DEF Stepped, HoldKnown, SameButTheState
<1> QED BY <1>4, <1>5, <1>6, <1>7, <1>8, <1>9 DEF Stepped, SameButTheState, Paths

-----------------------------------------------------------------------------
(* The queue. *)

(* The queue holds one write of each file. *)
OneEach(q) == \A i, j \in DOMAIN q : q[i].path = q[j].path => i = j
Has(q, path, text) == \E i \in DOMAIN q : q[i].path = path /\ q[i].text = text

IsEntry(e) == /\ e = [path |-> e.path, text |-> e.text, retried |-> e.retried]
              /\ e.path \in Paths /\ IsText(e.text) /\ e.retried \in BOOLEAN
Elements(q) == {q[i] : i \in DOMAIN q}
IsQueue(q) == q \in Seq(Elements(q)) /\ OneEach(q) /\ \A i \in DOMAIN q : IsEntry(q[i])

LEMMA ElementsIs ==
    ASSUME NEW S, NEW q \in Seq(S)
    PROVE  q \in Seq(Elements(q)) /\ DOMAIN q = 1..Len(q) /\ Len(q) \in Nat
<1>1. Len(q) \in Nat /\ q \in [1..Len(q) -> S] /\ DOMAIN q = 1..Len(q)
  BY LenProperties
<1>2. q \in [1..Len(q) -> Elements(q)]
  BY <1>1 DEF Elements
<1> QED BY <1>1, <1>2, SeqDef

(* A write added at the end, for a file that has none. *)
LEMMA AddingKeeps ==
    ASSUME NEW q, IsQueue(q), NEW e, IsEntry(e),
           \A i \in DOMAIN q : q[i].path # e.path
    PROVE  /\ IsQueue(Append(q, e))
           /\ \A path, text : Has(Append(q, e), path, text)
                 <=> Has(q, path, text) \/ (path = e.path /\ text = e.text)
<1> DEFINE a == Append(q, e)
           S == Elements(q) \cup {e}
<1>1. q \in Seq(S) /\ e \in S
  <2>1. Seq(Elements(q)) \subseteq Seq(S)
    BY SeqMonotonic
  <2> QED BY <2>1 DEF IsQueue
<1>2. a \in Seq(S) /\ Len(a) = Len(q) + 1 /\ \A i \in 1..Len(q) : a[i] = q[i]
  BY <1>1, AppendProperties
<1>3. a[Len(q) + 1] = e
  BY <1>1, AppendProperties
<1>4. DOMAIN q = 1..Len(q) /\ Len(q) \in Nat /\ DOMAIN a = 1..Len(a) /\ a \in Seq(Elements(a))
  BY <1>1, <1>2, ElementsIs
<1>5. DOMAIN a = DOMAIN q \cup {Len(q) + 1} /\ \A i \in DOMAIN q : i # Len(q) + 1
  BY <1>2, <1>4
<1> HIDE DEF a, S
<1>6. \A i \in DOMAIN a : IsEntry(a[i])
  BY <1>2, <1>3, <1>4, <1>5 DEF IsQueue
<1>7. OneEach(a)
  <2>1. OneEach(q)
    BY DEF IsQueue
  <2> QED BY <2>1, <1>2, <1>3, <1>4, <1>5 DEF OneEach
<1>8. \A path, text : Has(a, path, text)
                 <=> Has(q, path, text) \/ (path = e.path /\ text = e.text)
  BY <1>2, <1>3, <1>4, <1>5 DEF Has
<1> QED BY <1>4, <1>6, <1>7, <1>8 DEF IsQueue, a

(* The queue past one of its writes. *)
LEMMA CuttingKeeps ==
    ASSUME NEW q, IsQueue(q), NEW i \in DOMAIN q
    PROVE  /\ IsQueue(SubSeq(q, i + 1, Len(q)))
           /\ \A path, text : Has(SubSeq(q, i + 1, Len(q)), path, text)
                 <=> \E j \in DOMAIN q : j > i /\ q[j].path = path /\ q[j].text = text
<1> DEFINE s == SubSeq(q, i + 1, Len(q))
<1>1. q \in Seq(Elements(q)) /\ DOMAIN q = 1..Len(q) /\ Len(q) \in Nat
  BY ElementsIs DEF IsQueue
<1>2. i \in 1..Len(q)
  BY <1>1
<1>3. /\ s \in Seq(Elements(q)) /\ Len(s) = Len(q) - i
      /\ \A j \in 1..(Len(q) - i) : s[j] = q[i + j]
  <2>1. CASE i + 1 <= Len(q)
    <3>1. s \in Seq(Elements(q)) /\ Len(s) = Len(q) - (i + 1) + 1
          /\ \A j \in 1..(Len(q) - (i + 1) + 1) : s[j] = q[i + 1 + j - 1]
      BY <1>1, <1>2, <2>1
    <3> QED BY <3>1, <1>1, <1>2, <2>1
  <2>2. CASE ~(i + 1 <= Len(q))
    <3>1. i + 1 > Len(q) /\ Len(q) - i = 0
      BY <1>1, <1>2, <2>2
    <3>2. s = <<>>
      BY <1>1, <1>2, <3>1
    <3> QED BY <3>1, <3>2
  <2> QED BY <2>1, <2>2
<1>4. s \in Seq(Elements(s)) /\ DOMAIN s = 1..(Len(q) - i)
  BY <1>3, ElementsIs
<1> HIDE DEF s
<1>5. \A j \in DOMAIN s : i + j \in DOMAIN q /\ s[j] = q[i + j] /\ i + j > i
  <2>1. TAKE j \in DOMAIN s
  <2>2. j \in 1..(Len(q) - i)
    BY <1>4
  <2>3. i + j \in 1..Len(q) /\ i + j > i
    BY <2>2, <1>1, <1>2
  <2> QED BY <2>2, <2>3, <1>1, <1>3
<1>6. \A j \in DOMAIN q : j > i => j - i \in DOMAIN s /\ s[j - i] = q[j]
  BY <1>1, <1>2, <1>3, <1>4
<1>7. \A j \in DOMAIN s : IsEntry(s[j])
  BY <1>5 DEF IsQueue
<1>8. OneEach(s)
  <2>1. OneEach(q)
    BY DEF IsQueue
  <2>2. ASSUME NEW j \in DOMAIN s, NEW k \in DOMAIN s, s[j].path = s[k].path PROVE j = k
    <3>1. i + j = i + k
      BY <2>1, <2>2, <1>5 DEF OneEach
    <3> QED BY <3>1, <1>1, <1>2, <1>4
  <2> QED BY <2>2 DEF OneEach
<1>9. \A path, text : Has(s, path, text)
                 <=> \E j \in DOMAIN q : j > i /\ q[j].path = path /\ q[j].text = text
  BY <1>5, <1>6 DEF Has
<1> QED BY <1>4, <1>7, <1>8, <1>9 DEF IsQueue, s

(* One write taken out. *)
LEMMA RemovingKeeps ==
    ASSUME NEW q, IsQueue(q), NEW i \in DOMAIN q
    PROVE  /\ IsQueue(RemoveAt(q, i))
           /\ \A path, text : Has(RemoveAt(q, i), path, text)
                 <=> path # q[i].path /\ Has(q, path, text)
<1> DEFINE r == RemoveAt(q, i)
           before == SubSeq(q, 1, i - 1)
           after == SubSeq(q, i + 1, Len(q))
<1>1. q \in Seq(Elements(q)) /\ DOMAIN q = 1..Len(q) /\ Len(q) \in Nat
  BY ElementsIs DEF IsQueue
<1>2. i \in 1..Len(q)
  BY <1>1
<1>3. \A j \in 1..Len(q) : q[j] \in Elements(q)
  BY <1>1 DEF Elements
<1>4. /\ before \in Seq(Elements(q)) /\ Len(before) = i - 1
      /\ \A j \in 1..(i - 1) : before[j] = q[j]
  <2>1. 1 \in Int /\ i - 1 \in Int /\ (\A j \in 1..(i - 1) : q[j] \in Elements(q))
    BY <1>1, <1>2, <1>3
  <2>2. /\ before \in Seq(Elements(q)) /\ Len(before) = IF 1 <= i - 1 THEN i - 1 - 1 + 1 ELSE 0
        /\ \A j \in 1..(i - 1 - 1 + 1) : before[j] = q[1 + j - 1]
    BY <2>1, SubSeqProperties
  <2> HIDE DEF before
  <2>3. i - 1 - 1 + 1 = i - 1 /\ (~(1 <= i - 1) => i - 1 = 0)
    BY <1>1, <1>2
  <2>4. \A j \in 1..(i - 1) : 1 + j - 1 = j
    BY <1>1, <1>2
  <2> QED BY <2>2, <2>3, <2>4
<1>5. /\ after \in Seq(Elements(q)) /\ Len(after) = Len(q) - i
      /\ \A j \in 1..(Len(q) - i) : after[j] = q[i + j]
  <2>1. i + 1 \in Int /\ Len(q) \in Int /\ (\A j \in (i + 1)..Len(q) : q[j] \in Elements(q))
    BY <1>1, <1>2, <1>3
  <2>2. /\ after \in Seq(Elements(q))
        /\ Len(after) = IF i + 1 <= Len(q) THEN Len(q) - (i + 1) + 1 ELSE 0
        /\ \A j \in 1..(Len(q) - (i + 1) + 1) : after[j] = q[i + 1 + j - 1]
    BY <2>1, SubSeqProperties
  <2> HIDE DEF after
  <2>3. Len(q) - (i + 1) + 1 = Len(q) - i /\ (~(i + 1 <= Len(q)) => Len(q) - i = 0)
    BY <1>1, <1>2
  <2>4. \A j \in 1..(Len(q) - i) : i + 1 + j - 1 = i + j
    BY <1>1, <1>2
  <2> QED BY <2>2, <2>3, <2>4
<1> HIDE DEF before, after
<1>6. r = before \o after
  BY DEF RemoveAt, before, after
<1> HIDE DEF r
<1>7. /\ r \in Seq(Elements(q)) /\ Len(r) = Len(q) - 1
      /\ \A j \in 1..(i - 1) : r[j] = q[j]
      /\ \A j \in i..(Len(q) - 1) : r[j] = q[j + 1]
  <2>1. /\ r \in Seq(Elements(q)) /\ Len(r) = Len(before) + Len(after)
        /\ \A j \in 1..(Len(before) + Len(after)) :
              r[j] = IF j <= Len(before) THEN before[j] ELSE after[j - Len(before)]
    BY <1>4, <1>5, <1>6, ConcatProperties
  <2>2. Len(before) + Len(after) = Len(q) - 1
    BY <1>1, <1>2, <1>4, <1>5
  <2>3. ASSUME NEW j \in 1..(i - 1) PROVE r[j] = q[j]
    <3>1. j \in 1..(Len(q) - 1) /\ j <= i - 1
      BY <1>1, <1>2
    <3> QED BY <2>1, <2>2, <3>1, <1>4
  <2>4. ASSUME NEW j \in i..(Len(q) - 1) PROVE r[j] = q[j + 1]
    <3>1. /\ j \in 1..(Len(q) - 1) /\ ~(j <= i - 1) /\ j - (i - 1) \in 1..(Len(q) - i)
          /\ i + (j - (i - 1)) = j + 1
      BY <1>1, <1>2
    <3> QED BY <2>1, <2>2, <3>1, <1>4, <1>5
  <2> QED BY <2>1, <2>2, <2>3, <2>4
<1>8. DOMAIN r = 1..(Len(q) - 1) /\ r \in Seq(Elements(r))
  BY <1>7, ElementsIs
<1>9. \A j \in DOMAIN r : \E k \in DOMAIN q : /\ k # i /\ r[j] = q[k]
                                              /\ k = IF j < i THEN j ELSE j + 1
  <2>1. TAKE j \in DOMAIN r
  <2>2. CASE j < i
    <3>1. j \in 1..(i - 1) /\ j \in 1..Len(q) /\ j # i
      BY <2>2, <1>1, <1>2, <1>8
    <3> QED BY <3>1, <2>2, <1>1, <1>7
  <2>3. CASE ~(j < i)
    <3>1. j \in i..(Len(q) - 1) /\ j + 1 \in 1..Len(q) /\ j + 1 # i
      BY <2>3, <1>1, <1>2, <1>8
    <3> QED BY <3>1, <2>3, <1>1, <1>7
  <2> QED BY <2>2, <2>3
<1>10. \A k \in DOMAIN q : k # i => \E j \in DOMAIN r : r[j] = q[k]
  <2>1. SUFFICES ASSUME NEW k \in DOMAIN q, k # i PROVE \E j \in DOMAIN r : r[j] = q[k]
    OBVIOUS
  <2>2. CASE k < i
    <3>1. k \in 1..(i - 1) /\ k \in 1..(Len(q) - 1)
      BY <2>2, <1>1, <1>2
    <3> QED BY <3>1, <1>7, <1>8
  <2>3. CASE ~(k < i)
    <3>1. k - 1 \in i..(Len(q) - 1) /\ k - 1 \in 1..(Len(q) - 1) /\ k - 1 + 1 = k
      BY <2>1, <2>3, <1>1, <1>2
    <3> QED BY <3>1, <1>7, <1>8
  <2> QED BY <2>2, <2>3
<1>11. OneEach(q) /\ \A j \in DOMAIN q : IsEntry(q[j])
  BY DEF IsQueue
<1>12. \A j \in DOMAIN r : IsEntry(r[j])
  BY <1>9, <1>11
<1>13. OneEach(r)
  <2>1. ASSUME NEW j \in DOMAIN r, NEW k \in DOMAIN r, r[j].path = r[k].path PROVE j = k
    <3>1. (IF j < i THEN j ELSE j + 1) = (IF k < i THEN k ELSE k + 1)
      BY <2>1, <1>9, <1>11 DEF OneEach
    <3> QED BY <3>1, <1>1, <1>2, <1>8
  <2> QED BY <2>1 DEF OneEach
<1>14. \A path, text : Has(r, path, text) <=> path # q[i].path /\ Has(q, path, text)
  BY <1>9, <1>10, <1>11 DEF Has, OneEach
<1> QED BY <1>8, <1>12, <1>13, <1>14 DEF IsQueue, r

LEMMA FirstOf ==
    ASSUME NEW T \in SUBSET Nat, T # {}
    PROVE  \E i \in T : \A j \in T : i <= j
<1> DEFINE R == OpToRel(<, Nat)
<1>1. IsWellFoundedOn(R, Nat)
  BY NatLessThanWellFounded
<1>2. \A i, j \in Nat : i < j => <<i, j>> \in R
  BY DEF OpToRel
<1> HIDE DEF R
<1>3. PICK i \in T : \A j \in T : ~(<<j, i>> \in R)
  BY <1>1, WFMin
<1>4. ASSUME NEW j \in T PROVE i <= j
  <2>1. i \in Nat /\ j \in Nat /\ ~(j < i)
    BY <1>2, <1>3
  <2> QED BY <2>1
<1> QED BY <1>4

LEMMA NothingQueued == IsQueue(<<>>) /\ \A path, text : ~Has(<<>>, path, text)
<1>1. DOMAIN <<>> = {}
  OBVIOUS
<1>2. <<>> \in Seq(Elements(<<>>))
  OBVIOUS
<1> QED BY <1>1, <1>2 DEF IsQueue, OneEach, Has

(* nextPrivateWrite: what runs next is healthy, and nothing but the writes of unhealthy
   files is dropped. *)
LEMMA NextWriteIs ==
    ASSUME NEW q, IsQueue(q), NEW unhealthy,
           NEW pick, pick = nextPrivateWrite(q, unhealthy)
    PROVE  \/ /\ pick.next = NoWrite /\ pick.queue = <<>>
              /\ \A path, text : Has(q, path, text) => path \in unhealthy
           \/ /\ IsEntry(pick.next) /\ pick.next.path \notin unhealthy
              /\ Has(q, pick.next.path, pick.next.text) /\ IsQueue(pick.queue)
              /\ \A path, text : Has(pick.queue, path, text)
                    => Has(q, path, text) /\ path # pick.next.path
              /\ \A path, text : /\ Has(q, path, text)
                                 /\ path \notin unhealthy /\ path # pick.next.path
                    => Has(pick.queue, path, text)
<1> DEFINE healthy == {i \in DOMAIN q : q[i].path \notin unhealthy}
           first == CHOOSE i \in healthy : \A j \in healthy : i <= j
<1>1. pick = IF healthy = {} THEN [next |-> NoWrite, queue |-> <<>>]
             ELSE [next |-> q[first], queue |-> SubSeq(q, first + 1, Len(q))]
  BY DEF nextPrivateWrite
<1> HIDE DEF first, healthy
<1>2. CASE healthy = {}
  <2>1. pick.next = NoWrite /\ pick.queue = <<>>
    BY <1>1, <1>2
  <2> QED BY <1>2, <2>1 DEF Has, healthy
<1>3. CASE healthy # {}
  <2>1. q \in Seq(Elements(q)) /\ DOMAIN q = 1..Len(q) /\ Len(q) \in Nat
        /\ OneEach(q) /\ \A i \in DOMAIN q : IsEntry(q[i])
    BY ElementsIs DEF IsQueue
  <2>2. healthy \in SUBSET Nat
    BY <2>1 DEF healthy
  <2>3. first \in healthy /\ \A j \in healthy : first <= j
    <3>1. \E i \in healthy : \A j \in healthy : i <= j
      BY <1>3, <2>2, FirstOf
    <3> QED BY <3>1 DEF first
  <2>4. pick.next = q[first] /\ pick.queue = SubSeq(q, first + 1, Len(q))
    <3>1. PICK cut : cut = SubSeq(q, first + 1, Len(q))
      OBVIOUS
    <3>2. pick = [next |-> q[first], queue |-> cut]
      BY <1>1, <1>3, <3>1
    <3>3. pick.next = q[first] /\ pick.queue = cut
      BY <3>2
    <3> QED BY <3>1, <3>3
  <2>5. first \in DOMAIN q /\ q[first].path \notin unhealthy
    BY <2>3 DEF healthy
  <2>6. \A j \in DOMAIN q : q[j].path \notin unhealthy => first <= j
    BY <2>3 DEF healthy
  <2>7. /\ IsQueue(pick.queue)
        /\ \A path, text : Has(pick.queue, path, text)
              <=> \E j \in DOMAIN q : j > first /\ q[j].path = path /\ q[j].text = text
    BY <2>4, <2>5, CuttingKeeps
  <2>8. IsEntry(pick.next) /\ Has(q, pick.next.path, pick.next.text)
    BY <2>1, <2>4, <2>5 DEF Has
  <2>9. ASSUME NEW path, NEW text, Has(pick.queue, path, text)
        PROVE  Has(q, path, text) /\ path # pick.next.path
    <3>1. PICK j \in DOMAIN q : j > first /\ q[j].path = path /\ q[j].text = text
      BY <2>7, <2>9
    <3>2. j # first
      BY <2>1, <2>5, <3>1
    <3> QED BY <2>1, <2>4, <2>5, <3>1, <3>2 DEF Has, OneEach
  <2>10. ASSUME NEW path, NEW text, Has(q, path, text),
                path \notin unhealthy, path # pick.next.path
         PROVE  Has(pick.queue, path, text)
    <3>1. PICK j \in DOMAIN q : q[j].path = path /\ q[j].text = text
      BY <2>10 DEF Has
    <3>2. first <= j /\ j # first
      BY <2>4, <2>6, <2>10, <3>1
    <3>3. j > first
      BY <2>1, <2>5, <3>2
    <3> QED BY <2>7, <3>1, <3>3
  <2> QED BY <2>4, <2>5, <2>7, <2>8, <2>9, <2>10
<1> QED BY <1>2, <1>3

Replaces(q, path, text) ==
    /\ IsQueue(q)
    /\ \A other, t : Has(q, other, t)
          <=> \/ other = path /\ t = text
              \/ other # path /\ Has(queue, other, t)

(* "The newest wins per file": a save of a file takes the place of the one waiting. *)
LEMMA QueueReplaces ==
    ASSUME IsQueue(queue), NEW path, NEW text, NEW entry, IsEntry(entry),
           entry.path = path, entry.text = text, NEW q, q = Append(withoutFile(path), entry)
    PROVE  Replaces(q, path, text)
<1> DEFINE older == {i \in DOMAIN queue : queue[i].path = path}
<1>1. /\ IsQueue(withoutFile(path))
      /\ \A other, t : Has(withoutFile(path), other, t)
             <=> other # path /\ Has(queue, other, t)
  <2>1. CASE older = {}
    <3>1. withoutFile(path) = queue
      BY <2>1 DEF withoutFile
    <3>2. \A i \in DOMAIN queue : queue[i].path # path
      BY <2>1
    <3> QED BY <3>1, <3>2 DEF Has
  <2>2. CASE older # {}
    <3>1. PICK i \in older : withoutFile(path) = RemoveAt(queue, i)
      BY <2>2 DEF withoutFile
    <3>2. i \in DOMAIN queue /\ queue[i].path = path
      BY <3>1
    <3> QED BY <3>1, <3>2, RemovingKeeps
  <2> QED BY <2>1, <2>2
<1>2. IsEntry(entry) /\ entry.path = path /\ entry.text = text
  OBVIOUS
<1>3. PICK w : w = withoutFile(path)
  OBVIOUS
<1>4. /\ IsQueue(w)
      /\ \A other, t : Has(w, other, t) <=> other # path /\ Has(queue, other, t)
  BY <1>1, <1>3
<1>5. \A i \in DOMAIN w : w[i].path # entry.path
  BY <1>2, <1>4 DEF Has
<1>6. /\ IsQueue(Append(w, entry))
      /\ \A other, t : Has(Append(w, entry), other, t)
             <=> Has(w, other, t) \/ (other = entry.path /\ t = entry.text)
  BY ONLY <1>2, <1>4, <1>5, AddingKeeps
<1>7. q = Append(w, entry)
  BY <1>3
<1> HIDE DEF older
<1> QED BY <1>2, <1>4, <1>6, <1>7 DEF Replaces

-----------------------------------------------------------------------------
(* The invariant. *)

IsWriter(w) ==
    w # Idle => /\ w = [path |-> w.path, text |-> w.text, retried |-> w.retried,
                        landed |-> w.landed]
                /\ w.path \in Paths /\ IsText(w.text)
                /\ w.retried \in BOOLEAN /\ w.landed \in BOOLEAN

IsPast ==
    /\ past = [meant |-> past.meant, crossed |-> past.crossed, vouched |-> past.vouched]
    /\ past.meant = [path \in Paths |-> past.meant[path]]

(* What every part of the state is. *)
Shape ==
    /\ HealthyPanel(panel) /\ HoldKnown(panel)
    /\ IsWriter(writer) /\ IsQueue(queue) /\ (writer = Idle => queue = <<>>)
    /\ disk = [path \in Paths |-> disk[path]] /\ \A path \in Paths : IsText(disk[path])
    /\ heard \in [Paths -> BOOLEAN]
    /\ orphan # Idle => orphan.path \in Paths /\ IsText(orphan.text)
    /\ theme \in Themes /\ IsPast

Waiting(path) == \E i \in DOMAIN queue : queue[i].path = path
Unwritten(path) == writer.path = path /\ ~writer.landed
(* Nothing of the file is on its way to the disk, and no save of it failed unsaid: a
   writer that has landed has only its exit to come, which takes the notice back. *)
Settled(path) ==
    /\ ~panel.making[path] /\ ~Waiting(path) /\ ~Unwritten(path) /\ orphan.path # path
    /\ writer.path = path \/ path \notin failed
    /\ path \notin past.vouched

(* A settled file whose last change was reported reads as what the panel holds. *)
DiskIsMemory(path) ==
    Settled(path) /\ ~heard[path] /\ ~panel.error[path]
        => Parsed(path, disk[path]) = Read(Memory(panel, path))

(* Unless the panel and the user met, what is furthest on its way, the save asked for,
   the write that waits, the one that runs, or the disk, is what was last meant. *)
LastIsMeant(path) ==
    path \notin past.crossed \cup past.vouched =>
        /\ panel.making[path] => past.meant[path] = Memory(panel, path)
        /\ ~panel.making[path] => \A i \in DOMAIN queue : queue[i].path = path
              => Parsed(path, queue[i].text) = Read(past.meant[path])
        /\ ~panel.making[path] /\ ~Waiting(path) /\ Unwritten(path)
              => Parsed(path, writer.text) = Read(past.meant[path])
        /\ Settled(path) /\ (heard[path] \/ ~panel.error[path])
              => Parsed(path, disk[path]).value = past.meant[path]

(* A save of a file that does not parse, and a writer that outlived its panel, are
   meetings: what they do is not held against the saves. *)
MetIsCrossed(path) ==
    /\ panel.error[path] /\ (panel.making[path] \/ Writing(path)) => path \in past.crossed
    /\ orphan.path = path => path \in past.crossed

FileInv(path) == DiskIsMemory(path) /\ LastIsMeant(path) /\ MetIsCrossed(path)

(* The inductive invariant. ChangesAreKept speaks of rest alone; every step on the way
   to it has to carry what rest will show. *)
IInv == Shape /\ \A path \in Paths : FileInv(path)

LEMMA WaitingHas ==
    /\ \A path : Waiting(path) <=> \E text : Has(queue, path, text)
    /\ \A path, text : (\A i \in DOMAIN queue : queue[i].path = path
                           => Parsed(path, queue[i].text) = Read(past.meant[path]))
                       /\ Has(queue, path, text)
             => Parsed(path, text) = Read(past.meant[path])
BY DEF Waiting, Has

LEMMA Nobody == Idle.path = "none" /\ "none" \notin Paths
BY DEF Idle, NoWrite, Paths

(* At rest the invariant says it. *)
LEMMA AtRestIsKept == IInv => ChangesAreKept
<1> SUFFICES ASSUME IInv, AtRest, NEW path \in Paths \ (failed \cup past.vouched),
                    ~panel.error[path]
             PROVE  /\ Parsed(path, disk[path]) = Read(Memory(panel, path))
                    /\ path \notin past.crossed => Memory(panel, path) = past.meant[path]
  BY DEF ChangesAreKept
<1>1. ~panel.making[path] /\ ~Waiting(path) /\ writer.path # path /\ orphan.path # path
      /\ ~heard[path]
  BY DEF AtRest, Underway, Writing, Waiting
<1>2. Settled(path)
  BY <1>1 DEF Settled, Unwritten
<1>3. FileInv(path)
  BY DEF IInv
<1>4. Parsed(path, disk[path]) = Read(Memory(panel, path))
  BY <1>1, <1>2, <1>3 DEF FileInv, DiskIsMemory
<1>5. path \notin past.crossed => Parsed(path, disk[path]).value = past.meant[path]
  BY <1>2, <1>3 DEF FileInv, LastIsMeant
<1> QED BY <1>4, <1>5, ReadOrError

-----------------------------------------------------------------------------
(* A file in a step. *)

(* A write that is started. *)
LEMMA RunningIs ==
    ASSUME NEW e, IsEntry(e), NEW w, w = With(e, "landed", FALSE)
    PROVE  w = [path |-> e.path, text |-> e.text, retried |-> e.retried, landed |-> FALSE]
<1>1. e = [path |-> e.path, text |-> e.text, retried |-> e.retried]
  BY DEF IsEntry
<1>2. DOMAIN e = {"path", "text", "retried"}
  BY <1>1
<1>3. w = [n \in {"path", "text", "retried", "landed"} |-> IF n = "landed" THEN FALSE ELSE e[n]]
  BY <1>2 DEF With
<1> QED BY <1>3

(* privateWriteFinished: a healthy write runs, or nothing healthy was waiting. *)
LEMMA FinishIs ==
    ASSUME NEW waiting, IsQueue(waiting), privateWriteFinished(waiting), HealthyPanel(panel)
    PROVE  /\ IsWriter(writer') /\ IsQueue(queue') /\ (writer' = Idle => queue' = <<>>)
           /\ writer' # Idle => /\ ~writer'.landed /\ writer'.path \in Paths
                                /\ ~panel.error[writer'.path]
                                /\ Has(waiting, writer'.path, writer'.text)
           /\ \A path, text : Has(queue', path, text) => Has(waiting, path, text)
           /\ \A path, text : Has(waiting, path, text)
                 => panel.error[path] \/ Has(queue', path, text) \/ writer'.path = path
<1> DEFINE unhealthy == unhealthyPaths(panel)
           pick == nextPrivateWrite(waiting, unhealthy)
<1>1. /\ queue' = pick.queue
      /\ IF pick.next = NoWrite THEN writer' = Idle ELSE writer' = With(pick.next, "landed", FALSE)
  BY DEF privateWriteFinished, runPrivateWrite
<1>2. \A path \in Paths : path \in unhealthy <=> panel.error[path]
  BY DEF unhealthyPaths
<1>3. \A path, text : Has(waiting, path, text) => path \in Paths
  BY DEF Has, IsQueue, IsEntry
<1>4. PICK c : c = pick
  OBVIOUS
<1> HIDE DEF unhealthy
<1>5. \/ /\ c.next = NoWrite /\ c.queue = <<>>
         /\ \A path, text : Has(waiting, path, text) => path \in unhealthy
      \/ /\ IsEntry(c.next) /\ c.next.path \notin unhealthy
         /\ Has(waiting, c.next.path, c.next.text) /\ IsQueue(c.queue)
         /\ \A path, text : Has(c.queue, path, text)
               => Has(waiting, path, text) /\ path # c.next.path
         /\ \A path, text : /\ Has(waiting, path, text)
                            /\ path \notin unhealthy /\ path # c.next.path
               => Has(c.queue, path, text)
  BY <1>4, NextWriteIs
<1> HIDE DEF pick
<1>6. CASE /\ c.next = NoWrite /\ c.queue = <<>>
           /\ \A path, text : Has(waiting, path, text) => path \in unhealthy
  <2>1. writer' = Idle /\ queue' = <<>>
    BY <1>1, <1>4, <1>6
  <2> QED BY <2>1, <1>2, <1>3, <1>6, NothingQueued DEF IsWriter
<1>7. CASE /\ IsEntry(c.next) /\ c.next.path \notin unhealthy
           /\ Has(waiting, c.next.path, c.next.text) /\ IsQueue(c.queue)
           /\ \A path, text : Has(c.queue, path, text)
                 => Has(waiting, path, text) /\ path # c.next.path
           /\ \A path, text : /\ Has(waiting, path, text)
                              /\ path \notin unhealthy /\ path # c.next.path
                 => Has(c.queue, path, text)
  <2>1. PICK e : e = c.next
    OBVIOUS
  <2>2. e # NoWrite /\ e.path \in Paths
    BY <1>7, <2>1, Nobody DEF IsEntry, Idle
  <2>3. writer' = With(e, "landed", FALSE) /\ queue' = c.queue
    BY <1>1, <1>4, <2>1, <2>2
  <2>4. PICK w : w = writer'
    OBVIOUS
  <2>5. w = [path |-> e.path, text |-> e.text, retried |-> e.retried, landed |-> FALSE]
    BY <1>7, <2>1, <2>3, <2>4, RunningIs
  <2>6. w.path = e.path /\ w.text = e.text /\ w.retried = e.retried /\ w.landed = FALSE
    BY <2>5
  <2>7. IsWriter(w) /\ w # Idle
    BY <1>7, <2>1, <2>2, <2>5, <2>6, Nobody DEF IsWriter, IsEntry
  <2>8. ~panel.error[w.path]
    BY <1>2, <1>7, <2>1, <2>2, <2>6
  <2>9. Has(waiting, w.path, w.text) /\ w.path \in Paths
    BY <1>7, <2>1, <2>2, <2>6
  <2>10. \A path, text : Has(waiting, path, text)
            => panel.error[path] \/ Has(queue', path, text) \/ w.path = path
    BY <1>2, <1>3, <1>7, <2>1, <2>3, <2>6
  <2>11. /\ IsQueue(queue')
         /\ \A path, text : Has(queue', path, text) => Has(waiting, path, text)
    BY <1>7, <2>3
  <2> QED BY <2>4, <2>6, <2>7, <2>8, <2>9, <2>10, <2>11
<1> QED BY <1>5, <1>6, <1>7

LEMMA PastSteps ==
    ASSUME IsPast, NEW meant, NEW crossed, NEW vouched,
           meant = [path \in Paths |-> meant[path]],
           past' = [meant |-> meant, crossed |-> crossed, vouched |-> vouched]
    PROVE  IsPast' /\ past'.meant = meant /\ past'.crossed = crossed /\ past'.vouched = vouched
BY DEF IsPast

(* Nothing of the file moved between the panel and the disk. *)
Unmoved(path) ==
    /\ disk'[path] = disk[path] /\ heard'[path] = heard[path]
    /\ orphan'.path = path <=> orphan.path = path
    /\ path \in failed' <=> path \in failed
    /\ writer'.path = path <=> writer.path = path
    /\ writer.path = path => writer'.text = writer.text /\ writer'.landed = writer.landed
    /\ \A text : Has(queue', path, text) <=> Has(queue, path, text)

(* The file in a step of the panel that reads another file or none. *)
Proceeds(path) ==
    /\ Carries(panel, panel', path) /\ panel'.error[path] = panel.error[path]
    /\ past'.meant[path] = Meant[path]
    /\ path \in past'.crossed <=> path \in past.crossed
    /\ path \in past'.vouched <=> path \in past.vouched

Meets(path) == \A text : Has(queue, path, text) => Parsed(path, text) = Read(past.meant[path])

LEMMA FileInvIs ==
    \A path : LastIsMeant(path)
       <=> (path \notin past.crossed \cup past.vouched =>
              /\ panel.making[path] => past.meant[path] = Memory(panel, path)
              /\ ~panel.making[path] => Meets(path)
              /\ ~panel.making[path] /\ ~Waiting(path) /\ Unwritten(path)
                    => Parsed(path, writer.text) = Read(past.meant[path])
              /\ Settled(path) /\ (heard[path] \/ ~panel.error[path])
                    => Parsed(path, disk[path]).value = past.meant[path])
<1>1. \A path : Meets(path) <=> \A i \in DOMAIN queue : queue[i].path = path
              => Parsed(path, queue[i].text) = Read(past.meant[path])
  BY DEF Meets, Has
<1> QED BY <1>1 DEF LastIsMeant

(* A step that moves nothing of a file carries its part of the invariant. *)
LEMMA FileSteps ==
    ASSUME NEW path \in Paths, FileInv(path), Unmoved(path), Proceeds(path),
           panel.making \in [Paths -> BOOLEAN], panel'.making \in [Paths -> BOOLEAN]
    PROVE  FileInv(path)'
<1>1. Waiting(path)' <=> Waiting(path)
  <2>1. /\ Waiting(path) <=> \E text : Has(queue, path, text)
        /\ Waiting(path)' <=> \E text : Has(queue', path, text)
    BY DEF Waiting, Has
  <2> QED BY <2>1 DEF Unmoved
<1>2. Unwritten(path)' <=> Unwritten(path)
  BY DEF Unwritten, Unmoved
<1>3. /\ panel.making[path] => panel'.making[path]
      /\ panel'.making[path] => panel.making[path] \/ ~panel.error[path]
      /\ ~panel'.making[path] /\ ~panel.error[path] => Memory(panel', path) = Memory(panel, path)
      /\ panel'.error[path] = panel.error[path]
  BY DEF Proceeds, Carries
<1>4. Settled(path)' => Settled(path)
  BY <1>1, <1>2, <1>3 DEF Settled, Unmoved, Proceeds
<1>5. past'.meant[path] = IF panel'.making[path] /\ (~panel.making[path] \/ ~Kept(path))
                          THEN Memory(panel', path) ELSE past.meant[path]
  BY DEF Proceeds, Meant
<1>6. DiskIsMemory(path)'
  BY <1>3, <1>4 DEF FileInv, DiskIsMemory, Unmoved, Settled
<1>7. path \in past'.crossed \cup past'.vouched <=> path \in past.crossed \cup past.vouched
  BY DEF Proceeds
<1>8. LastIsMeant(path)'
  <2>1. SUFFICES ASSUME path \notin past.crossed \cup past.vouched
                 PROVE  /\ panel'.making[path] => past'.meant[path] = Memory(panel', path)
                        /\ ~panel'.making[path] => Meets(path)'
                        /\ ~panel'.making[path] /\ ~Waiting(path)' /\ Unwritten(path)'
                              => Parsed(path, writer'.text) = Read(past'.meant[path])
                        /\ Settled(path)' /\ (heard'[path] \/ ~panel'.error[path])
                              => Parsed(path, disk'[path]).value = past'.meant[path]
    BY <1>7, FileInvIs DEF LastIsMeant, Meets, Has
  <2>2. /\ panel.making[path] => past.meant[path] = Memory(panel, path)
        /\ ~panel.making[path] => Meets(path)
        /\ ~panel.making[path] /\ ~Waiting(path) /\ Unwritten(path)
              => Parsed(path, writer.text) = Read(past.meant[path])
        /\ Settled(path) /\ (heard[path] \/ ~panel.error[path])
              => Parsed(path, disk[path]).value = past.meant[path]
    BY <2>1, FileInvIs DEF FileInv
  <2>3. CASE panel'.making[path]
    BY <2>2, <2>3, <1>5 DEF Kept, Settled
  <2>4. CASE ~panel'.making[path]
    <3>1. past'.meant[path] = past.meant[path] /\ ~panel.making[path]
      BY <2>4, <1>3, <1>5
    <3>2. Meets(path)'
      BY <2>2, <3>1 DEF Meets, Unmoved
    <3>3. ~Waiting(path)' /\ Unwritten(path)'
             => Parsed(path, writer'.text) = Read(past'.meant[path])
      BY <2>2, <3>1, <1>1, <1>2 DEF Unmoved, Unwritten
    <3>4. Settled(path)' /\ (heard'[path] \/ ~panel'.error[path])
             => Parsed(path, disk'[path]).value = past'.meant[path]
      BY <2>2, <3>1, <1>3, <1>4 DEF Unmoved
    <3> QED BY <2>4, <3>2, <3>3, <3>4
  <2> QED BY <2>3, <2>4
<1>9. MetIsCrossed(path)'
  <2>1. Writing(path)' <=> Writing(path)
    BY <1>1 DEF Writing, Waiting, Unmoved
  <2> QED BY <2>1, <1>3 DEF MetIsCrossed, FileInv, Unmoved, Proceeds
<1> QED BY <1>6, <1>8, <1>9 DEF FileInv

-----------------------------------------------------------------------------
(* The steps. *)

(* A step of the panel that reads no file and moves no write. *)
LEMMA PanelKeeps ==
    ASSUME IInv, Stepped(panel, panel'), past' = [past EXCEPT !.meant = Meant],
           UNCHANGED <<world, saves>>
    PROVE  IInv'
<1>1. Shape /\ HealthyPanel(panel) /\ HoldKnown(panel) /\ IsPast
  BY DEF IInv, Shape
<1>2. HealthyPanel(panel') /\ HoldKnown(panel') /\ panel'.error = panel.error
  BY <1>1 DEF Stepped
<1>3. past' = [meant |-> Meant, crossed |-> past.crossed, vouched |-> past.vouched]
  BY <1>1 DEF IsPast
<1>4. Meant = [path \in Paths |-> Meant[path]]
  BY DEF Meant
<1>5. IsPast' /\ past'.meant = Meant /\ past'.crossed = past.crossed
      /\ past'.vouched = past.vouched
  BY <1>1, <1>3, <1>4, PastSteps
<1>6. Shape'
  BY <1>1, <1>2, <1>5 DEF Shape, world, saves, IsWriter, IsQueue, OneEach, Elements
<1>7. ASSUME NEW path \in Paths PROVE FileInv(path)'
  <2>1. FileInv(path)
    BY DEF IInv
  <2>2. Unmoved(path)
    BY DEF Unmoved, world, saves, Has
  <2>3. Proceeds(path)
    BY <1>2, <1>5 DEF Proceeds, Stepped
  <2>4. panel.making \in [Paths -> BOOLEAN] /\ panel'.making \in [Paths -> BOOLEAN]
    BY <1>1, <1>2 DEF HealthyPanel
  <2> QED BY <2>1, <2>2, <2>3, <2>4, FileSteps
<1> QED BY <1>6, <1>7 DEF IInv

(* The user's changes. *)
LEMMA ChoosingKeeps ==
    ASSUME IInv, Chooses
    PROVE  IInv' /\ Stepped(panel, panel')
<1>1. HealthyPanel(panel) /\ theme \in Themes /\ HealthyOverrides(panel.overrides)
  BY DEF IInv, Shape, HealthyPanel
<1>2. ASSUME NEW next, HealthyOverrides(next), ~panel.error["config"],
             panel' = saveOverrides(applyEffectiveSettings([panel EXCEPT !.overrides = next]))
      PROVE  Stepped(panel, panel')
  BY <1>1, <1>2, CommitSteps
<1>3. ASSUME NEW c \in Picks, setOverride(c[1], c[2])
      PROVE  Stepped(panel, panel')
  <2>1. PICK next : next = withOverride(panel.overrides, c[1], c[2], panel.followTheme)
    OBVIOUS
  <2>2. HealthyOverrides(next)
    BY <1>1, <2>1, OverriddenIsHealthy
  <2> QED BY <1>2, <1>3, <2>1, <2>2 DEF setOverride, commitOverrides, Panel, configHealthy
<1>4. ASSUME NEW name \in DOMAIN CONFIG_FIELDS, clearOverride(name)
      PROVE  Stepped(panel, panel')
  <2>1. PICK next : next = Restrict(panel.overrides, DOMAIN panel.overrides \ {name})
    OBVIOUS
  <2>2. HealthyOverrides(next)
    BY <1>1, <2>1, RestrictedIsHealthy
  <2> QED BY <1>2, <1>4, <2>1, <2>2 DEF clearOverride, commitOverrides, Panel, configHealthy
<1>5. ASSUME clearAllOverrides
      PROVE  Stepped(panel, panel')
  <2>1. HealthyOverrides(NoKeys)
    BY DEF HealthyOverrides, IsKeys, NoKeys
  <2> QED BY <1>2, <1>5, <2>1 DEF clearAllOverrides, commitOverrides, Panel, configHealthy
<1>6. ASSUME NEW point \in Points, PlaceCard(point)
      PROVE  Stepped(panel, panel')
  BY <1>1, <1>6, PlaceSteps DEF PlaceCard, Panel
<1>7. Stepped(panel, panel')
  BY <1>3, <1>4, <1>5, <1>6 DEF Chooses
<1>8. past' = [past EXCEPT !.meant = Meant] /\ UNCHANGED <<world, saves>>
  BY DEF Chooses, setOverride, clearOverride, clearAllOverrides, PlaceCard, commitOverrides, Panel
<1> QED BY <1>7, <1>8, PanelKeeps

LEMMA OpeningKeeps ==
    ASSUME IInv, Open \/ Close
    PROVE  IInv' /\ Stepped(panel, panel')
<1>1. HealthyPanel(panel) /\ theme \in Themes /\ IsPast
  BY DEF IInv, Shape
<1>2. CASE Open
  <2>1. Stepped(panel, panel')
    BY <1>1, <1>2, OpenSteps DEF Open, Panel
  <2> QED BY <1>2, <2>1, PanelKeeps DEF Open, Panel
<1>3. CASE Close
  <2>1. PICK q : q = panel'
    OBVIOUS
  <2>2. q = [panel EXCEPT !.opened = FALSE]
    BY <1>3, <2>1 DEF Close
  <2>3. Stepped(panel, q) /\ q.making = panel.making
        /\ \A path : Memory(q, path) = Memory(panel, path)
    BY <1>1, <2>2, OpenedKeeps
  <2>4. Meant = past.meant
    <3>1. \A path \in Paths : ~(panel'.making[path] /\ (~panel.making[path] \/ ~Kept(path)))
      BY <2>1, <2>3 DEF Kept
    <3>2. Meant = [path \in Paths |-> past.meant[path]]
      BY <3>1 DEF Meant
    <3> QED BY <3>2, <1>1 DEF IsPast
  <2>5. past' = [past EXCEPT !.meant = Meant] /\ UNCHANGED <<world, saves>>
    <3>1. UNCHANGED <<world, saves, past>>
      BY <1>3 DEF Close
    <3> QED BY <1>1, <2>4, <3>1 DEF IsPast
  <2> QED BY <2>1, <2>3, <2>5, PanelKeeps
<1> QED BY <1>2, <1>3

LEMMA SwitchingKeeps ==
    ASSUME IInv, SwitchTheme
    PROVE  IInv'
<1>1. UNCHANGED <<panel, saves, disk, heard, orphan, past>> /\ theme' \in Themes
  BY DEF SwitchTheme
<1> QED BY <1>1 DEF IInv, Shape, saves, IsWriter, IsQueue, OneEach, Elements, IsPast, FileInv,
           DiskIsMemory, LastIsMeant, MetIsCrossed, Settled, Waiting, Unwritten, Writing

LEMMA StutteringKeeps ==
    ASSUME IInv, UNCHANGED vars
    PROVE  IInv'
BY DEF vars, IInv, Shape, IsWriter, IsQueue, OneEach, Elements, IsPast, FileInv,
       DiskIsMemory, LastIsMeant, MetIsCrossed, Settled, Waiting, Unwritten, Writing

(* A file edited by hand, whatever is on its way to it. *)
LEMMA EditingKeeps ==
    ASSUME IInv, Edits
    PROVE  IInv'
<1>1. Shape /\ IsPast
  BY DEF IInv, Shape
<1>2. PICK path \in Paths, text \in ConfigTexts \cup StateTexts : Edit(path, text)
  BY DEF Edits, Paths
<1>3. IsText(text)
  BY SettingsAssumption
<1>4. PICK met : met = IF Underway(path) THEN {path} ELSE {}
  OBVIOUS
<1>5. PICK meant : meant = [past.meant EXCEPT ![path] = Parsed(path, text).value]
  OBVIOUS
<1>6. meant = [p \in Paths |-> meant[p]] /\ meant[path] = Parsed(path, text).value
      /\ \A p \in Paths \ {path} : meant[p] = past.meant[p]
  BY <1>1, <1>5 DEF IsPast
<1>7. /\ IsPast' /\ past'.meant = meant /\ past'.vouched = past.vouched
      /\ past'.crossed = past.crossed \cup met
  BY <1>1, <1>2, <1>4, <1>5, <1>6, PastSteps DEF Edit
<1>8. UNCHANGED <<panel, saves, orphan, theme>>
  BY <1>2 DEF Edit
<1>9. /\ disk'[path] = text /\ heard'[path] /\ heard' \in [Paths -> BOOLEAN]
      /\ disk' = [p \in Paths |-> disk'[p]]
      /\ \A p \in Paths \ {path} : disk'[p] = disk[p] /\ heard'[p] = heard[p]
  BY <1>1, <1>2 DEF Edit, Shape
<1>10. \A p \in Paths : IsText(disk'[p])
  BY <1>1, <1>3, <1>9 DEF Shape
<1>11. Shape'
  BY <1>1, <1>7, <1>8, <1>9, <1>10 DEF Shape, saves, IsWriter, IsQueue, OneEach, Elements
<1>12. FileInv(path)'
  <2>1. FileInv(path)
    BY DEF IInv
  <2>2. DiskIsMemory(path)'
    BY <1>9 DEF DiskIsMemory
  <2>3. LastIsMeant(path)'
    <3>1. SUFFICES ASSUME path \notin past'.crossed \cup past'.vouched
                   PROVE  LastIsMeant(path)'
      BY DEF LastIsMeant
    <3>2. ~Underway(path)
      BY <3>1, <1>4, <1>7
    <3>3. ~panel'.making[path] /\ ~Waiting(path)' /\ ~Unwritten(path)'
      BY <3>2, <1>8 DEF Underway, Writing, Waiting, Unwritten, saves
    <3> QED BY <3>3, <1>6, <1>7, <1>9 DEF LastIsMeant, Waiting
  <2>4. MetIsCrossed(path)'
    BY <2>1, <1>7, <1>8 DEF FileInv, MetIsCrossed, Writing, saves
  <2> QED BY <2>2, <2>3, <2>4 DEF FileInv
<1>13. ASSUME NEW p \in Paths \ {path} PROVE FileInv(p)'
  <2>1. FileInv(p)
    BY DEF IInv
  <2>2. Unmoved(p)
    BY <1>8, <1>9 DEF Unmoved, saves, Has
  <2>3. Proceeds(p)
    <3>1. p \notin met
      BY <1>4
    <3>2. Meant[p] = past.meant[p]
      BY <1>8 DEF Meant, Kept
    <3> QED BY <3>1, <3>2, <1>6, <1>7, <1>8 DEF Proceeds, Carries
  <2>4. panel.making \in [Paths -> BOOLEAN] /\ panel'.making \in [Paths -> BOOLEAN]
    BY <1>1, <1>8 DEF HealthyPanel, Shape
  <2> QED BY <2>1, <2>2, <2>3, <2>4, FileSteps
<1> QED BY <1>11, <1>12, <1>13 DEF IInv

LEMMA LoadingPanel ==
    ASSUME Shape, NEW path \in Paths, NEW q, q = Loaded(panel, path)
    PROVE  Loads(panel, q, path)
<1>1. HealthyPanel(panel) /\ theme \in Themes /\ IsText(disk["config"]) /\ IsText(disk["state"])
  BY DEF Shape, Paths
<1>2. CASE path = "config"
  BY <1>1, <1>2, ConfigLoads
<1>3. CASE path = "state"
  BY <1>1, <1>3, StateLoads
<1> QED BY <1>2, <1>3 DEF Paths

(* A change the watch reports, of the user's or of the panel's own. *)
LEMMA ReloadingKeeps ==
    ASSUME IInv, NEW path \in Paths, Reload(path)
    PROVE  IInv' /\ Loads(panel, panel', path)
<1>1. Shape /\ HealthyPanel(panel) /\ HoldKnown(panel) /\ IsPast
  BY DEF IInv, Shape
<1>2. UNCHANGED <<saves, disk, orphan, theme>>
  BY DEF Reload
<1>3. Loads(panel, panel', path)
  <2>1. PICK q : q = panel'
    OBVIOUS
  <2>2. q = Loaded(panel, path)
    BY <2>1 DEF Reload
  <2> QED BY <2>1, <2>2, <1>1, LoadingPanel
<1>4. PICK met : met = IF \/ panel.making[path] /\ ~Kept(path)
                          \/ panel'.error[path] /\ Underway(path)
                       THEN {path} ELSE {}
  OBVIOUS
<1>5. past' = [meant |-> Meant, vouched |-> past.vouched, crossed |-> past.crossed \cup met]
  BY <1>4 DEF Reload
<1>6. Meant = [p \in Paths |-> Meant[p]]
  BY DEF Meant
<1>7. /\ IsPast' /\ past'.meant = Meant /\ past'.vouched = past.vouched
      /\ past'.crossed = past.crossed \cup met
  BY <1>1, <1>5, <1>6, PastSteps
<1>8. /\ heard[path] /\ ~heard'[path] /\ heard' \in [Paths -> BOOLEAN]
      /\ \A p \in Paths \ {path} : heard'[p] = heard[p]
  BY <1>1 DEF Reload, Shape
<1>9. HealthyPanel(panel') /\ HoldKnown(panel')
  BY <1>1, <1>3 DEF Loads
<1>10. Shape'
  BY <1>1, <1>2, <1>7, <1>8, <1>9 DEF Shape, saves, IsWriter, IsQueue, OneEach, Elements
<1>11. /\ panel.making \in [Paths -> BOOLEAN] /\ panel'.making \in [Paths -> BOOLEAN]
       /\ panel.error \in [Paths -> BOOLEAN] /\ panel'.error \in [Paths -> BOOLEAN]
  BY <1>1, <1>9 DEF HealthyPanel
<1>12. FileInv(path)'
  <2>1. FileInv(path)
    BY DEF IInv
  <2>2. /\ panel.making[path] => panel'.making[path]
        /\ panel'.making[path] => panel.making[path] \/ ~panel'.error[path]
        /\ ~panel'.error[path] /\ ~panel'.making[path]
              => Parsed(path, disk[path]) = Read(Memory(panel', path))
    BY <1>3 DEF Loads
  <2>3. DiskIsMemory(path)'
    BY <2>2, <1>2 DEF DiskIsMemory, Settled
  <2>4. /\ Waiting(path)' <=> Waiting(path)
        /\ Unwritten(path)' <=> Unwritten(path)
        /\ Writing(path)' <=> Writing(path)
        /\ Meets(path)' <=> \A text : Has(queue, path, text)
              => Parsed(path, text) = Read(past'.meant[path])
    BY <1>2 DEF saves, Waiting, Unwritten, Writing, Meets, Has
  <2>5. past'.meant[path] = IF panel'.making[path] /\ (~panel.making[path] \/ ~Kept(path))
                            THEN Memory(panel', path) ELSE past.meant[path]
    BY <1>7 DEF Meant
  <2>6. LastIsMeant(path)'
    <3>1. SUFFICES ASSUME path \notin past'.crossed \cup past'.vouched
                   PROVE  LastIsMeant(path)'
      BY DEF LastIsMeant
    <3>2. /\ path \notin past.crossed \cup past.vouched
          /\ ~(panel.making[path] /\ ~Kept(path))
          /\ ~(panel'.error[path] /\ Underway(path))
      BY <3>1, <1>4, <1>7
    <3>3. /\ panel.making[path] => past.meant[path] = Memory(panel, path)
          /\ ~panel.making[path] => Meets(path)
          /\ ~panel.making[path] /\ ~Waiting(path) /\ Unwritten(path)
                => Parsed(path, writer.text) = Read(past.meant[path])
          /\ Settled(path) /\ (heard[path] \/ ~panel.error[path])
                => Parsed(path, disk[path]).value = past.meant[path]
      BY <2>1, <3>2, FileInvIs DEF FileInv
    <3>4. /\ panel'.making[path] => past'.meant[path] = Memory(panel', path)
          /\ ~panel'.making[path] => Meets(path)'
          /\ ~panel'.making[path] /\ ~Waiting(path)' /\ Unwritten(path)'
                => Parsed(path, writer'.text) = Read(past'.meant[path])
          /\ Settled(path)' /\ (heard'[path] \/ ~panel'.error[path])
                => Parsed(path, disk'[path]).value = past'.meant[path]
      <4>1. CASE panel'.making[path]
        BY <4>1, <3>2, <3>3, <2>5 DEF Kept, Settled
      <4>2. CASE ~panel'.making[path]
        <5>1. past'.meant[path] = past.meant[path] /\ ~panel.making[path]
          BY <4>2, <2>2, <2>5
        <5>2. Meets(path)'
          BY <5>1, <3>3, <2>4 DEF Meets
        <5>3. ~Waiting(path)' /\ Unwritten(path)'
                 => Parsed(path, writer'.text) = Read(past'.meant[path])
          BY <5>1, <3>3, <2>4, <1>2 DEF saves
        <5>4. Settled(path)' => Settled(path)
          BY <5>1, <2>4, <1>2, <1>7 DEF Settled, saves
        <5>5. Settled(path)' => Parsed(path, disk'[path]).value = past'.meant[path]
          BY <5>1, <5>4, <3>3, <1>2, <1>8
        <5> QED BY <4>2, <5>2, <5>3, <5>5
      <4> QED BY <4>1, <4>2
    <3> QED BY <3>4, FileInvIs DEF LastIsMeant, Meets, Has
  <2>7. MetIsCrossed(path)'
    <3>1. panel'.error[path] /\ (panel'.making[path] \/ Writing(path)) => path \in met
      BY <2>2, <1>4 DEF Underway
    <3> QED BY <3>1, <2>1, <2>4, <1>2, <1>7 DEF FileInv, MetIsCrossed
  <2> QED BY <2>3, <2>6, <2>7 DEF FileInv
<1>13. ASSUME NEW p \in Paths \ {path} PROVE FileInv(p)'
  <2>1. FileInv(p)
    BY DEF IInv
  <2>2. Unmoved(p)
    BY <1>2, <1>8 DEF Unmoved, saves, Has
  <2>3. Proceeds(p)
    <3>1. p \notin met
      BY <1>4
    <3>2. Carries(panel, panel', p) /\ panel'.error[p] = panel.error[p]
      BY <1>3 DEF Loads
    <3> QED BY <3>1, <3>2, <1>7 DEF Proceeds
  <2> QED BY <2>1, <2>2, <2>3, <1>11, FileSteps
<1> QED BY <1>3, <1>10, <1>12, <1>13 DEF IInv

Made(p, path) == [p EXCEPT !.making[path] = FALSE]

LEMMA MadeIs ==
    ASSUME NEW p, HealthyPanel(p), NEW path \in Paths, NEW q, q = Made(p, path)
    PROVE  /\ HealthyPanel(q) /\ (HoldKnown(p) => HoldKnown(q)) /\ ~q.making[path]
           /\ q.error = p.error /\ q.held = p.held
           /\ \A other : Memory(q, other) = Memory(p, other)
           /\ \A other \in Paths \ {path} : q.making[other] = p.making[other]
<1>1. /\ q.overrides = p.overrides /\ q.geometry = p.geometry /\ q.error = p.error
      /\ q.settingsKnown = p.settingsKnown /\ q.stateKnown = p.stateKnown
      /\ q.followTheme = p.followTheme /\ q.held = p.held /\ q.opened = p.opened
      /\ q.making = [p.making EXCEPT ![path] = FALSE]
      /\ q = [overrides |-> q.overrides, geometry |-> q.geometry, error |-> q.error,
              settingsKnown |-> q.settingsKnown, stateKnown |-> q.stateKnown,
              followTheme |-> q.followTheme, held |-> q.held, opened |-> q.opened,
              making |-> q.making]
  BY DEF HealthyPanel, Made
<1>2. q.making \in [Paths -> BOOLEAN] /\ ~q.making[path]
      /\ \A other \in Paths \ {path} : q.making[other] = p.making[other]
  BY <1>1 DEF HealthyPanel
<1>3. HealthyPanel(q)
  BY <1>1, <1>2 DEF HealthyPanel
<1>4. HoldKnown(p) => HoldKnown(q)
  BY <1>1 DEF HoldKnown, HeldIsSaved
<1> QED BY <1>1, <1>2, <1>3, <1>4 DEF Memory

(* What a maker's exit writes reads back as what the panel holds by then. *)
LEMMA SerializedReads ==
    ASSUME NEW p, HealthyPanel(p), NEW path \in Paths, NEW text, text = Serialized(p, path)
    PROVE  IsText(text) /\ Parsed(path, text) = Read(Memory(p, path))
<1>1. HealthyOverrides(p.overrides) /\ HealthyState(p.geometry)
  BY DEF HealthyPanel
<1>2. CASE path = "config"
  BY <1>1, <1>2, OverridesReadBack DEF Serialized, Memory
<1>3. CASE path = "state"
  <2>1. text = serializeState(p.geometry) /\ Memory(p, path) = p.geometry
    BY <1>3 DEF Serialized, Memory
  <2> QED BY <1>1, <1>3, <2>1, StateReadsBack
<1> QED BY <1>2, <1>3 DEF Paths

(* writePrivateFile, with a writer at work and with none. *)
LEMMA WritingKeeps ==
    ASSUME Shape, NEW path \in Paths, NEW text, IsText(text), writePrivateFile(path, text)
    PROVE  /\ IsWriter(writer') /\ IsQueue(queue') /\ (writer' = Idle => queue' = <<>>)
           /\ writer' \notin {writer, Idle} => writer'.path = path
           /\ \A p \in Paths \ {path} :
                 /\ writer'.path = p <=> writer.path = p
                 /\ writer.path = p => writer' = writer
                 /\ \A t : Has(queue', p, t) <=> Has(queue, p, t)
           /\ \/ /\ \A t : Has(queue', path, t) <=> t = text
              \/ /\ queue' = <<>> /\ writer'.path = path /\ writer'.text = text
                 /\ ~writer'.landed
<1>1. PICK e : e = [path |-> path, text |-> text, retried |-> FALSE]
  OBVIOUS
<1>2. IsEntry(e) /\ e.path = path /\ e.text = text
  BY <1>1 DEF IsEntry
<1>3. IsWriter(writer) /\ IsQueue(queue) /\ (writer = Idle => queue = <<>>)
  BY DEF Shape
<1>4. CASE writer # Idle
  <2>1. queue' = Append(withoutFile(path), e) /\ writer' = writer
    BY <1>1, <1>4 DEF writePrivateFile
  <2>2. PICK q : q = queue'
    OBVIOUS
  <2>3. q = Append(withoutFile(path), e)
    BY <2>1, <2>2
  <2>4. IsQueue(queue) /\ IsEntry(e) /\ e.path = path /\ e.text = text
    BY <1>2, <1>3
  <2>5. Replaces(q, path, text)
    BY ONLY <2>3, <2>4, QueueReplaces
  <2> QED BY <1>3, <1>4, <2>1, <2>2, <2>5 DEF Replaces
<1>5. CASE writer = Idle
  <2>1. PICK w : w = writer'
    OBVIOUS
  <2>2. w = With(e, "landed", FALSE) /\ queue' = queue
    BY <1>1, <1>5, <2>1 DEF writePrivateFile, runPrivateWrite
  <2>3. w = [path |-> e.path, text |-> e.text, retried |-> e.retried, landed |-> FALSE]
    BY <1>2, <2>2, RunningIs
  <2>4. w.path = path /\ w.text = text /\ w.retried = e.retried /\ w.landed = FALSE
    BY <1>2, <2>3
  <2>5. IsWriter(w) /\ w # Idle
    BY <1>2, <2>3, <2>4, Nobody DEF IsWriter, IsEntry
  <2>6. \A p \in Paths : writer.path # p
    BY <1>5, Nobody
  <2> QED BY <1>3, <1>5, <2>1, <2>2, <2>4, <2>5, <2>6
<1> QED BY <1>4, <1>5

(* The directory is made: the save goes to the writer or the queue, or, for a file
   that stopped parsing meanwhile, nowhere. *)
LEMMA MakerExitKeeps ==
    ASSUME IInv, NEW path \in Paths, MakerExits(path)
    PROVE  IInv' /\ panel'.held = panel.held
           /\ (writer' \notin {writer, Idle} => ~panel.error[writer'.path])
<1>1. Shape /\ HealthyPanel(panel) /\ HoldKnown(panel) /\ IsPast
  BY DEF IInv, Shape
<1>2. /\ panel.making[path] /\ panel' = [panel EXCEPT !.making[path] = FALSE]
      /\ UNCHANGED <<failed, disk, heard, orphan, theme, past>>
  BY DEF MakerExits, world
<1>3. PICK q : q = panel'
  OBVIOUS
<1>21. q = Made(panel, path)
  BY <1>2, <1>3 DEF Made
<1>4. /\ HealthyPanel(q) /\ HoldKnown(q) /\ ~q.making[path]
      /\ q.error = panel.error /\ q.held = panel.held
      /\ \A other : Memory(q, other) = Memory(panel, other)
      /\ \A other \in Paths \ {path} : q.making[other] = panel.making[other]
  BY <1>1, <1>21, MadeIs
<1>5. PICK text : text = Serialized(panel, path)
  OBVIOUS
<1>6. IsText(text) /\ Parsed(path, text) = Read(Memory(panel, path))
  BY <1>1, <1>5, SerializedReads
<1>7. panel.error[path] => UNCHANGED <<writer, queue>>
  BY DEF MakerExits
<1>8. ~panel.error[path] => writePrivateFile(path, text)
  BY <1>5 DEF MakerExits
<1>9. /\ IsWriter(writer') /\ IsQueue(queue') /\ (writer' = Idle => queue' = <<>>)
      /\ writer' \notin {writer, Idle} => writer'.path = path /\ ~panel.error[path]
      /\ \A p \in Paths \ {path} :
            /\ writer'.path = p <=> writer.path = p
            /\ writer.path = p => writer'.text = writer.text /\ writer'.landed = writer.landed
            /\ \A t : Has(queue', p, t) <=> Has(queue, p, t)
  <2>1. CASE panel.error[path]
    BY <1>1, <1>7, <2>1 DEF Shape, IsWriter, IsQueue, OneEach, Elements
  <2>2. CASE ~panel.error[path]
    BY <1>1, <1>6, <1>8, <2>2, WritingKeeps
  <2> QED BY <2>1, <2>2
<1>10. Shape'
  BY <1>1, <1>2, <1>3, <1>4, <1>9 DEF Shape, IsPast
<1>11. panel.making \in [Paths -> BOOLEAN] /\ panel'.making \in [Paths -> BOOLEAN]
  BY <1>1, <1>3, <1>4 DEF HealthyPanel
<1>12. FileInv(path)'
  <2>1. FileInv(path)
    BY DEF IInv
  <2>2. CASE panel.error[path]
    <3>1. path \in past.crossed /\ panel'.error[path]
      BY <1>2, <1>3, <1>4, <2>1, <2>2 DEF FileInv, MetIsCrossed
    <3> QED BY <3>1, <1>2 DEF FileInv, DiskIsMemory, LastIsMeant, MetIsCrossed
  <2>3. CASE ~panel.error[path]
    <3>1. \/ \A t : Has(queue', path, t) <=> t = text
          \/ /\ queue' = <<>> /\ writer'.path = path /\ writer'.text = text
             /\ ~writer'.landed
      BY <1>1, <1>6, <1>8, <2>3, WritingKeeps
    <3>2. Waiting(path)' <=> \E t : Has(queue', path, t)
      BY DEF Waiting, Has
    <3>3. Waiting(path)' \/ Unwritten(path)'
      BY <3>1, <3>2 DEF Unwritten
    <3>4. ~Settled(path)'
      BY <3>3 DEF Settled
    <3>5. DiskIsMemory(path)'
      BY <3>4 DEF DiskIsMemory
    <3>6. LastIsMeant(path)'
      <4>1. SUFFICES ASSUME path \notin past.crossed \cup past.vouched
                     PROVE  LastIsMeant(path)'
        BY <1>2 DEF LastIsMeant
      <4>2. past'.meant[path] = Memory(panel, path)
        BY <4>1, <1>2, <2>1, FileInvIs DEF FileInv
      <4>3. Parsed(path, text) = Read(past'.meant[path])
        BY <4>2, <1>6
      <4>4. CASE \A t : Has(queue', path, t) <=> t = text
        <5>1. Waiting(path)'
          BY <4>4, <3>2
        <5>2. Meets(path)'
          BY <4>3, <4>4 DEF Meets
        <5> QED BY <5>1, <5>2, <3>4, <1>3, <1>4, FileInvIs DEF LastIsMeant, Meets, Has
      <4>5. CASE /\ queue' = <<>> /\ writer'.path = path /\ writer'.text = text
                 /\ ~writer'.landed
        <5>1. Meets(path)'
          BY <4>5, NothingQueued DEF Meets
        <5> QED BY <5>1, <4>3, <4>5, <3>4, <1>3, <1>4, FileInvIs DEF LastIsMeant, Meets, Has
      <4> QED BY <3>1, <4>4, <4>5
    <3>7. MetIsCrossed(path)'
      BY <1>2, <1>3, <1>4, <2>1, <2>3 DEF FileInv, MetIsCrossed
    <3> QED BY <3>5, <3>6, <3>7 DEF FileInv
  <2> QED BY <2>2, <2>3
<1>13. ASSUME NEW p \in Paths \ {path} PROVE FileInv(p)'
  <2>1. FileInv(p)
    BY DEF IInv
  <2>2. Unmoved(p)
    BY <1>2, <1>9 DEF Unmoved
  <2>3. Proceeds(p)
    <3>1. Kept(p) /\ panel'.making[p] = panel.making[p] /\ panel'.error[p] = panel.error[p]
      BY <1>3, <1>4 DEF Kept
    <3>2. Meant[p] = past.meant[p]
      BY <3>1, <1>11 DEF Meant
    <3> QED BY <3>1, <3>2, <1>2, <1>11 DEF Proceeds, Carries, Kept
  <2> QED BY <2>1, <2>2, <2>3, <1>11, FileSteps
<1> QED BY <1>3, <1>4, <1>9, <1>10, <1>12, <1>13 DEF IInv

(* The directory could not be made: the notice stands, until an older write that was
   under way takes it back. *)
LEMMA MakerFailureKeeps ==
    ASSUME IInv, NEW path \in Paths, MakerFails(path)
    PROVE  IInv' /\ panel'.held = panel.held
<1>1. Shape /\ HealthyPanel(panel) /\ HoldKnown(panel) /\ IsPast
  BY DEF IInv, Shape
<1>2. /\ panel.making[path] /\ panel' = [panel EXCEPT !.making[path] = FALSE]
      /\ UNCHANGED <<writer, queue, disk, heard, orphan, theme>>
      /\ failed' = IF panel.error[path] THEN failed ELSE failed \cup {path}
  BY DEF MakerFails, world
<1>3. PICK q : q = panel'
  OBVIOUS
<1>4. q = Made(panel, path)
  BY <1>2, <1>3 DEF Made
<1>5. /\ HealthyPanel(q) /\ HoldKnown(q) /\ ~q.making[path]
      /\ q.error = panel.error /\ q.held = panel.held
      /\ \A other : Memory(q, other) = Memory(panel, other)
      /\ \A other \in Paths \ {path} : q.making[other] = panel.making[other]
  BY <1>1, <1>4, MadeIs
<1>6. PICK spoken : spoken = IF Writing(path) THEN {path} ELSE {}
  OBVIOUS
<1>7. past' = [meant |-> past.meant, crossed |-> past.crossed, vouched |-> past.vouched \cup spoken]
  BY <1>1, <1>6 DEF MakerFails, IsPast
<1>8. /\ IsPast' /\ past'.meant = past.meant /\ past'.crossed = past.crossed
      /\ past'.vouched = past.vouched \cup spoken
  BY <1>1, <1>7, PastSteps DEF IsPast
<1>9. Shape'
  BY <1>1, <1>2, <1>3, <1>5, <1>8 DEF Shape, IsWriter, IsQueue, OneEach, Elements
<1>10. panel.making \in [Paths -> BOOLEAN] /\ panel'.making \in [Paths -> BOOLEAN]
  BY <1>1, <1>3, <1>5 DEF HealthyPanel
<1>11. FileInv(path)'
  <2>1. FileInv(path)
    BY DEF IInv
  <2>2. Writing(path)' <=> Writing(path)
    BY <1>2 DEF Writing
  <2>3. CASE panel.error[path]
    <3>1. path \in past.crossed /\ panel'.error[path]
      BY <1>2, <1>3, <1>5, <2>1, <2>3 DEF FileInv, MetIsCrossed
    <3> QED BY <3>1, <1>8 DEF FileInv, DiskIsMemory, LastIsMeant, MetIsCrossed
  <2>4. CASE ~panel.error[path]
    <3>1. path \in failed' /\ ~panel'.error[path]
      BY <1>2, <1>3, <1>5, <2>4
    <3>2. writer.path = path \/ Waiting(path) => path \in past'.vouched
      BY <1>6, <1>8 DEF Writing, Waiting
    <3>3. Waiting(path)' <=> Waiting(path)
      BY <1>2 DEF Waiting
    <3>4. ~Settled(path)'
      BY <3>1, <3>2, <1>2 DEF Settled
    <3>5. LastIsMeant(path)'
      <4>1. SUFFICES ASSUME path \notin past'.vouched
                     PROVE  LastIsMeant(path)'
        BY DEF LastIsMeant
      <4>2. ~Waiting(path) /\ writer.path # path
        BY <3>2, <4>1
      <4>3. ~Waiting(path)' /\ ~Unwritten(path)' /\ ~panel'.making[path]
        BY <4>2, <3>3, <1>2, <1>3, <1>5 DEF Unwritten
      <4> QED BY <4>3, <3>4 DEF LastIsMeant, Waiting
    <3>6. MetIsCrossed(path)'
      BY <3>1, <2>1, <1>2, <1>8 DEF FileInv, MetIsCrossed
    <3> QED BY <3>4, <3>5, <3>6 DEF FileInv, DiskIsMemory
  <2> QED BY <2>3, <2>4
<1>12. ASSUME NEW p \in Paths \ {path} PROVE FileInv(p)'
  <2>1. FileInv(p)
    BY DEF IInv
  <2>2. Unmoved(p)
    BY <1>2 DEF Unmoved, Has
  <2>3. Proceeds(p)
    <3>1. Kept(p) /\ panel'.making[p] = panel.making[p] /\ panel'.error[p] = panel.error[p]
          /\ p \notin spoken
      BY <1>3, <1>5, <1>6 DEF Kept
    <3>2. Meant[p] = past.meant[p]
      BY <3>1, <1>10 DEF Meant
    <3> QED BY <3>1, <3>2, <1>8, <1>10 DEF Proceeds, Carries, Kept
  <2> QED BY <2>1, <2>2, <2>3, <1>10, FileSteps
<1> QED BY <1>3, <1>5, <1>9, <1>11, <1>12 DEF IInv

LEMMA StillCarried ==
    ASSUME NEW path \in Paths, UNCHANGED <<panel, past>>, IsPast
    PROVE  Proceeds(path)
<1>1. Meant[path] = past.meant[path]
  BY DEF Meant, Kept
<1> QED BY <1>1 DEF Proceeds, Carries

LEMMA LandingKeeps ==
    ASSUME Shape, NEW entry, entry.path \in Paths, IsText(entry.text), Land(entry)
    PROVE  /\ disk'[entry.path] = entry.text /\ heard'[entry.path]
           /\ \A p \in Paths \ {entry.path} : disk'[p] = disk[p] /\ heard'[p] = heard[p]
           /\ disk' = [p \in Paths |-> disk'[p]] /\ \A p \in Paths : IsText(disk'[p])
           /\ heard' \in [Paths -> BOOLEAN]
<1>1. PICK path \in Paths : path = entry.path
  OBVIOUS
<1>2. PICK text : text = entry.text
  OBVIOUS
<1>3. disk' = [disk EXCEPT ![path] = text] /\ heard' = [heard EXCEPT ![path] = TRUE]
  BY <1>1, <1>2 DEF Land
<1>4. /\ disk = [p \in Paths |-> disk[p]] /\ \A p \in Paths : IsText(disk[p])
      /\ heard \in [Paths -> BOOLEAN]
  BY DEF Shape
<1>5. /\ disk'[path] = text /\ heard'[path]
      /\ \A p \in Paths \ {path} : disk'[p] = disk[p] /\ heard'[p] = heard[p]
      /\ disk' = [p \in Paths |-> disk'[p]] /\ heard' \in [Paths -> BOOLEAN]
  BY <1>3, <1>4
<1>6. \A p \in Paths : IsText(disk'[p])
  BY <1>2, <1>4, <1>5
<1> QED BY <1>1, <1>2, <1>5, <1>6

(* The write is on the disk. *)
LEMMA WriterLandingKeeps ==
    ASSUME IInv, WriterLands
    PROVE  IInv' /\ UNCHANGED panel /\ writer'.landed
<1>1. Shape /\ IsPast
  BY DEF IInv, Shape
<1>2. /\ writer # Idle /\ ~writer.landed /\ Land(writer)
      /\ UNCHANGED <<panel, queue, failed, orphan, theme, past>>
  BY DEF WriterLands
<1>3. PICK path \in Paths : path = writer.path
  BY <1>1, <1>2 DEF Shape, IsWriter
<1>4. PICK text : text = writer.text
  OBVIOUS
<1>5. IsText(text)
  BY <1>1, <1>2, <1>4 DEF Shape, IsWriter
<1>6. /\ disk'[path] = text /\ heard'[path]
      /\ \A p \in Paths \ {path} : disk'[p] = disk[p] /\ heard'[p] = heard[p]
      /\ disk' = [p \in Paths |-> disk'[p]] /\ \A p \in Paths : IsText(disk'[p])
      /\ heard' \in [Paths -> BOOLEAN]
  <2>1. PICK w : w = writer
    OBVIOUS
  <2>2. Land(w) /\ w.path \in Paths /\ IsText(w.text)
    BY <1>2, <1>3, <1>4, <1>5, <2>1
  <2> QED BY <1>1, <1>3, <1>4, <2>1, <2>2, LandingKeeps
<1>7. PICK w : w = writer'
  OBVIOUS
<1>8. w = [path |-> path, text |-> text, retried |-> writer.retried, landed |-> TRUE]
      /\ writer.retried \in BOOLEAN
  <2>1. PICK v : v = writer
    OBVIOUS
  <2>2. /\ v = [path |-> v.path, text |-> v.text, retried |-> v.retried, landed |-> v.landed]
        /\ v.retried \in BOOLEAN /\ v.path = path /\ v.text = text
    BY <1>1, <1>2, <1>3, <1>4, <2>1 DEF Shape, IsWriter
  <2>3. w = [v EXCEPT !.landed = TRUE]
    BY <1>7, <2>1 DEF WriterLands
  <2>4. w = [path |-> v.path, text |-> v.text, retried |-> v.retried, landed |-> TRUE]
    BY <2>2, <2>3
  <2> QED BY <2>1, <2>2, <2>4
<1>9. w.path = path /\ w.text = text /\ w.landed = TRUE /\ w.retried = writer.retried
  BY <1>8
<1>10. IsWriter(w) /\ w # Idle
  BY <1>5, <1>8, <1>9, Nobody DEF IsWriter
<1>11. Shape'
  BY <1>1, <1>2, <1>6, <1>7, <1>10 DEF Shape, IsQueue, OneEach, Elements, IsPast
<1>12. panel.making \in [Paths -> BOOLEAN] /\ panel'.making \in [Paths -> BOOLEAN]
  BY <1>1, <1>2 DEF HealthyPanel, Shape
<1>13. FileInv(path)'
  <2>1. FileInv(path)
    BY DEF IInv
  <2>2. DiskIsMemory(path)'
    BY <1>6 DEF DiskIsMemory
  <2>3. ~Unwritten(path)' /\ Unwritten(path)
    BY <1>2, <1>3, <1>7, <1>9 DEF Unwritten
  <2>4. (Waiting(path)' <=> Waiting(path)) /\ (Meets(path)' <=> Meets(path))
    BY <1>2 DEF Waiting, Meets, Has
  <2>5. LastIsMeant(path)'
    <3>1. SUFFICES ASSUME path \notin past.crossed \cup past.vouched
                   PROVE  LastIsMeant(path)'
      BY <1>2 DEF LastIsMeant
    <3>2. /\ panel.making[path] => past.meant[path] = Memory(panel, path)
          /\ ~panel.making[path] => Meets(path)
          /\ ~panel.making[path] /\ ~Waiting(path)
                => Parsed(path, text) = Read(past.meant[path])
      BY <3>1, <2>1, <2>3, <1>4, FileInvIs DEF FileInv
    <3>3. Settled(path)' => Parsed(path, disk'[path]).value = past'.meant[path]
      BY <3>2, <2>4, <1>2, <1>6, ReadOrError DEF Settled
    <3> QED BY <3>2, <3>3, <2>3, <2>4, <1>2, FileInvIs DEF LastIsMeant, Meets, Has
  <2>6. MetIsCrossed(path)'
    BY <2>1, <1>2, <1>3, <1>7, <1>9 DEF FileInv, MetIsCrossed, Writing
  <2> QED BY <2>2, <2>5, <2>6 DEF FileInv
<1>14. ASSUME NEW p \in Paths \ {path} PROVE FileInv(p)'
  <2>1. FileInv(p)
    BY DEF IInv
  <2>2. Unmoved(p)
    BY <1>2, <1>3, <1>6, <1>7, <1>9 DEF Unmoved, Has
  <2>3. Proceeds(p)
    BY <1>1, <1>2, StillCarried
  <2> QED BY <2>1, <2>2, <2>3, <1>12, FileSteps
<1> QED BY <1>2, <1>7, <1>9, <1>11, <1>13, <1>14 DEF IInv

(* So is that of a writer whose panel is gone. *)
LEMMA OrphanLandingKeeps ==
    ASSUME IInv, OrphanLands
    PROVE  IInv'
<1>1. Shape /\ IsPast
  BY DEF IInv, Shape
<1>2. /\ orphan # Idle /\ orphan' = Idle /\ Land(orphan)
      /\ UNCHANGED <<panel, writer, queue, failed, theme, past>>
  BY DEF OrphanLands, saves
<1>3. PICK w : w = orphan
  OBVIOUS
<1>4. w.path \in Paths /\ IsText(w.text) /\ Land(w)
  BY <1>1, <1>2, <1>3 DEF Shape
<1>5. /\ disk'[w.path] = w.text /\ heard'[w.path]
      /\ \A p \in Paths \ {w.path} : disk'[p] = disk[p] /\ heard'[p] = heard[p]
      /\ disk' = [p \in Paths |-> disk'[p]] /\ \A p \in Paths : IsText(disk'[p])
      /\ heard' \in [Paths -> BOOLEAN]
  BY <1>1, <1>4, LandingKeeps
<1>6. \A p \in Paths : orphan'.path # p
  BY <1>2, Nobody
<1>7. Shape'
  BY <1>1, <1>2, <1>5 DEF Shape, IsWriter, IsQueue, OneEach, Elements, IsPast
<1>8. panel.making \in [Paths -> BOOLEAN] /\ panel'.making \in [Paths -> BOOLEAN]
  BY <1>1, <1>2 DEF HealthyPanel, Shape
<1>9. FileInv(w.path)'
  <2>1. w.path \in past.crossed
    BY <1>3, <1>4 DEF IInv, FileInv, MetIsCrossed
  <2> QED BY <2>1, <1>2, <1>5 DEF FileInv, DiskIsMemory, LastIsMeant, MetIsCrossed
<1>10. ASSUME NEW p \in Paths \ {w.path} PROVE FileInv(p)'
  <2>1. FileInv(p)
    BY DEF IInv
  <2>2. Unmoved(p)
    BY <1>2, <1>3, <1>5, <1>6 DEF Unmoved, Has
  <2>3. Proceeds(p)
    BY <1>1, <1>2, StillCarried
  <2> QED BY <2>1, <2>2, <2>3, <1>8, FileSteps
<1> QED BY <1>4, <1>7, <1>9, <1>10 DEF IInv

(* The writer's end, of either kind: `waiting` is what the queue then is. *)
LEMMA FinishingKeeps ==
    ASSUME IInv, writer # Idle, NEW waiting, IsQueue(waiting), privateWriteFinished(waiting),
           UNCHANGED <<panel, world, past>>,
           \A path, text : Has(waiting, path, text)
              => \/ Has(queue, path, text)
                 \/ path = writer.path /\ text = writer.text /\ ~writer.landed /\ ~Waiting(path),
           \A path, text : Has(queue, path, text) => Has(waiting, path, text),
           \A path \in Paths : path \notin failed' /\ (\A text : ~Has(waiting, path, text))
              => ~Unwritten(path) /\ (writer.path = path \/ path \notin failed)
    PROVE  /\ IInv' /\ UNCHANGED panel
           /\ writer' \notin {writer, Idle} => ~panel.error[writer'.path]
<1>1. Shape /\ IsPast /\ HealthyPanel(panel)
  BY DEF IInv, Shape
<1>2. /\ IsWriter(writer') /\ IsQueue(queue') /\ (writer' = Idle => queue' = <<>>)
      /\ writer' # Idle => /\ ~writer'.landed /\ writer'.path \in Paths
                           /\ ~panel.error[writer'.path]
                           /\ Has(waiting, writer'.path, writer'.text)
      /\ \A path, text : Has(queue', path, text) => Has(waiting, path, text)
      /\ \A path, text : Has(waiting, path, text)
            => panel.error[path] \/ Has(queue', path, text) \/ writer'.path = path
  BY <1>1, FinishIs
<1>3. Shape'
  BY <1>1, <1>2 DEF Shape, world, IsPast
<1>4. ASSUME NEW path \in Paths PROVE FileInv(path)'
  <2>1. FileInv(path)
    BY DEF IInv
  <2>2. /\ Waiting(path) <=> \E text : Has(queue, path, text)
        /\ Waiting(path)' <=> \E text : Has(queue', path, text)
    BY DEF Waiting, Has
  <2>3. writer'.path = path => Unwritten(path)' /\ Has(waiting, path, writer'.text)
    BY <1>2, Nobody DEF Unwritten
  <2>4. Settled(path)' /\ ~panel.error[path] => Settled(path)
    <3>1. SUFFICES ASSUME Settled(path)', ~panel.error[path] PROVE Settled(path)
      OBVIOUS
    <3>2. ~Waiting(path)' /\ ~Unwritten(path)' /\ writer'.path # path
      BY <3>1, <2>3 DEF Settled
    <3>3. \A text : ~Has(waiting, path, text)
      BY <3>1, <3>2, <2>2, <1>2
    <3>4. path \notin failed'
      BY <3>1, <3>2 DEF Settled
    <3>5. ~Unwritten(path) /\ (writer.path = path \/ path \notin failed) /\ ~Waiting(path)
      BY <3>3, <3>4, <2>2
    <3>6. ~panel.making[path] /\ orphan.path # path /\ path \notin past.vouched
      BY <3>1 DEF Settled, world
    <3> QED BY <3>5, <3>6 DEF Settled
  <2>5. DiskIsMemory(path)'
    BY <2>1, <2>4 DEF FileInv, DiskIsMemory, world
  <2>6. panel.error[path] /\ (\E text : Has(waiting, path, text)) => path \in past.crossed
    <3>1. (\E text : Has(waiting, path, text)) => Writing(path)
      BY <2>2 DEF Writing, Waiting
    <3> QED BY <3>1, <2>1 DEF FileInv, MetIsCrossed
  <2>7. LastIsMeant(path)'
    <3>1. SUFFICES ASSUME path \notin past.crossed \cup past.vouched
                   PROVE  LastIsMeant(path)'
      BY DEF LastIsMeant
    <3>2. /\ panel.making[path] => past.meant[path] = Memory(panel, path)
          /\ ~panel.making[path] => Meets(path)
          /\ ~panel.making[path] /\ ~Waiting(path) /\ Unwritten(path)
                => Parsed(path, writer.text) = Read(past.meant[path])
          /\ Settled(path) /\ (heard[path] \/ ~panel.error[path])
                => Parsed(path, disk[path]).value = past.meant[path]
      BY <3>1, <2>1, FileInvIs DEF FileInv
    <3>3. ~panel.making[path] => \A text : Has(waiting, path, text)
             => Parsed(path, text) = Read(past.meant[path])
      BY <3>2 DEF Meets, Unwritten
    <3>4. ~panel.making[path] => Meets(path)'
      BY <3>3, <1>2 DEF Meets
    <3>5. ~panel.making[path] /\ Unwritten(path)'
             => Parsed(path, writer'.text) = Read(past.meant[path])
      BY <3>3, <2>3 DEF Unwritten
    <3>6. Settled(path)' /\ (heard[path] \/ ~panel.error[path])
             => Parsed(path, disk[path]).value = past.meant[path]
      <4>1. CASE ~panel.error[path]
        BY <4>1, <2>4, <3>2
      <4>2. CASE panel.error[path]
        <5>1. SUFFICES ASSUME Settled(path)', heard[path] PROVE Settled(path)
          BY <3>2, <4>2
        <5>2. \A text : ~Has(waiting, path, text)
          BY <4>2, <3>1, <2>6
        <5>3. ~Unwritten(path)' /\ writer'.path # path
          BY <5>1, <2>3 DEF Settled
        <5>4. path \notin failed'
          BY <5>1, <5>3 DEF Settled
        <5>5. ~Unwritten(path) /\ (writer.path = path \/ path \notin failed) /\ ~Waiting(path)
          BY <5>2, <5>4, <2>2
        <5>6. ~panel.making[path] /\ orphan.path # path /\ path \notin past.vouched
          BY <5>1 DEF Settled, world
        <5> QED BY <5>5, <5>6 DEF Settled
      <4> QED BY <4>1, <4>2
    <3>7. /\ panel'.making[path] => past'.meant[path] = Memory(panel', path)
          /\ ~panel'.making[path] => Meets(path)'
          /\ ~panel'.making[path] /\ ~Waiting(path)' /\ Unwritten(path)'
                => Parsed(path, writer'.text) = Read(past'.meant[path])
          /\ Settled(path)' /\ (heard'[path] \/ ~panel'.error[path])
                => Parsed(path, disk'[path]).value = past'.meant[path]
      BY <3>2, <3>4, <3>5, <3>6 DEF world
    <3> QED BY <3>7, FileInvIs DEF LastIsMeant, Meets, Has
  <2>8. MetIsCrossed(path)'
    <3>1. Writing(path)' => \E text : Has(waiting, path, text)
      BY <2>2, <2>3, <1>2 DEF Writing, Waiting
    <3> QED BY <3>1, <2>1, <2>6 DEF FileInv, MetIsCrossed, world
  <2> QED BY <2>5, <2>7, <2>8 DEF FileInv
<1> QED BY <1>2, <1>3, <1>4 DEF IInv

LEMMA WriterExitKeeps ==
    ASSUME IInv, WriterExits
    PROVE  /\ IInv' /\ UNCHANGED panel
           /\ writer' \notin {writer, Idle} => ~panel.error[writer'.path]
<1>1. IsQueue(queue)
  BY DEF IInv, Shape
<1>2. PICK q : q = queue
  OBVIOUS
<1>3. /\ writer # Idle /\ writer.landed /\ failed' = failed \ {writer.path}
      /\ privateWriteFinished(q) /\ UNCHANGED <<panel, world, past>>
  BY <1>2 DEF WriterExits
<1>4. \A path \in Paths : path \notin failed'
         => ~Unwritten(path) /\ (writer.path = path \/ path \notin failed)
  BY <1>3 DEF Unwritten
<1> QED BY <1>1, <1>2, <1>3, <1>4, FinishingKeeps

(* A failed write is queued once more, unless a newer one of its file waits. *)
LEMMA AgainIs ==
    ASSUME Shape, writer # Idle, NEW waiting, waiting = Again
    PROVE  /\ IsQueue(waiting)
           /\ \A path, text : Has(waiting, path, text)
                 <=> \/ Has(queue, path, text)
                     \/ /\ path = writer.path /\ text = writer.text
                        /\ ~Waiting(path) /\ ~writer.retried
<1>1. IsQueue(queue) /\ writer.path \in Paths /\ IsText(writer.text)
  BY DEF Shape, IsWriter
<1>2. hasNewer <=> Waiting(writer.path)
  BY DEF hasNewer, Waiting
<1>3. CASE hasNewer \/ writer.retried
  BY <1>1, <1>2, <1>3 DEF Again
<1>4. CASE ~(hasNewer \/ writer.retried)
  <2>1. PICK e : e = [path |-> writer.path, text |-> writer.text, retried |-> TRUE]
    OBVIOUS
  <2>2. IsEntry(e) /\ e.path = writer.path /\ e.text = writer.text
    BY <1>1, <2>1 DEF IsEntry
  <2>3. waiting = Append(queue, e)
    BY <1>4, <2>1 DEF Again
  <2>4. \A i \in DOMAIN queue : queue[i].path # e.path
    BY <1>4, <2>2 DEF hasNewer
  <2>5. PICK q : q = queue
    OBVIOUS
  <2>6. /\ IsQueue(Append(q, e))
        /\ \A path, text : Has(Append(q, e), path, text)
              <=> Has(q, path, text) \/ (path = e.path /\ text = e.text)
    BY ONLY <1>1, <2>2, <2>4, <2>5, AddingKeeps
  <2> QED BY <1>2, <1>4, <2>2, <2>3, <2>5, <2>6
<1> QED BY <1>3, <1>4

LEMMA WriterFailureKeeps ==
    ASSUME IInv, WriterFails
    PROVE  /\ IInv' /\ UNCHANGED panel
           /\ writer' \notin {writer, Idle} => ~panel.error[writer'.path]
<1>1. Shape
  BY DEF IInv
<1>2. PICK waiting : waiting = Again
  OBVIOUS
<1>3. /\ writer # Idle /\ ~writer.landed
      /\ failed' = IF writer.retried THEN failed \cup {writer.path} ELSE failed
      /\ privateWriteFinished(waiting) /\ UNCHANGED <<panel, world, past>>
  BY <1>2 DEF WriterFails
<1>4. /\ IsQueue(waiting)
      /\ \A path, text : Has(waiting, path, text)
            <=> \/ Has(queue, path, text)
                \/ /\ path = writer.path /\ text = writer.text
                   /\ ~Waiting(path) /\ ~writer.retried
  BY <1>1, <1>2, <1>3, AgainIs
<1>5. ASSUME NEW path \in Paths, path \notin failed', \A text : ~Has(waiting, path, text)
      PROVE  ~Unwritten(path) /\ (writer.path = path \/ path \notin failed)
  <2>1. path \notin failed /\ (writer.path = path => ~writer.retried)
    BY <1>3, <1>5
  <2>2. ~Waiting(path)
    BY <1>4, <1>5, WaitingHas
  <2>3. writer.path # path
    BY <1>4, <1>5, <2>1, <2>2
  <2> QED BY <2>1, <2>3 DEF Unwritten
<1> QED BY <1>3, <1>4, <1>5, FinishingKeeps

LEMMA StartKeeps ==
    ASSUME NEW path \in Paths, LoadedFrom(panel, path), writer = Idle, queue = <<>>, failed = {},
           ~heard[path], past.meant[path] = Memory(panel, path), past.vouched = {},
           orphan.path = path => path \in past.crossed
    PROVE  FileInv(path)
<1>1. writer.path # path /\ ~Waiting(path) /\ Meets(path) /\ ~Unwritten(path) /\ ~Writing(path)
  BY Nobody, NothingQueued DEF Waiting, Meets, Has, Unwritten, Writing
<1>2. DiskIsMemory(path)
  BY DEF DiskIsMemory, LoadedFrom, Settled
<1>3. LastIsMeant(path)
  <2>1. Settled(path) /\ (heard[path] \/ ~panel.error[path])
           => Parsed(path, disk[path]).value = past.meant[path]
    BY ReadOrError DEF LoadedFrom, Settled
  <2> QED BY <1>1, <2>1, FileInvIs
<1>4. MetIsCrossed(path)
  BY <1>1 DEF MetIsCrossed, LoadedFrom
<1> QED BY <1>2, <1>3, <1>4 DEF FileInv

LEMMA InitKeeps == Init => IInv
<1> SUFFICES ASSUME Init PROVE IInv
  OBVIOUS
<1>1. /\ disk = [path \in Paths |-> disk[path]] /\ \A path \in Paths : IsText(disk[path])
      /\ theme \in Themes
  <2>1. PICK pair \in FirstTexts : disk = [config |-> pair[1], state |-> pair[2]]
    BY DEF Init
  <2>2. IsText(pair[1]) /\ IsText(pair[2])
    BY SettingsAssumption
  <2> QED BY <2>1, <2>2 DEF Paths, Init
<1>2. PICK p \in Started : p = panel
  BY DEF Init
<1>3. HealthyPanel(p) /\ HoldKnown(p) /\ \A path \in Paths : LoadedFrom(p, path)
  BY <1>1, <1>2, StartedReads
<1>4. /\ writer = Idle /\ queue = <<>> /\ failed = {} /\ orphan = Idle
      /\ heard = [path \in Paths |-> FALSE]
      /\ past = [meant |-> [path \in Paths |-> Memory(panel, path)], crossed |-> {},
                 vouched |-> {}]
  BY DEF Init
<1>5. IsPast /\ past.vouched = {} /\ \A path \in Paths : past.meant[path] = Memory(panel, path)
  BY <1>4 DEF IsPast
<1>6. Shape
  BY <1>1, <1>2, <1>3, <1>4, <1>5, NothingQueued DEF Shape, IsWriter
<1>7. ASSUME NEW path \in Paths PROVE FileInv(path)
  <2>1. LoadedFrom(panel, path)
    BY <1>2, <1>3
  <2>2. orphan.path # path /\ ~heard[path]
    BY <1>4, Nobody
  <2> QED BY <2>1, <2>2, <1>4, <1>5, StartKeeps
<1> QED BY <1>6, <1>7 DEF IInv

(* The shell comes back: all that was on its way is gone, but for a writer that lives
   on; a theme state.json carries is held again. *)
LEMMA RestartKeeps ==
    ASSUME IInv, Restart
    PROVE  /\ IInv'
           /\ \A g : /\ Parsed("state", disk["state"]) = Read(g) /\ g.themeSnapshot # None
                     /\ ~panel'.followTheme
                 => panel'.held = g.themeSnapshot.v
<1>1. Shape /\ IsWriter(writer)
  BY DEF IInv, Shape
<1>2. /\ writer' = Idle /\ queue' = <<>> /\ failed' = {} /\ UNCHANGED <<disk, theme>>
      /\ heard' = [path \in Paths |-> FALSE] /\ panel' \in Started
      /\ orphan' \in {Idle} \cup IF writer # Idle /\ ~writer.landed THEN {writer} ELSE {}
  BY DEF Restart
<1>3. PICK p \in Started : p = panel'
  BY <1>2
<1>4. /\ HealthyPanel(p) /\ HoldKnown(p) /\ \A path \in Paths : LoadedFrom(p, path)
      /\ \A g : Parsed("state", disk["state"]) = Read(g) /\ g.themeSnapshot # None
                /\ ~p.followTheme
           => p.held = g.themeSnapshot.v
  <2>1. theme \in Themes /\ \A path \in Paths : IsText(disk[path])
    BY <1>1 DEF Shape
  <2> QED BY <2>1, StartedReads
<1>5. orphan' # Idle => orphan'.path \in Paths /\ IsText(orphan'.text)
  BY <1>1, <1>2 DEF IsWriter
<1>6. PICK crossed : crossed = IF orphan' = Idle THEN {} ELSE {orphan'.path}
  OBVIOUS
<1>7. past' = [meant |-> [path \in Paths |-> Memory(panel', path)], crossed |-> crossed,
               vouched |-> {}]
  BY <1>6 DEF Restart
<1>8. IsPast' /\ past'.vouched = {} /\ past'.crossed = crossed
      /\ \A path \in Paths : past'.meant[path] = Memory(panel', path)
  <2>1. PICK meant : meant = [path \in Paths |-> Memory(panel', path)]
    OBVIOUS
  <2>2. past' = [meant |-> meant, crossed |-> crossed, vouched |-> {}]
    BY <1>7, <2>1
  <2> QED BY <2>1, <2>2 DEF IsPast
<1>9. Shape'
  BY <1>1, <1>2, <1>3, <1>4, <1>5, <1>8, NothingQueued
     DEF Shape, IsWriter, IsQueue, OneEach, Elements
<1>10. ASSUME NEW path \in Paths PROVE FileInv(path)'
  <2>1. /\ panel'.making[path] => ~panel'.error[path]
        /\ ~panel'.error[path] /\ ~panel'.making[path]
              => Parsed(path, disk'[path]) = Read(Memory(panel', path))
    BY <1>2, <1>3, <1>4 DEF LoadedFrom
  <2>2. ~heard'[path] /\ (orphan'.path = path => path \in past'.crossed)
    BY <1>2, <1>6, <1>8, Nobody
  <2>3. writer'.path # path /\ ~Waiting(path)' /\ Meets(path)' /\ ~Unwritten(path)'
        /\ ~Writing(path)'
    BY <1>2, Nobody, NothingQueued DEF Waiting, Meets, Has, Unwritten, Writing
  <2>4. DiskIsMemory(path)' /\ MetIsCrossed(path)'
    BY <2>1, <2>2, <2>3 DEF DiskIsMemory, MetIsCrossed, Settled
  <2>5. LastIsMeant(path)'
    <3>1. ~heard'[path] /\ past'.meant[path] = Memory(panel', path)
      BY <2>2, <1>8
    <3>2. Settled(path)' /\ ~panel'.error[path]
             => Parsed(path, disk'[path]).value = past'.meant[path]
      BY <2>1, <3>1, ReadOrError DEF Settled
    <3> QED BY <2>3, <3>1, <3>2 DEF LastIsMeant, Meets, Has
  <2> QED BY <2>4, <2>5 DEF FileInv
<1> QED BY <1>3, <1>4, <1>9, <1>10 DEF IInv

HeldOn ==
    panel.held # "none" /\ ~panel.followTheme /\ ~panel'.followTheme => panel'.held = panel.held
StartsHealthy == writer' \notin {writer, Idle} /\ ~writer'.landed => ~panel.error[writer'.path]

(* Every step. *)
LEMMA NextKeeps ==
    ASSUME IInv, Next
    PROVE  IInv' /\ StartsHealthy /\ (Restart \/ HeldOn)
<1>1. CASE Chooses
  <2>1. writer' = writer
    BY <1>1 DEF Chooses, setOverride, clearOverride, clearAllOverrides, PlaceCard, saves
  <2> QED BY <1>1, <2>1, ChoosingKeeps DEF Stepped, HeldOn, StartsHealthy
<1>2. CASE Edits
  <2>1. writer' = writer /\ panel' = panel
    BY <1>2 DEF Edits, Edit, saves
  <2> QED BY <1>2, <2>1, EditingKeeps DEF HeldOn, StartsHealthy
<1>3. ASSUME NEW path \in Paths, Reload(path)
      PROVE  IInv' /\ StartsHealthy /\ HeldOn
  <2>1. writer' = writer
    BY <1>3 DEF Reload, saves
  <2> QED BY <1>3, <2>1, ReloadingKeeps DEF Loads, HeldOn, StartsHealthy
<1>4. ASSUME NEW path \in Paths, MakerExits(path)
      PROVE  IInv' /\ StartsHealthy /\ HeldOn
  BY <1>4, MakerExitKeeps DEF HeldOn, StartsHealthy
<1>5. ASSUME NEW path \in Paths, MakerFails(path)
      PROVE  IInv' /\ StartsHealthy /\ HeldOn
  <2>1. writer' = writer
    BY <1>5 DEF MakerFails
  <2> QED BY <1>5, <2>1, MakerFailureKeeps DEF HeldOn, StartsHealthy
<1>6. CASE WriterLands
  BY <1>6, WriterLandingKeeps DEF HeldOn, StartsHealthy
<1>7. CASE WriterExits
  BY <1>7, WriterExitKeeps DEF HeldOn, StartsHealthy
<1>8. CASE OrphanLands
  <2>1. writer' = writer /\ panel' = panel
    BY <1>8 DEF OrphanLands, saves
  <2> QED BY <1>8, <2>1, OrphanLandingKeeps DEF HeldOn, StartsHealthy
<1>9. CASE Open \/ Close
  <2>1. writer' = writer
    BY <1>9 DEF Open, Close, saves
  <2> QED BY <1>9, <2>1, OpeningKeeps DEF Stepped, HeldOn, StartsHealthy
<1>10. CASE SwitchTheme
  <2>1. writer' = writer /\ panel' = panel
    BY <1>10 DEF SwitchTheme, saves
  <2> QED BY <1>10, <2>1, SwitchingKeeps DEF HeldOn, StartsHealthy
<1>11. CASE Restart
  <2>1. writer' = Idle
    BY <1>11 DEF Restart
  <2> QED BY <1>11, <2>1, RestartKeeps DEF StartsHealthy
<1>12. CASE WriterFails
  BY <1>12, WriterFailureKeeps DEF HeldOn, StartsHealthy
<1> QED BY <1>1, <1>2, <1>3, <1>4, <1>5, <1>6, <1>7, <1>8, <1>9, <1>10, <1>11, <1>12
        DEF Next, Saves

Bounded == budget \in [Counted -> Nat]

(* A restart is counted, and so is known for one. *)
LEMMA BoundedKeeps ==
    /\ Init => Bounded
    /\ Bounded /\ [Next]_vars => Bounded'
    /\ Bounded /\ Restart => Restarts
<1>1. Init => Bounded
  BY SettingsAssumption DEF Init, Bounded
<1>2. ASSUME Bounded, [Next]_vars PROVE Bounded'
  <2>1. budget' = budget \/ \E what \in Counted : CanSpend(what) /\ Spend(what)
    BY <1>2 DEF Next, vars, Counted, Chooses, Edits, Saves, setOverride, clearOverride,
       clearAllOverrides, PlaceCard, Edit, Reload, MakerExits, WriterLands, WriterExits,
       OrphanLands, Open, Close, SwitchTheme, Restart, MakerFails, WriterFails
  <2>2. ASSUME NEW what \in Counted, CanSpend(what), Spend(what) PROVE Bounded'
    BY <1>2, <2>2 DEF Bounded, CanSpend, Spend
  <2> QED BY <1>2, <2>1, <2>2 DEF Bounded
<1>3. ASSUME Bounded, Restart PROVE Restarts
  <2>1. budget \in [Counted -> Nat] /\ "restarts" \in Counted
    BY <1>3 DEF Bounded, Counted
  <2>2. budget' = [budget EXCEPT !["restarts"] = budget["restarts"] - 1]
    BY <1>3 DEF Restart, Spend
  <2>3. budget'["restarts"] = budget["restarts"] - 1
    BY <2>1, <2>2
  <2>4. budget["restarts"] \in Nat
    BY <2>1
  <2> QED BY <2>3, <2>4 DEF Restarts
<1> QED BY <1>1, <1>2, <1>3

(* At rest with a snapshot saved, state.json is what the panel holds: the theme comes
   back with the shell. *)
LEMMA HoldSurvivesRestart ==
    ASSUME IInv, Restart, Carried
    PROVE  HeldOn
<1> SUFFICES ASSUME panel.held # "none", ~panel.followTheme, ~panel'.followTheme
             PROVE  panel'.held = panel.held
  BY DEF HeldOn
<1>1. /\ AtRest /\ failed = {} /\ past.vouched = {} /\ unhealthyPaths(panel) = {}
      /\ panel.held \notin Uncarried
      /\ Parsed("state", disk["state"]).value.themeSnapshot \in {None, Plain(panel.held)}
  BY DEF Carried
<1>2. HealthyPanel(panel) /\ HoldKnown(panel) /\ "state" \in Paths
  BY DEF IInv, Shape, Paths
<1>3. Parsed("state", disk["state"]) = Read(panel.geometry)
  <2>1. ~panel.error["state"]
    BY <1>1, <1>2 DEF unhealthyPaths
  <2>2. ~panel.making["state"] /\ ~Waiting("state") /\ writer.path # "state"
        /\ orphan.path # "state" /\ ~heard["state"]
    BY <1>1, <1>2 DEF AtRest, Underway, Writing, Waiting
  <2>3. Settled("state")
    BY <1>1, <2>2 DEF Settled, Unwritten
  <2>4. DiskIsMemory("state")
    BY <1>2 DEF IInv, FileInv
  <2> QED BY <2>1, <2>2, <2>3, <2>4 DEF DiskIsMemory, Memory
<1>4. panel.geometry.themeSnapshot # None
  <2>1. panel.settingsKnown /\ panel.stateKnown
    BY <1>2 DEF HoldKnown
  <2> QED BY <2>1, <1>1, <1>2 DEF HoldKnown, HeldIsSaved
<1>5. panel.geometry.themeSnapshot = Plain(panel.held)
  BY <1>1, <1>3, <1>4, ReadOrError
<1>6. panel'.held = panel.geometry.themeSnapshot.v
  BY <1>3, <1>4, RestartKeeps
<1> QED BY <1>5, <1>6 DEF Plain

-----------------------------------------------------------------------------
(* What holds. *)

(* The inductive invariant holds of every panel. *)
THEOREM SettingsKept == Spec => []IInv
<1>1. IInv /\ [Next]_vars => IInv'
  BY NextKeeps, StutteringKeeps
<1> QED BY InitKeeps, <1>1, PTL DEF Spec

(* "The newest wins per file": whatever was retried, queued, overtaken, edited or read
   back on the way, a file at rest reads as what the panel holds, and as what was last
   meant unless panel and user met. *)
THEOREM ChangesKept == Spec => []ChangesAreKept
BY SettingsKept, AtRestIsKept, PTL

(* No write, fresh, queued or retried, starts on a file known not to parse. *)
THEOREM MalformedKept == Spec => MalformedIsKept
<1>1. IInv /\ [Next]_vars =>
        [ writer' \notin {writer, Idle} /\ ~writer'.landed => ~panel.error[writer'.path] ]_vars
  BY NextKeeps DEF StartsHealthy
<1> QED BY <1>1, SettingsKept, PTL DEF Spec, MalformedIsKept

(* With following off no switch, reload, open, save or restart changes the look. *)
THEOREM HeldThemeKept == Spec => HeldThemeIsKept
<1>1. Init => Bounded
  BY BoundedKeeps
<1>2. Bounded /\ [Next]_vars => Bounded'
  BY BoundedKeeps
<1>3. IInv /\ Bounded /\ [Next]_vars =>
        [ /\ panel.held # "none" /\ ~panel.followTheme /\ ~panel'.followTheme
          /\ Restarts => Carried
          => panel'.held = panel.held ]_vars
  <2>1. ASSUME IInv, Bounded, Next, Restarts => Carried
        PROVE  HeldOn
    <3>1. CASE Restart
      BY <2>1, <3>1, BoundedKeeps, HoldSurvivesRestart
    <3> QED BY <2>1, <3>1, NextKeeps
  <2> QED BY <2>1 DEF HeldOn
<1> QED BY <1>1, <1>2, <1>3, SettingsKept, PTL DEF Spec, HeldThemeIsKept

===============================================================================
