--------------------------- MODULE MCPanelSettings ---------------------------
(***************************************************************************)
(* PanelSettings with a field of each kind, one theme state.json carries   *)
(* and one it does not, and texts as a user, a newer OSKar or a broken     *)
(* editor leaves them.                                                     *)
(***************************************************************************)
EXTENDS PanelSettings, TLC

Raw(form, v) == [form |-> form, v |-> v]

MCPicks ==
    { <<"followTheme", Plain("off")>>, <<"followTheme", Plain("on")>>,
      <<"accentColor", Plain("red")>> }

Custom ==
    Json("follow_theme" :> Raw("quoted", "off") @@ "accentColor" :> Plain("red")
         @@ "accent_color" :> Raw("padded", "blue") @@ "future" :> Raw("odd", "kept")
         @@ "sound" :> Raw("quoted", "off") @@ "__proto__" :> Plain("lost"))
Smuggled == Json("accent_color" :> Plain("red") @@ "accentColor" :> Raw("odd", "-20"))
Placed ==
    Json("center" :> Plain("left") @@ "theme_snapshot" :> Raw("odd", "gone")
         @@ "future" :> Plain("kept"))

MCConfigTexts == {Missing, Custom, Smuggled}
MCStateTexts == {Missing, Broken, Placed}

MCFirstTexts == {<<Missing, Missing>>, <<Custom, Placed>>}

Budget(changes, moves, opens, themes, edits, failures, restarts) ==
    [changes |-> changes, moves |-> moves, opens |-> opens, themes |-> themes,
     edits |-> edits, failures |-> failures, restarts |-> restarts]
MCBudgets ==
    { Budget(2, 0, 0, 0, 0, 1, 0), Budget(1, 0, 0, 0, 1, 1, 0), Budget(1, 1, 0, 0, 0, 2, 0),
      Budget(1, 0, 1, 1, 1, 0, 0), Budget(1, 0, 1, 1, 0, 0, 1),
      Budget(1, 1, 1, 0, 0, 1, 1) }
=============================================================================
