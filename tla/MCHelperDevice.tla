--------------------------- MODULE MCHelperDevice ---------------------------
(***************************************************************************)
(* HelperDevice for TLC: a letter and a modifier position; a two-group map *)
(* in which the position carries a different modifier per group (RALT      *)
(* under us,ua), and a one-group map to swap to.                           *)
(***************************************************************************)
EXTENDS HelperDevice, TLC

MCCodes == {"AC01", "RALT"}
MCBits == {"Mod1", "Mod5"}
MCKeymaps == {"us_ua", "us"}
MCGroups == [m \in MCKeymaps |-> IF m = "us_ua" THEN 2 ELSE 1]
MCModBits ==
    [m \in MCKeymaps |->
       [k \in MCCodes |->
          CASE k = "AC01" -> <<>>
            [] k = "RALT" /\ m = "us_ua" -> <<{"Mod1"}, {"Mod5"}>>
            [] k = "RALT" /\ m = "us" -> <<{"Mod1"}>>]]

(* A third map whose text has no keycodes and no facts: the device is told of
   it, and takes no key until the next one. *)
MCKeymapsBlank == MCKeymaps \cup {"blank"}
MCGroupsBlank == [m \in MCKeymapsBlank |-> IF m = "blank" THEN 0 ELSE MCGroups[m]]
MCModBitsBlank ==
    [m \in MCKeymapsBlank |-> IF m = "blank" THEN [k \in MCCodes |-> <<>>] ELSE MCModBits[m]]

ConnSymmetry == Permutations(Conns)
=============================================================================
