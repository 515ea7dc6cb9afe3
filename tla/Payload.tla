------------------------------ MODULE Payload ------------------------------
(***************************************************************************)
(* The JSON payloads of src/src/model: a payload is partial, a field is    *)
(* left out by the rule its skip_serializing_if names, and the device      *)
(* keeps what it has for a field that is left out.                         *)
(*                                                                         *)
(* A value is Unset (Option::None), Zero (the zero value of its type: an   *)
(* empty string, 0, false, an empty list or the first variant; an Option   *)
(* may hold it too) or another one.                                        *)
(***************************************************************************)
CONSTANTS
    Unset,   \* Option::None, and JSON's null
    Zero     \* the zero value of a type

ASSUME PayloadAssumption == Unset # Zero

\* The skip rules: is_zero and Vec::is_empty, Option::is_none, is_unset_name,
\* and none at all.
Omits(rule, value) ==
    CASE rule = "is_zero"       -> value = Zero
      [] rule = "is_none"       -> value = Unset
      [] rule = "is_unset_name" -> value \in {Unset, Zero}
      [] rule = "never"         -> FALSE

\* The Default of a field: Options are None.
DefaultOf(rule) == IF rule = "is_zero" THEN Zero ELSE Unset

\* serde_json::to_vec: the fields that are not left out.
Serialized(rules, value) ==
    [f \in {g \in DOMAIN rules : ~Omits(rules[g], value[g])} |-> value[f]]

\* The firmware (external) reads a payload: what is not in it stays.
Merged(device, payload) ==
    [f \in DOMAIN device \cup DOMAIN payload |->
        IF f \in DOMAIN payload THEN payload[f] ELSE device[f]]

---------------------------------------------------------------------------
(* Settings. *)

\* Mutant of SettingsRules: ABRI as a plain bool.
SettingsRulesPlainBool ==
    [CHCOL |-> "is_zero", CBCOL |-> "is_zero", WDCA |-> "is_zero", WDCI |-> "is_zero",
     TIME_COL |-> "is_zero", DATE_COL |-> "is_zero", BRI |-> "is_none",
     ABRI |-> "is_zero", ATIME |-> "is_zero", TEFF |-> "is_none",
     TFORMAT |-> "is_unset_name", OVERLAY |-> "never"]

\* The fields the controller manages, and ATIME, TEFF and TFORMAT for those it
\* does not, by their rule.
SettingsRules ==
    [CHCOL |-> "is_zero", CBCOL |-> "is_zero", WDCA |-> "is_zero", WDCI |-> "is_zero",
     TIME_COL |-> "is_zero", DATE_COL |-> "is_zero", BRI |-> "is_none",
     ABRI |-> "is_none", ATIME |-> "is_zero", TEFF |-> "is_none",
     TFORMAT |-> "is_unset_name", OVERLAY |-> "never"]

\* The controller leaves these to the device.
Unmanaged == {"ATIME", "TEFF", "TFORMAT"}

SettingsDefault == [f \in DOMAIN SettingsRules |-> DefaultOf(SettingsRules[f])]

\* ENERGY_SAVING_BRIGHTNESS
SavingBrightness == "1"

ASSUME BuildAssumption == {Unset, Zero} \cap {SavingBrightness, "true"} = {}

\* Builder::build, for the theme of the mode.
Build(accent, content, overlay, saving) ==
    [SettingsDefault EXCEPT
        !.CHCOL = accent, !.WDCA = accent,
        !.CBCOL = content, !.WDCI = content, !.TIME_COL = content, !.DATE_COL = content,
        !.OVERLAY = overlay,
        !.BRI = IF saving THEN SavingBrightness ELSE Unset,
        !.ABRI = IF saving THEN Zero ELSE "true"]
=============================================================================
