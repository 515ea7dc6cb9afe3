------------------------- MODULE TestNotification -------------------------
(***************************************************************************)
(* The --test-notification-* flags (src/src/cli/mod.rs) and the payload    *)
(* they describe (src/src/model/notification.rs).  There is one flag for   *)
(* each type of field, and its name is written without the prefix: a       *)
(* duration stands for the integers, rainbow for the booleans, icon for    *)
(* the strings, text-case for the modes, center for the optional booleans  *)
(* and overlay for the names.                                              *)
(***************************************************************************)
EXTENDS Cli, Payload

\* Mutant of NotificationRules: repeat as a plain integer.
NotificationRulesPlain ==
    [text |-> "is_none", icon |-> "is_zero", duration |-> "is_zero", rainbow |-> "is_zero",
     text_case |-> "is_zero", center |-> "is_none", repeat |-> "is_zero",
     overlay |-> "is_unset_name"]

\* The fields of AppContent and Notification, by their rule.
NotificationRules ==
    [text |-> "is_none", icon |-> "is_zero", duration |-> "is_zero", rainbow |-> "is_zero",
     text_case |-> "is_zero", center |-> "is_none", repeat |-> "is_none",
     overlay |-> "is_unset_name"]

FlagOf(field) == IF field = "text_case" THEN "text-case" ELSE field

NotificationFlags == {FlagOf(field) : field \in DOMAIN NotificationRules}

\* A value of its type, or the zero of that type.
Typed(value, zero) == IF value = zero THEN Zero ELSE value

\* parse_bool_option: the two words, exactly.
ParseBoolOption(text) ==
    CASE text = <<"t", "r", "u", "e">>      -> TRUE
      [] text = <<"f", "a", "l", "s", "e">> -> Zero
      [] OTHER                              -> Unset

\* parse_int_option
ParseIntOption(text) ==
    IF ParseI64(text) = Invalid THEN Unset ELSE Typed(ParseI64(text), 0)

\* The field of a flag that was given with this text: the value parsers of the
\* flags, and what notification() makes of their results.
FieldValue(flag, text) ==
    CASE flag \in {"text", "icon", "overlay"}   -> Typed(text, <<>>)
      [] flag \in {"duration", "text-case"}     -> Typed(ParseGoInt(text), 0)
      [] flag = "rainbow"                       -> Typed(ParseGoBool(text), FALSE)
      [] flag = "center"                        -> ParseBoolOption(text)
      [] flag = "repeat"                        -> ParseIntOption(text)

\* TestNotificationArgs::notification, when some flag was given, an empty value
\* included.  "given" has the texts of the flags that were.
Notification(given) ==
    [field \in DOMAIN NotificationRules |->
        IF FlagOf(field) \in DOMAIN given
        THEN FieldValue(FlagOf(field), given[FlagOf(field)])
        ELSE DefaultOf(NotificationRules[field])]

\* What the device shows for a field that is not in the message (external).
DeviceDefaults ==
    [[field \in DOMAIN NotificationRules |-> Zero] EXCEPT !.center = TRUE, !.repeat = -1]

---------------------------------------------------------------------------

\* Every field the device shows is the one that was asked for, the zero of its
\* type included; the others are the device's own.
ShownAsGiven(given) ==
    DOMAIN given \cap NotificationFlags # {} =>
        LET shown == Merged(DeviceDefaults, Serialized(NotificationRules, Notification(given)))
            asked(field) == IF FlagOf(field) \in DOMAIN given
                            THEN FieldValue(FlagOf(field), given[FlagOf(field)]) ELSE Unset
        IN  \A field \in DOMAIN shown :
                shown[field] = IF asked(field) = Unset THEN DeviceDefaults[field]
                               ELSE asked(field)
===========================================================================
