------------------------------ MODULE Logger ------------------------------
(***************************************************************************)
(* The level of the log (src/src/logger/mod.rs): slog's numbers, read as   *)
(* Go read them, and the tracing filter chosen for them.  A level's name   *)
(* is one character of its text here, in lower case.                       *)
(***************************************************************************)
EXTENDS Literals

\* slog's levels, of the records and of the tracing filters.
SlogLevels == [debug |-> -4, info |-> 0, warn |-> 4, error |-> 8]
Off == "off"

\* Where the offset starts.
SignAt(text) ==
    LET signs == {i \in DOMAIN text : text[i] \in {"+", "-"}}
    IN  IF signs = {} THEN Len(text) + 1
        ELSE CHOOSE i \in signs : \A j \in signs : i <= j

\* slog_level: checked_add, and Invalid for what cannot be read.
SlogLevel(text) ==
    LET sign == SignAt(text)
        name == SubSeq(text, 1, sign - 1)
        offset == From(text, sign)
        known == \E n \in DOMAIN SlogLevels : name = <<n>>
        base == SlogLevels[name[1]]
        value == IF offset = <<>> THEN 0 ELSE ParseI64(offset)
    IN  IF known /\ value # Invalid
        THEN IF IsI64(base + value) THEN base + value ELSE Invalid
        ELSE Invalid

\* Mutant of FilterForSlogLevel: the ranges begin where they should end.
FilterBelow(threshold) ==
    CASE threshold < -4       -> "debug"
      [] threshold \in -4..-1 -> "info"
      [] threshold \in 0..3   -> "warn"
      [] threshold \in 4..7   -> "error"
      [] threshold > 7        -> Off

\* filter_for_slog_level
FilterForSlogLevel(threshold) ==
    CASE threshold <= -4     -> "debug"
      [] threshold \in -3..0 -> "info"
      [] threshold \in 1..4  -> "warn"
      [] threshold \in 5..8  -> "error"
      [] threshold > 8       -> Off

\* resolve_level
ResolveLevel(text) ==
    LET level == SlogLevel(text)
    IN  IF level = Invalid THEN "info" ELSE FilterForSlogLevel(level)

\* effective_level: the flag, then a non-empty variable, then the default.
\* Invalid stands for one that was not given.
EffectiveLevel(flag, environment) ==
    ResolveLevel(CASE flag # Invalid -> flag
                   [] flag = Invalid /\ environment \notin {Invalid, <<>>} -> environment
                   [] OTHER -> <<"info">>)

\* tracing (external): a record passes a filter of its own level or a lower one.
Writes(filter, record) == filter # Off /\ SlogLevels[filter] <= SlogLevels[record]

---------------------------------------------------------------------------

\* slog's rule: a record is written when its level is at least the one that
\* was asked for, which is info's when that cannot be read.
SlogWrites(text, record) ==
    LET level == SlogLevel(text)
    IN  SlogLevels[record] >= (IF level = Invalid THEN 0 ELSE level)
===========================================================================
