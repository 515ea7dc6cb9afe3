----------------------------- MODULE Literals -----------------------------
(***************************************************************************)
(* The numbers of the command line (src/src/cli/mod.rs) and of the         *)
(* configuration file (src/src/config/lenient.rs).  Both read Go's base-0  *)
(* literals, each with a parser of its own.                                *)
(*                                                                         *)
(* A text is a sequence of one-character strings, its letters in lower     *)
(* case: both parsers fold the case.  An i64 has Width bits here, and an   *)
(* f64 Precision of them in its significand.                               *)
(***************************************************************************)
EXTENDS Integers, Sequences

CONSTANTS
    Width,       \* the bits of an i64 or u64
    Precision,   \* the bits of an f64's significand
    Invalid      \* a text that is refused

ASSUME LiteralsAssumption ==
    /\ Width \in Nat \ {0}
    /\ Precision \in 1..(Width - 1)
    /\ Invalid \notin Int

PowerOfTwo(n) ==
    LET power[i \in 0..n] == IF i = 0 THEN 1 ELSE 2 * power[i - 1]
    IN  power[n]

LeastI64 == -PowerOfTwo(Width - 1)
IsI64(n) == n \in LeastI64..(-LeastI64 - 1)
IsU64(n) == n \in 0..(PowerOfTwo(Width) - 1)

Alphabet == <<"0", "1", "2", "3", "4", "5", "6", "7", "8", "9", "a", "b", "c", "d", "e", "f">>

\* char::is_digit
IsDigit(c, radix) == c \in {Alphabet[i] : i \in 1..radix}
AreDigits(text, radix) == \A i \in DOMAIN text : IsDigit(text[i], radix)

DigitValues ==
    [c \in {Alphabet[i] : i \in DOMAIN Alphabet} |-> (CHOOSE i \in DOMAIN Alphabet : Alphabet[i] = c) - 1]
DigitValue(c) == DigitValues[c]

\* The number that digits denote.
ValueOf(digits, radix) ==
    LET value[i \in 0..Len(digits)] ==
            IF i = 0 THEN 0 ELSE value[i - 1] * radix + DigitValue(digits[i])
    IN  value[Len(digits)]

\* u64::from_str_radix
FromStrRadix(digits, radix) ==
    IF digits # <<>> /\ AreDigits(digits, radix) /\ IsU64(ValueOf(digits, radix))
    THEN ValueOf(digits, radix)
    ELSE Invalid

From(text, i) == SubSeq(text, i, Len(text))
StartsWith(text, prefix) == Len(text) >= Len(prefix) /\ SubSeq(text, 1, Len(prefix)) = prefix

\* The text without its underscores.
Plain(text) ==
    LET plain[i \in 0..Len(text)] ==
            IF i = 0 THEN <<>>
            ELSE IF text[i] = "_" THEN plain[i - 1] ELSE Append(plain[i - 1], text[i])
    IN  plain[Len(text)]

IsSigned(text) == text # <<>> /\ Head(text) \in {"+", "-"}
IsNegative(text) == text # <<>> /\ Head(text) = "-"
Unsigned(text) == IF IsSigned(text) THEN Tail(text) ELSE text

\* i64::from_str
ParseI64(text) ==
    LET magnitude == ValueOf(Unsigned(text), 10)
        number == IF IsNegative(text) THEN -magnitude ELSE magnitude
    IN  IF Unsigned(text) # <<>> /\ AreDigits(Unsigned(text), 10)
        THEN IF IsI64(number) THEN number ELSE Invalid
        ELSE Invalid

---------------------------------------------------------------------------
(* The flags: parse_go_int. *)

\* The radix, and where the digits begin.
GoBase(unsigned) ==
    CASE StartsWith(unsigned, <<"0", "x">>) -> [radix |-> 16, first |-> 3]
      [] StartsWith(unsigned, <<"0", "o">>) -> [radix |-> 8, first |-> 3]
      [] StartsWith(unsigned, <<"0", "b">>) -> [radix |-> 2, first |-> 3]
      [] OTHER -> IF Len(unsigned) > 1 /\ Head(unsigned) = "0"
                  THEN [radix |-> 8, first |-> 2]
                  ELSE [radix |-> 10, first |-> 1]

\* underscores_ok: between digits, or after a prefix.
UnderscoresOk(digits, prefixed) ==
    \A i \in DOMAIN digits : digits[i] = "_" =>
        /\ IF i = 1 THEN prefixed ELSE digits[i - 1] # "_"
        /\ i < Len(digits) /\ digits[i + 1] # "_"

ParseGoInt(text) ==
    LET base == GoBase(Unsigned(text))
        digits == From(Unsigned(text), base.first)
        magnitude == FromStrRadix(Plain(digits), base.radix)
        number == IF IsNegative(text) THEN -magnitude ELSE magnitude
    IN  IF UnderscoresOk(digits, base.first > 1) /\ magnitude # Invalid
        THEN IF IsI64(number) THEN number ELSE Invalid
        ELSE Invalid

\* parse_go_bool
ParseGoBool(text) ==
    CASE text \in {<<"1">>, <<"t">>, <<"t", "r", "u", "e">>} -> TRUE
      [] text \in {<<"0">>, <<"f">>, <<"f", "a", "l", "s", "e">>} -> FALSE
      [] OTHER -> Invalid

---------------------------------------------------------------------------
(* The file: resolve_number, and what an integer field makes of it. *)

\* parse_int_base0, of a text without underscores.
ParseIntBase0(text) ==
    LET lower == Unsigned(text)
        magnitude ==
            CASE StartsWith(lower, <<"0", "x">>) -> FromStrRadix(From(lower, 3), 16)
              [] StartsWith(lower, <<"0", "o">>) -> FromStrRadix(From(lower, 3), 8)
              [] StartsWith(lower, <<"0", "b">>) -> FromStrRadix(From(lower, 3), 2)
              [] OTHER -> IF Len(lower) > 1 /\ Head(lower) = "0"
                          THEN FromStrRadix(From(lower, 2), 8)
                          ELSE FromStrRadix(lower, 10)
        number == IF IsNegative(text) THEN -magnitude ELSE magnitude
    IN  IF magnitude # Invalid
        THEN IF IsI64(number) THEN number ELSE Invalid
        ELSE Invalid

\* The ways to divide an unsigned text into a mantissa's whole part and
\* fraction, and an exponent with its sign; is_yaml_float, if there is one.
FloatParts(unsigned) ==
    LET marks(c) == {i \in DOMAIN unsigned : unsigned[i] = c}
        part(i, j) == SubSeq(unsigned, i, j)
        end == IF marks("e") = {} THEN Len(unsigned) + 1
               ELSE CHOOSE i \in marks("e") : \A j \in marks("e") : i <= j
        points == {i \in marks(".") : i < end}
        exponent == From(unsigned, end + 1)
    IN  {parts \in
            {[whole |-> part(1, i - 1), fraction |-> part(i + 1, end - 1),
              exponent |-> exponent] :
                i \in IF points = {} THEN {end} ELSE points} :
            /\ AreDigits(parts.whole, 10) /\ AreDigits(parts.fraction, 10)
            /\ parts.whole # <<>> \/ parts.fraction # <<>>
            /\ AreDigits(Unsigned(exponent), 10)
            /\ end <= Len(unsigned) => Unsigned(exponent) # <<>>}

\* n / d, to the nearest integer and from halfway to the even one.
RoundHalfEven(n, d) ==
    LET q == n \div d
        twice == 2 * (n % d)
    IN  IF twice > d \/ (twice = d /\ q % 2 = 1) THEN q + 1 ELSE q

\* f64::from_str, of the fraction n / d, truncated.  The bits of the significand
\* end above the units, or below them.  More than Precision of them below: the
\* float is less than a half.
NearestFloat(n, d) ==
    IF n >= d * PowerOfTwo(Precision)
    THEN LET shift == CHOOSE e \in 1..n : /\ n < d * PowerOfTwo(Precision + e)
                                         /\ n >= d * PowerOfTwo(Precision + e - 1)
         IN  RoundHalfEven(n, d * PowerOfTwo(shift)) * PowerOfTwo(shift)
    ELSE LET fits == {e \in 0..Precision : n * PowerOfTwo(e) < d * PowerOfTwo(Precision)}
             shift == CHOOSE e \in fits : \A f \in fits : f <= e
         IN  RoundHalfEven(n * PowerOfTwo(shift), d) \div PowerOfTwo(shift)

\* The float, truncated toward zero.  A power of ten beyond the range of an
\* i64, or that leaves less than a tenth, is as good as any other.
TruncatedFloat(text) ==
    LET parts == CHOOSE p \in FloatParts(Unsigned(text)) : TRUE
        mantissa == ValueOf(parts.whole \o parts.fraction, 10)
        size == ValueOf(Unsigned(parts.exponent), 10)
        scale == (IF IsNegative(parts.exponent) THEN -size ELSE size) - Len(parts.fraction)
        power(n, most) == 10^(IF n < most THEN n ELSE most)
        magnitude == IF scale < 0
                     THEN NearestFloat(mantissa, power(-scale, Len(parts.whole \o parts.fraction) + 1))
                     ELSE NearestFloat(mantissa * power(scale, Width), 1)
    IN  IF IsNegative(text) THEN -magnitude ELSE magnitude

\* Mutant of Truncate: the cast alone, which saturates.
TruncateSaturates(text) ==
    CASE TruncatedFloat(text) < LeastI64 -> LeastI64
      [] TruncatedFloat(text) > -LeastI64 - 1 -> -LeastI64 - 1
      [] OTHER -> TruncatedFloat(text)

\* truncate, if the float fits.  Beyond the i64s a float has no fraction.
Truncate(text) == IF IsI64(TruncatedFloat(text)) THEN TruncatedFloat(text) ELSE Invalid

\* IntVisitor::visit_str
IntField(text) ==
    LET starts == text # <<>> /\ (IsDigit(Head(text), 10) \/ Head(text) \in {"+", "-", "."})
        integer == ParseIntBase0(Plain(text))
    IN  CASE starts /\ integer # Invalid -> integer
          [] starts /\ integer = Invalid /\ FloatParts(Unsigned(Plain(text))) # {} ->
                 Truncate(Plain(text))
          [] OTHER -> Invalid

---------------------------------------------------------------------------
(* What they should read. *)

Signs == {<<>>, <<"+">>, <<"-">>}
Prefixes == {<<<<"0", "x">>, 16>>, <<<<"0", "o">>, 8>>, <<<<"0", "b">>, 2>>,
             <<<<"0">>, 8>>, <<<<>>, 10>>}

\* The numbers, of any size, that a text without underscores spells: a sign, a
\* prefix and digits; a decimal has no leading zero.
Spelled(text) ==
    LET spellings ==
            {s \in [sign : Signs, prefix : Prefixes, digits : {From(text, i) : i \in DOMAIN text}] :
                /\ text = s.sign \o s.prefix[1] \o s.digits
                /\ AreDigits(s.digits, s.prefix[2])
                /\ s.prefix[2] = 10 /\ Len(s.digits) > 1 => s.digits[1] # "0"}
        value(s) == ValueOf(s.digits, s.prefix[2])
    IN  {IF s.sign = <<"-">> THEN -value(s) ELSE value(s) : s \in spellings}

\* The numbers below the i64s that are nearer to the least of them than to the
\* next float, or halfway.
RoundToLeast == (LeastI64 - PowerOfTwo(Width - Precision - 1))..(LeastI64 - 1)

\* A literal means the same number in both places, whatever its base and its
\* underscores.  The flags refuse one that does not fit.  The file, which reads
\* it again as a decimal float, underscores in any place, refuses it too, but
\* for a number just below the least i64: its float may be that one.
LiteralsAgree(text) ==
    /\ Spelled(Plain(text)) # {} /\ Head(text) # "_" =>
          LET number == CHOOSE n \in Spelled(Plain(text)) : TRUE
              read == IF IsI64(number) THEN number ELSE Invalid
          IN  /\ Plain(text) = text => ParseGoInt(text) = read
              /\ \/ IntField(text) = read
                 \/ IntField(text) = LeastI64 /\ number \in RoundToLeast
    /\ ParseGoInt(text) # Invalid => /\ IntField(text) = ParseGoInt(text)
                                     /\ ParseGoInt(text) \in Spelled(Plain(text))
===========================================================================
