--------------------------- MODULE PrintfNomalloc ---------------------------
(***************************************************************************)
(* The printf that allocates no memory (common/printf_nomalloc.c).  The    *)
(* format is read one character at a time, so a behaviour chooses each     *)
(* character when the code reads it and each argument when the code        *)
(* fetches it: every format up to MaxFormat characters is tried.           *)
(*                                                                         *)
(* An int has IntBits bits, long and long long have LongBits.  A character *)
(* is a string of one character, a text a sequence of them.  Of g_buffer   *)
(* only the part that the last conversion wrote is kept.                   *)
(***************************************************************************)
EXTENDS Integers, Sequences, FiniteSets, SequencesExt

CONSTANTS
  Alphabet,    \* the characters that formats are made of
  MaxFormat,   \* bound on the length of a format
  MaxWidth,    \* bound on the widths written in a format
  IntBits, LongBits,
  Strings,     \* the strings passed for %s, beside NULL
  Widths       \* the widths passed for '*'

ASSUME SizeAssumption == IntBits \in Nat \ {0} /\ LongBits \in Nat /\ LongBits > IntBits

\* What is true of powers of two; the provers know none of it.
ASSUME PowersOfTwo ==
  /\ 2 ^ (IntBits - 1) \in Nat \ {0} /\ 2 ^ (LongBits - 1) \in Nat
  /\ 2 ^ IntBits = 2 * 2 ^ (IntBits - 1) /\ 2 ^ LongBits = 2 * 2 ^ (LongBits - 1)
  /\ 2 ^ (IntBits - 1) < 2 ^ (LongBits - 1)

ASSUME ArgumentsAssumption == (\A s \in Strings : s \in Seq(Range(s))) /\ Widths \subseteq Int

VARIABLES
  pc,        \* the loop of do_vsprintf, its inner loop, the call of write, the end
  position,  \* format_ptr: how many characters of the format were read
  len,       \* buffer_ptr: how much of g_buffer was written
  mod,       \* the format_modifiers of the conversion being read
  flags,     \* the characters read since '%'
  last       \* history: the last conversion, its arguments and what it printed

vars == <<pc, position, len, mod, flags, last>>

Digits == <<"0", "1", "2", "3", "4", "5", "6", "7", "8", "9", "A", "B", "C", "D", "E", "F">>

DigitValue(c) == (CHOOSE i \in DOMAIN Digits : Digits[i] = c) - 1

Custom == -1   \* MIN_FIELD_WIDTH_CUSTOM

NoModifiers == [longness |-> 0, width |-> 0, left |-> FALSE, padding |-> " "]

NoArg == 0

Conversion(mods, spec, width, arg, out) ==
  [mods |-> mods, spec |-> spec, width |-> width, arg |-> arg, out |-> out]

Nothing == Conversion(<<>>, "", 0, NoArg, <<>>)

Init ==
  /\ pc \in {"text", "stopped"}  \* translate_file stops the process if the file is neither
  /\ position = 0 /\ len = 0 /\ flags = <<>>
  /\ mod = NoModifiers
  /\ last = Nothing

-----------------------------------------------------------------------------
(* Numbers. *)

Signed(bits) == -(2 ^ (bits - 1)) .. 2 ^ (bits - 1) - 1

Unsigned(bits) == 0 .. 2 ^ bits - 1

\* An argument, as va_arg finds it when it is told another type than the
\* caller's: the low bits of what was passed.
LowBits(n, bits) == n % 2 ^ bits

AsSigned(n, bits) == IF LowBits(n, bits) < 2 ^ (bits - 1) THEN LowBits(n, bits)
                                                         ELSE LowBits(n, bits) - 2 ^ bits

\* fetch_int_arg and fetch_uint_arg: a longness above 2 falls to the default.
FetchBits == IF mod.longness \in {1, 2} THEN LongBits ELSE IntBits

\* Mutant: the digits are written forwards.
PrintUintForwards(num, base) ==
  LET f[n \in 0 .. num] ==
        IF n < base THEN <<Digits[n + 1]>> ELSE <<Digits[(n % base) + 1]>> \o f[n \div base]
  IN  f[num]

\* print_uint: the digits from the last backwards, until nothing is left.
PrintUint(num, base) ==
  LET f[n \in 0 .. num] ==
        IF n < base THEN <<Digits[n + 1]>> ELSE f[n \div base] \o <<Digits[(n % base) + 1]>>
  IN  f[num]

PrintInt(num) == IF num < 0 THEN <<"-">> \o PrintUint(-num, 10) ELSE PrintUint(num, 10)

-----------------------------------------------------------------------------
(* handle_format. *)

Fill(char, n) == [i \in 1 .. n |-> char]

\* Mutant: text justified to the left is padded with padding_char.
PadWithChar(text, width) ==
  LET missing == Fill(mod.padding, width - Len(text))
  IN  IF Len(text) >= width THEN text
      ELSE IF mod.left THEN text \o missing ELSE missing \o text

Pad(text, width) ==
  IF Len(text) >= width THEN text
  ELSE IF mod.left THEN text \o Fill(" ", width - Len(text))
                   ELSE Fill(mod.padding, width - Len(text)) \o text

NullStr == <<"(null str)">>

NullPtr == <<"(null ptr)">>

\* What the caller of a conversion passes has the type the C standard says.
CallerBits == IF \E i \in DOMAIN flags : flags[i] \in {"l", "z"} THEN LongBits ELSE IntBits

SignedSpecifiers == {"d", "i"}

HexSpecifiers == {"x", "X"}

Specifiers == SignedSpecifiers \cup HexSpecifiers \cup {"u", "p", "c", "s", "%"}

Arguments(spec) ==
  CASE spec \in SignedSpecifiers -> Signed(CallerBits)
    [] spec \in {"u"} \cup HexSpecifiers -> Unsigned(CallerBits)
    [] spec = "p" -> {0, 10}
    [] spec = "c" -> {"a"}
    [] spec = "s" -> Strings \cup {NullStr}
    [] OTHER -> {NoArg}

\* The text of one conversion before it is padded.
Printed(spec, arg) ==
  CASE spec \in SignedSpecifiers -> PrintInt(AsSigned(arg, FetchBits))
    [] spec = "u" -> PrintUint(LowBits(arg, FetchBits), 10)
    [] spec \in HexSpecifiers -> PrintUint(LowBits(arg, FetchBits), 16)
    [] spec = "p" -> IF arg = 0 THEN NullPtr ELSE <<"0", "x">> \o PrintUint(arg, 16)
    [] spec = "c" -> <<arg>>
    [] spec = "s" -> arg
    [] spec = "%" -> <<"%">>

\* print_int asserts that the number is not LLONG_MIN.
Refused(spec, arg) ==
  spec \in SignedSpecifiers /\ AsSigned(arg, FetchBits) = -(2 ^ (LongBits - 1))

Stop(width, arg, spec) ==
  /\ pc' = "stopped"
  /\ last' = Conversion(flags, spec, width, arg, <<>>)
  /\ UNCHANGED <<len, mod, flags>>

HandleFormat(spec) ==
  \E width \in IF mod.width = Custom THEN Widths ELSE {mod.width} :
  \E arg \in Arguments(spec) :
    IF width < 0 \/ spec \notin Specifiers \/ Refused(spec, arg)
    THEN Stop(width, arg, spec)
    ELSE LET out == Pad(Printed(spec, arg), width)
         IN  /\ pc' = "text"
             /\ len' = len + Len(out)
             /\ last' = Conversion(flags, spec, width, arg, out)
             /\ mod' = NoModifiers
             /\ flags' = <<>>

-----------------------------------------------------------------------------
(* do_vsprintf. *)

ReadsOne == position < MaxFormat /\ position' = position + 1

\* A character outside a conversion.
ReadText(c) ==
  /\ pc = "text" /\ ReadsOne
  /\ IF c = "%" THEN pc' = "modifiers" /\ UNCHANGED len
                ELSE len' = len + 1 /\ UNCHANGED pc
  /\ last' = Nothing
  /\ UNCHANGED <<mod, flags>>

\* Mutant: '0' is a flag wherever it stands.
IsZeroFlagAnywhere(c) == c = "0"

\* '0' asks for padding by zeros, unless a width has begun.
IsZeroFlag(c) == c = "0" /\ mod.width = 0

\* Mutant: '*' is refused after the flag '0' as well.
AsteriskRefusedAfterZero == mod.width # 0 \/ mod.padding = "0"

AsteriskRefused == mod.width # 0

\* What a modifier changes.
Modified(c) ==
  IF c = "l" THEN [mod EXCEPT !.longness = @ + 1]
  ELSE IF c = "z" THEN [mod EXCEPT !.longness = 2]
  ELSE IF c = "-" THEN [mod EXCEPT !.left = TRUE]
  ELSE IF c = "*" THEN [mod EXCEPT !.width = Custom]
  ELSE IF IsZeroFlag(c) THEN [mod EXCEPT !.padding = "0"]
  ELSE [mod EXCEPT !.width = 10 * @ + DigitValue(c)]

Decimals == {Digits[i] : i \in 1 .. 10}

Modifiers == {"l", "z", "-", "*"} \cup Decimals

\* "Both custom and explicit minimum field width specifier??"
Rejected(c) ==
  \/ c = "*" /\ AsteriskRefused
  \/ c \in Decimals /\ ~IsZeroFlag(c) /\ mod.width = Custom

ReadModifier(c) ==
  /\ pc = "modifiers" /\ c \in Modifiers /\ ReadsOne
  /\ Modified(c).width <= MaxWidth
  /\ IF Rejected(c)
     THEN /\ pc' = "stopped"
          \* no specifier was read: as if it were the one that allows most modifiers
          /\ last' = Conversion(Append(flags, c), "d", 0, NoArg, <<>>)
          /\ UNCHANGED <<mod, flags>>
     ELSE /\ mod' = Modified(c)
          /\ flags' = Append(flags, c)
          /\ UNCHANGED <<pc, last>>
  /\ UNCHANGED len

ReadSpecifier(c) ==
  /\ pc = "modifiers" /\ c \notin Modifiers /\ ReadsOne
  /\ HandleFormat(c)

\* The end of the format; in the middle of a conversion it is taken for an
\* unknown specifier.  sprintf_nomalloc is done, fprintf_nomalloc writes.
ReadEnd ==
  /\ \/ pc = "text" /\ pc' \in {"write", "done"}
     \/ pc = "modifiers" /\ pc' = "stopped"
  /\ last' = Nothing
  /\ UNCHANGED <<position, len, mod, flags>>

\* vfprintf_nomalloc: a failure of write stops the process, a short count is
\* not noticed.
Write ==
  /\ pc = "write"
  /\ pc' \in {"done", "stopped"}
  /\ UNCHANGED <<position, len, mod, flags, last>>

Next ==
  \/ \E c \in Alphabet : ReadText(c) \/ ReadModifier(c) \/ ReadSpecifier(c)
  \/ ReadEnd \/ Write

Spec == Init /\ [][Next]_vars

-----------------------------------------------------------------------------
(***************************************************************************)
(* What the C standard says of a conversion: flags, then a width, then a   *)
(* length, then the specifier.                                             *)
(***************************************************************************)

AllIn(s, set) == \A i \in DOMAIN s : s[i] \in set

Lengths == {<<>>, <<"l">>, <<"l", "l">>, <<"z">>}

\* The three parts of the modifiers, wherever they can be split so.
IsWidth(w) == w = <<>> \/ w = <<"*">> \/ (AllIn(w, Decimals) /\ w[1] # "0")

Splits(mods) ==
  {s \in (0 .. Len(mods)) \X (0 .. Len(mods)) :
     /\ s[1] <= s[2]
     /\ AllIn(SubSeq(mods, 1, s[1]), {"-", "0"})
     /\ IsWidth(SubSeq(mods, s[1] + 1, s[2]))
     /\ SubSeq(mods, s[2] + 1, Len(mods)) \in Lengths}

HasFlag(mods, f) == \E s \in Splits(mods) : \E i \in 1 .. s[1] : mods[i] = f

InStandard(c) ==
  /\ Splits(c.mods) # {}
  /\ HasFlag(c.mods, "0") => c.spec \in SignedSpecifiers \cup HexSpecifiers \cup {"u"}
  /\ c.spec \in {"p", "c", "s", "%"} => AllIn(c.mods, {"-", "*"} \cup Decimals)
  /\ c.spec = "%" => c.mods = <<>>

ValueOf(digits, base) ==
  LET f[i \in 0 .. Len(digits)] == IF i = 0 THEN 0 ELSE f[i - 1] * base + DigitValue(digits[i])
  IN  f[Len(digits)]

\* The width the modifiers ask for.
WidthOf(c) ==
  LET s == CHOOSE s \in Splits(c.mods) : \A t \in Splits(c.mods) : t[2] - t[1] <= s[2] - s[1]
      w == SubSeq(c.mods, s[1] + 1, s[2])
  IN  IF w = <<"*">> THEN c.width ELSE ValueOf(w, 10)

\* body is the number n in that base, without leading zeros.  For %x the
\* standard asks for small letters; the tests of the code ask for capitals
\* (tests/dune/printf_nomalloc.c:50), and so does this.
IsNumber(body, n, base) ==
  /\ body # <<>> /\ AllIn(body, {Digits[i] : i \in 1 .. base})
  /\ Len(body) > 1 => body[1] # "0"
  /\ ValueOf(body, base) = n

\* body is the converted argument, before it is padded.  What is printed of a
\* null pointer, which the standard leaves open, is what the tests ask for.
IsConverted(c, body) ==
  CASE c.spec \in SignedSpecifiers /\ c.arg >= 0 -> IsNumber(body, c.arg, 10)
    [] c.spec \in SignedSpecifiers /\ c.arg < 0 ->
         body # <<>> /\ body[1] = "-" /\ IsNumber(Tail(body), -c.arg, 10)
    [] c.spec = "u" -> IsNumber(body, c.arg, 10)
    [] c.spec \in HexSpecifiers -> IsNumber(body, c.arg, 16)
    [] c.spec = "p" -> IF c.arg = 0 THEN body = NullPtr
                       ELSE Len(body) > 2 /\ SubSeq(body, 1, 2) = <<"0", "x">>
                            /\ IsNumber(SubSeq(body, 3, Len(body)), c.arg, 16)
    [] c.spec = "c" -> body = <<c.arg>>
    [] c.spec = "s" -> body = c.arg
    [] c.spec = "%" -> body = <<"%">>

\* How much padding is missing.
Missing(c, length) == IF WidthOf(c) > length THEN WidthOf(c) - length ELSE 0

\* out is the body, on the side asked for, and as much padding as is missing.
IsPadded(c, body) ==
  LET left == HasFlag(c.mods, "-")
      fill == IF HasFlag(c.mods, "0") /\ ~left THEN "0" ELSE " "
      n    == Len(c.out) - Len(body)
  IN  /\ n = Missing(c, Len(body))
      /\ c.out = IF left THEN body \o Fill(fill, n) ELSE Fill(fill, n) \o body

Parts(s) == {SubSeq(s, i, j) : i \in 1 .. Len(s) + 1, j \in 0 .. Len(s)}

Converted(c) == pc # "stopped" /\ c # Nothing /\ InStandard(c)

\* The conversions in which padding meets a sign.
PadsNegative(c) ==
  /\ c.spec \in SignedSpecifiers /\ c.arg < 0
  /\ HasFlag(c.mods, "0") /\ ~HasFlag(c.mods, "-")

\* Every conversion the C standard defines prints what the standard says:
\* whatever the order of flags, width and length, and whatever was converted
\* before.  Negative numbers padded by zeros are left to ZerosBehindSign, which
\* fails; hexadecimal digits are the capitals of the code's tests.
PrintsAsC ==
  Converted(last) /\ ~PadsNegative(last) =>
    \E body \in Parts(last.out) : IsConverted(last, body) /\ IsPadded(last, body)

\* What the standard says of the rest: zeros that pad a negative number stand
\* between its sign and its digits.  handle_format moves the text, sign included,
\* behind them.
ZerosBehindSign ==
  Converted(last) /\ PadsNegative(last) =>
    \E digits \in Parts(last.out) :
      /\ IsNumber(digits, -last.arg, 10)
      /\ last.out = <<"-">> \o Fill("0", Missing(last, Len(digits) + 1)) \o digits

\* The process is stopped inside a conversion only if the standard does not
\* define it or it is one of three documented or commented limits: a negative
\* custom width, the most negative number, a specifier that is not listed in
\* printf_nomalloc.h.
StopsOnlyAtLimits ==
  pc = "stopped" /\ last.spec # "" =>
    \/ ~InStandard(last)
    \/ last.width < 0
    \/ last.spec \notin {"d", "i", "u", "x", "X", "p", "c", "s", "%"}
    \/ last.spec \in SignedSpecifiers /\ last.arg = -(2 ^ (LongBits - 1))
=============================================================================
