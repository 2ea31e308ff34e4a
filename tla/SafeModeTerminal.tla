-------------------------- MODULE SafeModeTerminal --------------------------
(***************************************************************************)
(* The Safe Mode terminal from the keystroke to the working configuration  *)
(* (safemode/mod.rs): read_line edits a fixed buffer and echoes to the     *)
(* serial screen, dispatch splits the line, cmd_set parses the number.     *)
(* What `commit` does with the configuration is SafeModeShell's subject;   *)
(* it leaves the variables of this module alone.                           *)
(*                                                                         *)
(* A keystroke puts one cell of text on the line, and Text says which      *)
(* words and characters the cell holds: short words fill one cell, so that *)
(* a line of a few cells has room for a command and its number.  Of the    *)
(* thresholds `soft` stands for all seven: one code path stores them.  A   *)
(* threshold is an integer number of parts of One, so decimal fractions    *)
(* are exact: the rounding of f32 is left out, its overflow to infinity at *)
(* F32_MAX is kept.                                                        *)
(***************************************************************************)
EXTENDS Integers, SequencesExt

CONSTANTS
    Text,       \* the words and characters of each cell that can be typed
    LINE_MAX,   \* cells the line buffer holds
    U32_MAX,
    F32_MAX     \* largest whole number an f32 holds

VARIABLES
    line,       \* buf[..len] of read_line
    screen,     \* the cells of the current screen row, prompt included
    config      \* the working copy of run

vars == <<line, screen, config>>

text_of(cells) == FlattenSeq([i \in DOMAIN cells |-> Text[cells[i]]])

Blank == " "
Prompt == <<"safemode>">>
Numerals == <<"0", "1", "2", "3", "4", "5", "6", "7", "8", "9">>
Digit == [b \in Range(Numerals) |-> (CHOOSE i \in DOMAIN Numerals : Numerals[i] = b) - 1]
One == 1000
DEFAULT == [window |-> 16, soft |-> 400]

\* serial::init and the banner; run starts from the defaults.
Init ==
    /\ config = DEFAULT
    /\ line = <<>>
    /\ screen = Prompt

-----------------------------------------------------------------------------
(* Numbers. *)

None == -1
Inf == -2
NaN == -3

\* Bug: u32 arithmetic that wraps.
parse_u32_wraps(bytes) ==
    IF bytes = <<>> THEN None
    ELSE FoldLeft(LAMBDA value, b :
                    IF value = None \/ b \notin DOMAIN Digit THEN None
                    ELSE (value * 10 + Digit[b]) % (U32_MAX + 1),
                  0, bytes)

parse_u32(bytes) ==
    IF bytes = <<>> THEN None
    ELSE FoldLeft(LAMBDA value, b :
                    IF value = None \/ b \notin DOMAIN Digit THEN None
                    ELSE IF value * 10 > U32_MAX THEN None
                    ELSE IF value * 10 + Digit[b] > U32_MAX THEN None
                    ELSE value * 10 + Digit[b],
                  0, bytes)

\* An f32 that counts: past the largest finite value it is infinite for good.
times_ten_plus(x, d) == IF x = Inf \/ x * 10 + d > F32_MAX THEN Inf ELSE x * 10 + d

digits_value(ds) == FoldLeft(LAMBDA x, b : times_ten_plus(x, Digit[b]), 0, ds)

scale_of(ds) == FoldLeft(LAMBDA x, b : times_ten_plus(x, 0), 1, ds)

\* The leading digits of a text.
leading_digits(s) ==
    LET stop == {i \in DOMAIN s : s[i] \notin DOMAIN Digit}
    IN  SubSeq(s, 1, IF stop = {} THEN Len(s) ELSE Min(stop) - 1)

after(s, n) == SubSeq(s, n + 1, Len(s))

quotient(frac, scale) ==
    CASE frac = Inf /\ scale = Inf -> NaN
      [] frac = Inf /\ scale # Inf -> Inf
      [] frac # Inf /\ scale = Inf -> 0
      [] OTHER -> (frac * One) \div scale

parse_f32(bytes) ==
    LET signed    == bytes # <<>> /\ bytes[1] \in {"-", "+"}
        unsigned  == IF signed THEN Tail(bytes) ELSE bytes
        whole     == leading_digits(unsigned)
        rest      == after(unsigned, Len(whole))
        dotted    == rest # <<>> /\ rest[1] = "."
        fraction  == IF dotted THEN leading_digits(Tail(rest)) ELSE <<>>
        consumed  == Len(whole) + Len(fraction) + (IF dotted THEN 1 ELSE 0)
        int_part  == digits_value(whole)
        frac_part == quotient(digits_value(fraction), scale_of(fraction))
        magnitude == IF NaN = frac_part THEN NaN
                     ELSE IF Inf \in {int_part, frac_part} THEN Inf
                     ELSE int_part * One + frac_part
    IN  IF consumed # Len(unsigned) \/ whole \o fraction = <<>> THEN [some |-> FALSE]
        ELSE [some |-> TRUE, negative |-> signed /\ bytes[1] = "-", value |-> magnitude]

\* (0.0..=1.0).contains: minus zero is contained, NaN and infinity are not.
in_range(v) == v.value \in 0 .. One /\ (v.negative => v.value = 0)

-----------------------------------------------------------------------------
(* The command line. *)

trim_start(s) ==
    LET text == {i \in DOMAIN s : s[i] # Blank}
    IN  IF text = {} THEN <<>> ELSE SubSeq(s, Min(text), Len(s))

\* Leading blanks are dropped from the token and from the rest; trailing
\* blanks stay with the rest.
split_first_token(input) ==
    LET s == trim_start(input)
        blanks == {i \in DOMAIN s : s[i] = Blank}
        end == IF blanks = {} THEN Len(s) ELSE Min(blanks) - 1
    IN  [token |-> SubSeq(s, 1, end), rest |-> trim_start(after(s, end))]

\* A value in range is kept even if it leaves the tiers out of order.
cmd_set(rest, c) ==
    LET set == split_first_token(rest)
        parsed == parse_f32(set.rest)
    IN  CASE set.token = <<>> \/ set.rest = <<>> -> c
          [] set.token = <<"window">> /\ set.rest # <<>> ->
               IF parse_u32(set.rest) > 0 THEN [c EXCEPT !.window = parse_u32(set.rest)] ELSE c
          [] set.token = <<"soft">> /\ set.rest # <<>> ->
               IF parsed.some THEN IF in_range(parsed) THEN [c EXCEPT !.soft = parsed.value] ELSE c
               ELSE c
          [] OTHER -> c

\* help, show, commit, the refused verbs and unknown words change nothing here.
dispatch(input, c) ==
    LET first == split_first_token(input)
    IN  CASE first.token = <<"set">> -> cmd_set(first.rest, c)
          [] first.token = <<"reset">> -> DEFAULT
          [] OTHER -> c

-----------------------------------------------------------------------------
(* The keyboard. *)

\* A printable byte: stored and echoed, or dropped with a bell.
key(s, b) ==
    IF Len(s.line) < LINE_MAX
    THEN [line |-> Append(s.line, b), screen |-> Append(s.screen, b)]
    ELSE s

Type ==
    /\ \E b \in DOMAIN Text :
         LET s == key([line |-> line, screen |-> screen], b)
         IN  line' = s.line /\ screen' = s.screen
    /\ UNCHANGED config

\* Backspace or DEL: "\b \b" rubs the last glyph out.
Erase ==
    /\ line # <<>>
    /\ line' = Front(line) /\ screen' = Front(screen)
    /\ UNCHANGED config

\* CR or LF: the row ends, the line is executed, the next prompt is printed.
Enter ==
    /\ config' = dispatch(text_of(line), config)
    /\ line' = <<>>
    /\ screen' = Prompt

Next == Type \/ Erase \/ Enter

Spec == Init /\ [][Next]_vars

-----------------------------------------------------------------------------
(* What the operator may rely on, stated over the characters on the screen. *)

\* The texts that stand as the argument of `set field` in text: at most one.
Shown(text, field) ==
    {SubSeq(text, k, Len(text)) : k \in {n \in DOMAIN text :
        \E i \in 1 .. n - 4 : text[i] = "set" /\ \E j \in i + 2 .. n - 2 :
            /\ text[j] = field /\ text[n] # Blank
            /\ \A m \in 1 .. n - 1 : m \in {i, j} \/ text[m] = Blank}}

Amount(ds) == MapThenSumSet(LAMBDA i : Digit[ds[i]] * 10 ^ (Len(ds) - i), DOMAIN ds)

WindowShown(v) ==
    IF Range(v) \subseteq DOMAIN Digit THEN {Amount(v)} \cap (1 .. U32_MAX) ELSE {}

\* The threshold a decimal numeral denotes, in parts of One.
ThresholdShown(v) ==
    LET negative == v[1] = "-"
        u        == IF v[1] \in {"-", "+"} THEN Tail(v) ELSE v
        dots     == {i \in DOMAIN u : u[i] = "."}
        whole    == IF dots = {} THEN u ELSE SubSeq(u, 1, Min(dots) - 1)
        fraction == IF dots = {} THEN <<>> ELSE after(u, Min(dots))
        x        == Amount(whole) * One + (Amount(fraction) * One) \div 10 ^ Len(fraction)
    IN  IF whole \o fraction # <<>> /\ Range(whole \o fraction) \subseteq DOMAIN Digit
        THEN {x} \cap (IF negative THEN {0} ELSE 0 .. One)
        ELSE {}

\* More digits after the point than a power of ten that f32 can hold.
TooFine(v) == \E i \in DOMAIN v : v[i] = "." /\ 10 ^ (Len(v) - i) > F32_MAX

Resets(text) ==
    \E i \in DOMAIN text :
        /\ text[i] = "reset" /\ \A m \in 1 .. i - 1 : text[m] = Blank
        /\ i = Len(text) \/ text[i + 1] = Blank

\* Whatever was typed, rubbed out and dropped on the way, Enter stores the
\* number that stands on the screen: a `set` shown with a value in range
\* stores exactly that value, `reset` the defaults, and any other row leaves
\* the configuration alone.  Keys other than Enter store nothing.  Fractions
\* with more digits than F32_MAX has are left out: read_line lets them
\* through and parse_f32 divides by infinity.
TypedIsStored ==
    [][LET text == text_of(after(screen, Len(Prompt)))
           window == UNION {WindowShown(v) : v \in Shown(text, "window")}
           soft == UNION {ThresholdShown(v) : v \in Shown(text, "soft")}
       IN  IF line' # <<>> \/ ~Enter THEN UNCHANGED config
           ELSE IF Resets(text) THEN config' = DEFAULT
           ELSE /\ config'.window \in (IF window = {} THEN {config.window} ELSE window)
                /\ \/ config'.soft \in (IF soft = {} THEN {config.soft} ELSE soft)
                   \/ \E v \in Shown(text, "soft") : TooFine(v)]_vars
=============================================================================
