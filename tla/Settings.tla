------------------------------ MODULE Settings ------------------------------
(***************************************************************************)
(* config.go: how a setting is read from the environment.  An unset        *)
(* variable is the empty text.                                             *)
(***************************************************************************)
EXTENDS Text

CONSTANTS
    Glyphs,       \* the characters that separate nothing
    Phrases,      \* what an item or a column may be: texts of glyphs, with blanks inside only
    ListLength    \* bound on the items of a list

ASSUME SettingsAssumption ==
    /\ Glyphs \cap (Blank \cup {","}) = {}
    /\ \A p \in Phrases :
          /\ p \in Seq(Glyphs \cup {" "})
          /\ p # <<>> => p[1] # " " /\ p[Len(p)] # " "

Digit == <<"0", "1", "2", "3", "4", "5", "6", "7", "8", "9">>
TrueWords == {<<"1">>, <<"o", "n">>}              \* and true, yes
FalseWords == {<<"0">>, <<"o", "f", "f">>}        \* and false, no

DefaultPort == 4545

EnvStr(v, def) == IF v # <<>> THEN v ELSE def

(* strconv.Atoi *)
Signed(v) == v # <<>> /\ v[1] \in {"-", "+"}
Digits(v) == IF Signed(v) THEN Tail(v) ELSE v
IsNumber(v) == Digits(v) # <<>> /\ ToSet(Digits(v)) \subseteq ToSet(Digit)

DigitValue(c) == CHOOSE d \in 0..9 : Digit[d + 1] = c

Value(digits) ==
    LET first[i \in 0..Len(digits)] == IF i = 0 THEN 0 ELSE 10 * first[i - 1] + DigitValue(digits[i])
    IN first[Len(digits)]

Atoi(v) == IF v[1] = "-" THEN -Value(Digits(v)) ELSE Value(Digits(v))

EnvInt(v, def) == IF IsNumber(v) THEN Atoi(v) ELSE def

Lower(c) == CASE c = "O" -> "o" [] c = "N" -> "n" [] c = "F" -> "f" [] OTHER -> c

EnvBool(v, def) ==
    IF Mapped(Lower, v) \in TrueWords THEN TRUE
    ELSE IF Mapped(Lower, v) \in FalseWords THEN FALSE
    ELSE def

(* Mutant: the empty items are dropped before the blanks around them. *)
EnvListTrimsLast(v, def) ==
    LET items == Mapped(Trim, NonEmpty(Split(v, ","))) IN IF items # <<>> THEN items ELSE def

EnvList(v, def) ==
    LET items == NonEmpty(Mapped(Trim, Split(v, ","))) IN IF items # <<>> THEN items ELSE def

(* One setting of each kind, and two that share a reader; the others are read
   alike.  The data directory falls back to one under HOME. *)
Unset == [port |-> <<>>, timeout |-> <<>>, auth |-> <<>>, services |-> <<>>, logs |-> <<>>,
          dir |-> <<>>, home |-> <<>>]

Load(env) ==
    [Port |-> EnvInt(env.port, DefaultPort),
     TerminalTimeoutSec |-> EnvInt(env.timeout, 30),
     AuthEnabled |-> EnvBool(env.auth, FALSE),
     Services |-> EnvList(env.services, << <<"ssh">>, <<"ufw">> >>),
     AllowedLogs |-> EnvList(env.logs, << <<"syslog">> >>),
     DataDir |-> EnvStr(env.dir, EnvStr(env.home, <<".">>) \o <<"/.local/share/hackercockpit">>)]

-----------------------------------------------------------------------------
(* What an operator writes: the items of a list with blanks around them, and
   with nothing between two commas; a number; a word in either case. *)

Cells == [item : Phrases, before : BOOLEAN, after : BOOLEAN]
Lists == BoundedSeq(Cells, ListLength)

Pad(b) == IF b THEN <<" ">> ELSE <<>>

Padded(cell) == Pad(cell.before) \o cell.item \o Pad(cell.after)

ListText(cells) == Joined(Mapped(Padded, cells), <<",">>)

(* The items come back in their order, no text leaves a list empty (of a list
   without items the default stays), and no other setting changes (envList,
   Load). *)
ListReads(cells) ==
    LET items == NonEmpty([i \in DOMAIN cells |-> cells[i].item])
        read == Load([Unset EXCEPT !.services = ListText(cells)])
    IN read = IF items = <<>> THEN Load(Unset) ELSE [Load(Unset) EXCEPT !.Services = items]

Signs == {<<>>, <<"-">>, <<"+">>, <<" ">>}

(* The number that is written, or the default when there is a blank: unlike an
   item of a list, a number is not trimmed (envInt). *)
NumberReads(sign, n) ==
    LET v == sign \o <<Digit[(n \div 10) + 1], Digit[(n % 10) + 1]>>
        meant == IF sign = <<"-">> THEN -n ELSE IF sign = <<" ">> THEN DefaultPort ELSE n
    IN Load([Unset EXCEPT !.port = v]) = [Load(Unset) EXCEPT !.Port = meant]

Switches == BoundedSeq({"o", "O", "n", "N", "f", "F", "1", "0", " "}, 3)

(* On and off in either case; anything else, a blank around them included, is
   the default (envBool). *)
WordReads(v) ==
    LET plain == Mapped(Lower, v)
    IN /\ Load([Unset EXCEPT !.auth = v]) =
             [Load(Unset) EXCEPT !.AuthEnabled = plain \in TrueWords]
       /\ EnvBool(v, TRUE) <=> plain \notin FalseWords
=============================================================================
