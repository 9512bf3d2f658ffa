-------------------------------- MODULE Text --------------------------------
(***************************************************************************)
(* The parts of Go's package strings that the panel reads command output,  *)
(* settings and files with.  A text is a sequence of characters; "nl" is   *)
(* the end of a line, "tab" a tabulator.                                   *)
(***************************************************************************)
EXTENDS Integers, SequencesExt

Blank == {" ", "tab", "nl"}

(* strings.SplitN: the last of n parts keeps its separators; of a negative n
   there are as many parts as it takes. *)
Grown(parts, c, sep, n) ==
    IF c = sep /\ (n < 0 \/ Len(parts) < n) THEN Append(parts, <<>>)
    ELSE [parts EXCEPT ![Len(parts)] = Append(@, c)]

SplitN(s, sep, n) ==
    LET parts[i \in 0..Len(s)] == IF i = 0 THEN << <<>> >> ELSE Grown(parts[i - 1], s[i], sep, n)
    IN parts[Len(s)]

Split(s, sep) == SplitN(s, sep, -1)

(* The places of the marks that are set, and what is there. *)
Places(marks) ==
    LET found[i \in 0..Len(marks)] ==
            IF i = 0 THEN <<>>
            ELSE IF marks[i] THEN Append(found[i - 1], i)
            ELSE found[i - 1]
    IN found[Len(marks)]

Picked(s, marks) == [k \in DOMAIN Places(marks) |-> s[Places(marks)[k]]]

NonEmpty(parts) == Picked(parts, [i \in DOMAIN parts |-> parts[i] # <<>>])

(* strings.TrimSpace *)
Trim(s) ==
    LET solid == {i \in DOMAIN s : s[i] \notin Blank}
        first == CHOOSE i \in solid : \A j \in solid : i <= j
        last == CHOOSE i \in solid : \A j \in solid : i >= j
    IN IF solid = {} THEN <<>> ELSE SubSeq(s, first, last)

Lines(s) == NonEmpty(Split(s, "nl"))

(* strings.Fields *)
Spaced(s) == [i \in DOMAIN s |-> IF s[i] \in Blank THEN " " ELSE s[i]]

Fields(s) == NonEmpty(Split(Spaced(s), " "))

(* The first n of a sequence, or all of it. *)
FirstOf(s, n) == SubSeq(s, 1, IF Len(s) < n THEN Len(s) ELSE n)

(* The last n of a sequence, or all of it. *)
LastOf(s, n) == IF Len(s) > n THEN SubSeq(s, Len(s) - n + 1, Len(s)) ELSE s

(* The closure `get` of several readers: a missing column is empty. *)
Column(fields, i) == IF i \in DOMAIN fields THEN fields[i] ELSE <<>>

Mapped(Op(_), s) == [i \in DOMAIN s |-> Op(s[i])]

(* strings.Join, and what a program prints: the parts with a separator in between. *)
Joined(parts, sep) ==
    LET all[i \in 0..Len(parts)] ==
            CASE i = 0 -> <<>>
              [] i = 1 -> parts[1]
              [] OTHER -> all[i - 1] \o sep \o parts[i]
    IN all[Len(parts)]

=============================================================================
