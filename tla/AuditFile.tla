------------------------------ MODULE AuditFile ------------------------------
(***************************************************************************)
(* audit.go: the file under the log that AdminActions models as a list of  *)
(* entries.  Log appends one line with one write, whose error it drops; a  *)
(* full disk cuts the line short.  Tail reads the whole file and returns   *)
(* its last lines.                                                         *)
(***************************************************************************)
EXTENDS Text

CONSTANTS
    MaxEntries,   \* bound on the calls of Log
    TailLines,    \* how many lines the page asks for (300)
    Chars,        \* the characters
    Details,      \* the details of actions, as texts
    Marks         \* the time, actor and action of each call, each taken as one
                  \* character: none of them has an end of line

ASSUME AuditFileAssumption ==
    /\ MaxEntries \in Nat /\ TailLines \in Nat \ {0}
    /\ {"nl", " "} \subseteq Chars
    /\ Details \subseteq Seq(Chars)
    /\ Marks \in Seq(Chars \ {"nl"}) /\ MaxEntries <= Len(Marks)

VARIABLES
    text,         \* contents of audit.log
    entries,      \* history: the entries written whole to it, as lines
    count,        \* history: calls of Log since it was started
    open          \* history: the last line was cut short

auVars == <<text, entries, count, open>>

AuInit ==
    /\ text = <<>>
    /\ entries = <<>>
    /\ count = 0
    /\ open = FALSE

(* Mutant: the detail is written as it is. *)
ManyLines(detail) == detail

(* An end of line in the detail becomes a blank. *)
OneLine(detail) == [i \in DOMAIN detail |-> IF detail[i] = "nl" THEN " " ELSE detail[i]]

Line(detail) == <<Marks[count + 1]>> \o OneLine(detail)

Log(detail) ==
    /\ count < MaxEntries
    /\ text' = text \o Line(detail) \o <<"nl">>
    /\ entries' = Append(entries, Line(detail))
    /\ count' = count + 1
    /\ open' = FALSE

(* The open fails, or the write does after some of the line. *)
LogFails(detail) ==
    /\ count < MaxEntries
    /\ \E n \in 0..Len(Line(detail)) :
          /\ text' = text \o SubSeq(Line(detail), 1, n)
          /\ open' = (open \/ n > 0)
    /\ count' = count + 1
    /\ UNCHANGED entries

(* The operator moves the file away: the next Log starts another. *)
Rotate == count > 0 /\ text' = <<>> /\ entries' = <<>> /\ count' = 0 /\ open' = FALSE

AuNext == (\E detail \in Details : Log(detail) \/ LogFails(detail)) \/ Rotate

-----------------------------------------------------------------------------
(* splitLines: the lines found so far, with the one that ends before i ... *)
WithLine(scan, s, i) ==
    IF i > scan.start THEN Append(scan.out, SubSeq(s, scan.start, i - 1)) ELSE scan.out

(* ... its loop over the characters, and the line after the last end of line. *)
Scan(s) ==
    LET after[i \in 0..Len(s)] ==
            IF i = 0 THEN [out |-> <<>>, start |-> 1]
            ELSE IF s[i] = "nl" THEN [out |-> WithLine(after[i - 1], s, i), start |-> i + 1]
            ELSE after[i - 1]
    IN after[Len(s)]

SplitLines(s) == WithLine(Scan(s), s, Len(s) + 1)

Tail300 == LastOf(SplitLines(text), TailLines)

(* The page gets the latest entries, each on one line and in order; after a
   write that was cut short each of them is still there, whole, at the end of
   a line (Log, oneLine, Tail, splitLines). *)
TailIsRecent ==
    LET lines == Tail300
        due == LastOf(entries, IF open THEN TailLines - 1 ELSE TailLines)
    IN /\ Len(entries) = count => lines = due
       /\ Len(lines) <= TailLines
       /\ \E place \in [DOMAIN due -> DOMAIN lines] :
             \A i \in DOMAIN due :
                 /\ IsSuffix(due[i], lines[place[i]])
                 /\ \A j \in DOMAIN due : i < j => place[i] < place[j]

AuTypeOK ==
    /\ text \in Seq(Chars)
    /\ entries \in Seq(Seq(Chars))
    /\ count \in Nat
    /\ open \in BOOLEAN
    /\ Len(entries) <= count /\ count <= MaxEntries

(* Each complete line of the file ends with an entry, and is the entry if no
   write has failed; the file ends within a line when the last one did. *)
LinesEndWithEntries ==
    LET scan == Scan(text) IN
    /\ scan.start \in 1 .. (Len(text) + 1)
    /\ open <=> scan.start <= Len(text)
    /\ Len(scan.out) = Len(entries)
    /\ \A i \in DOMAIN entries : IsSuffix(entries[i], scan.out[i])
    /\ Len(entries) = count => scan.out = entries /\ ~open

AuInv == AuTypeOK /\ LinesEndWithEntries
=============================================================================
