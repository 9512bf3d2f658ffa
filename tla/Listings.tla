------------------------------ MODULE Listings ------------------------------
(***************************************************************************)
(* The readers of command output: dockermgr.List, users.List and Groups,   *)
(* pkgmanager.List, network.Connections and Interfaces, the process and    *)
(* disk fields of system.Collect, and logs.Tail.  For each there is what   *)
(* the command prints of a table (external), what the code reads, and a    *)
(* statement that the table comes back.                                    *)
(***************************************************************************)
EXTENDS Settings

CONSTANTS
    MaxRows,     \* where head cuts the listing (20 sockets, 500 packages)
    MaxLogLines, \* lines of a log the page asks for (150)
    TableLength, \* bound on the rows of a table
    LogLength    \* bound on the characters of a log

(* Texts that the commands print around what is asked for, each taken as one
   character, and other characters that mean something to a reader. *)
Marking == {":", "---", "@", "<", ">", "%", "1:", "inet", "scope"}

ASSUME ListingsAssumption ==
    /\ MaxRows \in Nat /\ MaxLogLines \in Nat \ {0}
    /\ Glyphs \cap (Marking \cup {"N/A", "unreadable", "journal"}) = {}

Words == {p \in Phrases : p # <<>> /\ " " \notin ToSet(p)}

(* Rows with a separator between their columns, each with an end of line. *)
Printed(table, sep) == Joined(Append(Mapped(LAMBDA row : Joined(row, <<sep>>), table), <<>>), <<"nl">>)

-----------------------------------------------------------------------------
(* docker ps prints id, image, status and name between tabulators. *)

ContainerRow == Words \X Words \X Phrases \X Phrases
Containers == BoundedSeq(ContainerRow, TableLength)

(* Mutant: the columns are split at every blank, and empty ones vanish. *)
ContainersByFields(out) ==
    Mapped(LAMBDA line : [i \in 1..4 |-> Column(Fields(line), i)], Lines(Trim(out)))

ContainersOf(out) ==
    Mapped(LAMBDA line : [i \in 1..4 |-> Column(Split(line, "tab"), i)], Lines(Trim(out)))

(* Every container with its own columns, an empty status or name included,
   though the output is trimmed first (dockermgr.List). *)
ContainersRead(table) == ContainersOf(Printed(table, "tab")) = table

-----------------------------------------------------------------------------
(* awk prints the columns of getent with colons. *)

AccountRow == Phrases \X Words \X Phrases
Accounts == BoundedSeq(AccountRow, TableLength)

UsersOf(out) ==
    Mapped(LAMBDA line : [i \in 1..3 |-> Column(SplitN(line, ":", 3), i)], Lines(out))

GroupsOf(out) ==
    Mapped(LAMBDA line : [i \in 1..2 |-> Column(SplitN(line, ":", 2), i)], Lines(out))

(* Every account and every group, though names, homes and lines may be empty
   or hold blanks (users.List, Groups). *)
AccountsRead(table) ==
    /\ UsersOf(Printed(table, ":")) = table
    /\ LET groups == Mapped(LAMBDA row : <<row[1], row[2]>>, table)
       IN GroupsOf(Printed(groups, ":")) = groups

-----------------------------------------------------------------------------
(* awk prints four columns of ss, and the first one of dpkg -l, none empty. *)

SocketRow == Words \X Words \X Words \X Words
Sockets == BoundedSeq(SocketRow, TableLength)

ConnectionsOf(out) ==
    Mapped(LAMBDA line : [i \in 1..4 |-> Column(Fields(line), i)], Lines(Trim(out)))

PackagesOf(out) == Lines(Trim(out))

(* The first rows, each with its own columns, and the first packages
   (network.Connections, pkgmanager.List). *)
SocketsRead(table) ==
    LET names == Mapped(LAMBDA row : <<row[1]>>, table)
    IN /\ ConnectionsOf(Printed(FirstOf(table, MaxRows), " ")) = FirstOf(table, MaxRows)
       /\ PackagesOf(Printed(FirstOf(names, MaxRows), " ")) =
             Mapped(LAMBDA row : row[1], FirstOf(names, MaxRows))

-----------------------------------------------------------------------------
(* ip prints the addresses, "---" is echoed, and ip prints the links.  A link
   that hangs on another is printed with that one after its name. *)

NetLink == [name : Words, on : {<<>>} \cup {<<"@">> \o w : w \in Words}, up : BOOLEAN]
NetAddress == [name : Words, addr : Words]

NetLinks == BoundedSeq(NetLink, TableLength)
Addresses == BoundedSeq(NetAddress, TableLength)

AddressRow(a) == << <<"1:">>, a.name, <<"inet">>, a.addr, <<"scope">> >>

LinkRow(l) == << <<"1:">>, l.name \o l.on \o <<":">>,
                 IF l.up THEN <<"<", "UP", ">">> ELSE <<"<", ">">> >>

PrintInterfaces(addrs, links) ==
    Printed(Mapped(AddressRow, addrs), " ") \o <<"---", "nl">> \o Printed(Mapped(LinkRow, links), " ")

TrimSuffix(s, c) == IF s # <<>> /\ s[Len(s)] = c THEN SubSeq(s, 1, Len(s) - 1) ELSE s

(* The lines of a section that have n fields, as fields. *)
FieldRows(section, n) ==
    LET rows == Mapped(Fields, Split(Trim(section), "nl"))
    IN Picked(rows, [i \in DOMAIN rows |-> Len(rows[i]) >= n])

(* The fourth fields of the rows with that name. *)
AddressesOf(rows, name) ==
    Mapped(LAMBDA f : f[4], Picked(rows, [i \in DOMAIN rows |-> rows[i][2] = name]))

InterfacesOf(out) ==
    LET sections == SplitN(out, "---", 2)
        rows == FieldRows(sections[1], 4)
        lines == Split(Trim(Column(sections, 2)), "nl")
        links == Picked(lines, [i \in DOMAIN lines |-> Len(Fields(lines[i])) >= 3])
        interface(l) == LET name == TrimSuffix(Fields(l)[2], ":")
                        IN [name |-> name, up |-> "UP" \in ToSet(l), addrs |-> AddressesOf(rows, name)]
    IN Mapped(interface, links)

OwnAddresses(l, addrs) ==
    Mapped(LAMBDA a : a.addr, Picked(addrs, [k \in DOMAIN addrs |-> addrs[k].name = l.name]))

(* Every link, in its place and under the name ip prints.  One that is up is read
   as up, and one that is down as down unless its name holds UP.  One that hangs
   on no other has its own addresses, in their order; of the addresses of one
   that does, nothing is said here (Interfaces). *)
InterfacesRead(addrs, links) ==
    LET read == InterfacesOf(PrintInterfaces(addrs, links))
    IN /\ Len(read) = Len(links)
       /\ \A i \in DOMAIN links :
             /\ read[i].name = links[i].name \o links[i].on
             /\ links[i].up => read[i].up
             /\ read[i].up /\ "UP" \notin ToSet(links[i].name \o links[i].on) => links[i].up
             /\ links[i].on = <<>> => read[i].addrs = OwnAddresses(links[i], addrs)

-----------------------------------------------------------------------------
(* system.Collect: what a job printed, trimmed, or "N/A". *)

Failed == <<"N/A">>

OrZero(s) == IF s = <<>> THEN <<"0">> ELSE s

DiskOf(out) ==
    LET f == Fields(out)
    IN IF Len(f) >= 3 THEN <<f[1], f[2], TrimSuffix(f[3], "%")>> ELSE << <<"0">>, <<"0">>, <<"0">> >>

MemoryOf(out) ==
    LET f == Fields(out) IN IF Len(f) = 2 THEN f ELSE << <<"0">>, <<"0">> >>

(* user, pid, cpu, mem, status, command: the user is dropped. *)
ProcessesOf(out) ==
    IF out \in {<<>>, Failed} THEN <<>>
    ELSE Mapped(LAMBDA line : LET get(i) == Column(Fields(line), i)
                              IN <<get(2), get(6), OrZero(get(3)), OrZero(get(4)), get(5)>>,
                Lines(out))

(* The figures are those printed; of a failed job zeros and no process remain
   (Collect). *)
FiguresRead(table) ==
    /\ \A i \in DOMAIN table :
          LET total == table[i][1] used == table[i][2]
          IN /\ DiskOf(Joined(<<total, used, table[i][4] \o <<"%">> >>, <<" ">>)) =
                   <<total, used, table[i][4]>>
             /\ MemoryOf(Joined(<<total, used>>, <<" ">>)) = <<total, used>>
    /\ ProcessesOf(Trim(Printed(Mapped(LAMBDA r : << <<"u">>, r[1], r[2], r[3], <<"S">>, r[4]>>,
                                     table), " "))) =
          Mapped(LAMBDA r : <<r[1], r[4], r[2], r[3], <<"S">> >>, table)
    /\ DiskOf(Failed) = << <<"0">>, <<"0">>, <<"0">> >>
    /\ MemoryOf(Failed) = << <<"0">>, <<"0">> >>
    /\ ProcessesOf(Failed) = <<>>

-----------------------------------------------------------------------------
(* logs.Tail, for a log of any text, or one that cannot be read. *)

Unreadable == <<"unreadable">>
LogChars == Glyphs \cup {" ", "nl"}
LogTexts == BoundedSeq(LogChars, LogLength)

(* tail -n: a last line without its end counts. *)
TailN(s, n) ==
    LET whole == Split(s, "nl")
        lines == IF whole[Len(whole)] = <<>> THEN SubSeq(whole, 1, Len(whole) - 1) ELSE whole
    IN Joined(LastOf(lines, n), <<"nl">>)

LogTail(log, journal) ==
    LET out == TailN(log, MaxLogLines)
    IN IF log # Unreadable /\ Trim(out) # <<>> THEN Lines(out)
       ELSE IF journal # Unreadable THEN Lines(journal)
       ELSE << <<"Error: cannot read logs">> >>

(* handleLogs: the file asked for if it is one of AllowedLogs, here "listed". *)
LogPage(asked, log, syslog, journal) ==
    LogTail(IF asked = "listed" THEN log ELSE syslog, journal)

(* The page shows the latest lines of the log without its empty ones, at most
   as many as it asks for, or else the journal: never both, never a part of a
   line, nothing left out between two lines it shows, and no other file than a
   listed one or syslog.  A log whose last line is not blank is shown (Tail,
   handleLogs). *)
LogReads(asked, log) ==
    LET syslog == <<"syslog">>
        journal == <<"journal">>
        shown == LogPage(asked, log, syslog, journal)
    IN IF asked # "listed" THEN shown = <<syslog>>
       ELSE /\ \/ shown = <<journal>>
               \/ shown # <<>> /\ Len(shown) <= MaxLogLines
                  /\ shown = LastOf(Lines(log), Len(shown))
            /\ log # Unreadable /\ log # <<>> /\ log[Len(log)] \in Glyphs => shown # <<journal>>
=============================================================================
