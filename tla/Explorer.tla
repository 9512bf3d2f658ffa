------------------------------ MODULE Explorer ------------------------------
(***************************************************************************)
(* The file explorer: loadFiles and previewFile of the page, with the      *)
(* handlers they call (files.List; what a preview holds is in Preview).    *)
(* Several requests of the page are under way at once, other programs      *)
(* change the files, and replies overtake each other.                      *)
(*                                                                         *)
(* A path is a directory of the first level, or an entry <<d, n>> of one;  *)
(* an entry that is a directory itself is empty (a bound).                 *)
(***************************************************************************)
EXTENDS Naturals, FiniteSets

CONSTANTS
    Dirs, Names,
    Slots,       \* bound on the requests of the page under way at once
    Nowhere,     \* no path
    Loading      \* the preview's content while it waits

Entries == Dirs \X Names
Paths == Dirs \cup Entries

ASSUME ExplorerAssumption == Nowhere \notin Paths /\ Dirs \cap Entries = {}

VARIABLES
    node,        \* [Entries -> what is there]
    ask,         \* [Slots -> a request under way, or NoAsk]
    currentPath, \* the directory loadFiles was last called with
    crumb,       \* the directory of the breadcrumb
    listing,     \* the rows: the path each opens, and whether as a directory
    card,        \* whether the preview is visible
    name,        \* the path over the preview
    content      \* whose content it shows, or Loading

exVars == <<node, ask, currentPath, crumb, listing, card, name, content>>

Nodes == {"absent", "file", "dir"}
Rows == [path : Entries, isDir : BOOLEAN]

(* latest: history, no preview was asked for since. *)
NoAsk == [stage |-> "free", op |-> "none", path |-> Nowhere, rows |-> {}, latest |-> FALSE]

ExInit ==
    /\ node \in [Entries -> Nodes]
    /\ ask = [s \in Slots |-> NoAsk]
    /\ currentPath \in Dirs
    /\ crumb = Nowhere
    /\ listing = {}
    /\ card = FALSE
    /\ name = Nowhere
    /\ content = [of |-> Nowhere, late |-> FALSE]

-----------------------------------------------------------------------------
(* The page. *)

(* loadFiles, called for the page, a part of the breadcrumb, or a row. *)
LoadFiles(p, s) ==
    /\ ask[s] = NoAsk
    /\ currentPath' = p
    /\ ask' = [ask EXCEPT ![s] = [NoAsk EXCEPT !.stage = "sent", !.op = "list", !.path = p]]
    /\ UNCHANGED <<node, crumb, listing, card, name, content>>

OpenDir(s) == \E d \in Dirs : LoadFiles(d, s)

ClickDirectory(s) == \E row \in listing : row.isDir /\ LoadFiles(row.path, s)

(* Mutant: the old content stays until the reply is there. *)
ClickFileKeeps(s) ==
    \E row \in listing :
        /\ ~row.isDir
        /\ ask[s] = NoAsk
        /\ card' = TRUE
        /\ name' = row.path
        /\ content' = content
        /\ ask' = [t \in Slots |->
                     IF t = s THEN [NoAsk EXCEPT !.stage = "sent", !.op = "preview",
                                                 !.path = row.path, !.latest = TRUE]
                              ELSE [ask[t] EXCEPT !.latest = FALSE]]
        /\ UNCHANGED <<node, currentPath, crumb, listing>>

(* previewFile, up to its await. *)
ClickFile(s) ==
    \E row \in listing :
        /\ ~row.isDir
        /\ ask[s] = NoAsk
        /\ card' = TRUE
        /\ name' = row.path
        /\ content' = [of |-> Loading, late |-> FALSE]
        /\ ask' = [t \in Slots |->
                     IF t = s THEN [NoAsk EXCEPT !.stage = "sent", !.op = "preview",
                                                 !.path = row.path, !.latest = TRUE]
                              ELSE [ask[t] EXCEPT !.latest = FALSE]]
        /\ UNCHANGED <<node, currentPath, crumb, listing>>

(* Mutant: rows are built from the directory last asked for. *)
ReceiveListCurrent(s) ==
    /\ ask[s].stage = "answered"
    /\ ask[s].op = "list"
    /\ crumb' = ask[s].path
    /\ listing' = {[row EXCEPT !.path = <<currentPath, row.path[2]>>] : row \in ask[s].rows}
    /\ card' = (card /\ ask[s].rows = {})
    /\ ask' = [ask EXCEPT ![s] = NoAsk]
    /\ UNCHANGED <<node, currentPath, name, content>>

(* loadFiles after its await: the breadcrumb, the rows, and, unless there are
   none, the preview hidden.  The paths are built from the directory of this
   call, whatever was asked for since. *)
ReceiveList(s) ==
    /\ ask[s].stage = "answered"
    /\ ask[s].op = "list"
    /\ crumb' = ask[s].path
    /\ listing' = ask[s].rows
    /\ card' = (card /\ ask[s].rows = {})
    /\ ask' = [ask EXCEPT ![s] = NoAsk]
    /\ UNCHANGED <<node, currentPath, name, content>>

(* previewFile after its await: the text, or the error of the reply. *)
ReceivePreview(s) ==
    /\ ask[s].stage = "answered"
    /\ ask[s].op = "preview"
    /\ content' = [of |-> ask[s].path, late |-> ~ask[s].latest]
    /\ ask' = [ask EXCEPT ![s] = NoAsk]
    /\ UNCHANGED <<node, currentPath, crumb, listing, card, name>>

(* The fetch fails.  loadFiles does not catch it: all stays as it is. *)
ListLost(s) ==
    /\ ask[s].stage # "free"
    /\ ask[s].op = "list"
    /\ ask' = [ask EXCEPT ![s] = NoAsk]
    /\ UNCHANGED <<node, currentPath, crumb, listing, card, name, content>>

(* previewFile shows the error as it would the reply. *)
PreviewLost(s) ==
    /\ ask[s].stage # "free"
    /\ ask[s].op = "preview"
    /\ content' = [of |-> ask[s].path, late |-> ~ask[s].latest]
    /\ ask' = [ask EXCEPT ![s] = NoAsk]
    /\ UNCHANGED <<node, currentPath, crumb, listing, card, name>>

-----------------------------------------------------------------------------
(* handleFilesList and List. *)

RowsOf(d, vanished) ==
    {[path |-> e, isDir |-> node[e] = "dir" /\ e \notin vanished] :
        e \in {x \in Entries : x[1] = d /\ node[x] # "absent"}}

(* The entries; for one that vanishes before its Info, a row that is no
   directory's.  Nothing for what is no directory, or cannot be read. *)
List(s) ==
    /\ ask[s].stage = "sent"
    /\ ask[s].op = "list"
    /\ \E rows \in {{}} \cup {RowsOf(ask[s].path, v) : v \in SUBSET Entries} :
          ask' = [ask EXCEPT ![s].stage = "answered", ![s].rows = rows]
    /\ UNCHANGED <<node, currentPath, crumb, listing, card, name, content>>

(* handleFilesRead. *)
ReadFile(s) ==
    /\ ask[s].stage = "sent"
    /\ ask[s].op = "preview"
    /\ ask' = [ask EXCEPT ![s].stage = "answered"]
    /\ UNCHANGED <<node, currentPath, crumb, listing, card, name, content>>

(* Other programs create, remove and replace what is there. *)
FilesChange ==
    /\ \E e \in Entries, k \in Nodes : node[e] # k /\ node' = [node EXCEPT ![e] = k]
    /\ UNCHANGED <<ask, currentPath, crumb, listing, card, name, content>>

ExNext ==
    \/ \E s \in Slots :
          \/ OpenDir(s) \/ ClickDirectory(s) \/ ClickFile(s)
          \/ ReceiveList(s) \/ ReceivePreview(s) \/ ListLost(s) \/ PreviewLost(s)
          \/ List(s) \/ ReadFile(s)
    \/ FilesChange

-----------------------------------------------------------------------------
(* The shapes of the files, the requests and the page. *)
ExTypeOK ==
    /\ node \in [Entries -> Nodes]
    /\ ask \in [Slots -> [stage : {"free", "sent", "answered"}, op : {"none", "list", "preview"},
                         path : Paths \cup {Nowhere}, rows : SUBSET Rows, latest : BOOLEAN]]
    /\ currentPath \in Paths
    /\ crumb \in Paths \cup {Nowhere}
    /\ listing \subseteq Rows
    /\ card \in BOOLEAN
    /\ name \in Entries \cup {Nowhere}
    /\ content \in [of : Entries \cup {Nowhere, Loading}, late : BOOLEAN]

(* Every row opens an entry of the directory in the breadcrumb, however the
   replies of several clicks overtake each other (loadFiles). *)
RowsOfCrumb == \A row \in listing : row.path[1] = crumb

(* What the preview shows is the file it names, or "Loading", unless a reply
   that a later click has made obsolete came last (previewFile). *)
PreviewUnderItsName == content.of = name \/ content.of = Loading \/ content.late

(* What a request carries: the rows of a reply are of the directory it asked
   for, a preview is of an entry, that of the last click of the one named. *)
AskedFor ==
    \A s \in Slots :
        /\ \A row \in ask[s].rows : row.path[1] = ask[s].path
        /\ ask[s].op = "preview" => ask[s].path \in Entries
        /\ ask[s].latest => ask[s].path = name

ExInv == ExTypeOK /\ AskedFor /\ RowsOfCrumb /\ PreviewUnderItsName
=============================================================================
