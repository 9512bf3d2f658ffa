---------------------------- MODULE Panel_proofs ----------------------------
(***************************************************************************)
(* Proofs about Panel for any number of pages, requests, files, rules and  *)
(* entries: the explorer, the preview, the firewall editor, the file under *)
(* the audit log, then their composition, with what Readers_proofs says of *)
(* texts.                                                                  *)
(***************************************************************************)
EXTENDS Panel, Readers_proofs

(* Explorer. *)

Asks == [stage : {"free", "sent", "answered"}, op : {"none", "list", "preview"},
         path : Paths \cup {Nowhere}, rows : SUBSET Rows, latest : BOOLEAN]

LEMMA ExInitInv == ExInit => ExInv
<1> SUFFICES ASSUME ExInit PROVE ExInv
  OBVIOUS
<1> USE DEF ExInit
<1>1. NoAsk \in Asks
  BY DEF NoAsk, Asks
<1>2. ExTypeOK
  BY <1>1 DEF ExTypeOK, Asks, Paths
<1>3. AskedFor /\ RowsOfCrumb /\ PreviewUnderItsName
  BY DEF AskedFor, NoAsk, RowsOfCrumb, PreviewUnderItsName
<1> QED
  BY <1>2, <1>3 DEF ExInv

(* A step that touches neither the page's content nor a request but that of s,
   which it leaves as request x. *)
LEMMA AskStep ==
    ASSUME ExInv, NEW s \in Slots, NEW x \in Asks, ask' = [ask EXCEPT ![s] = x],
           \A row \in x.rows : row.path[1] = x.path,
           x.op = "preview" => x.path \in Entries,
           x.latest => x.path = name,
           UNCHANGED name
    PROVE  /\ ask' \in [Slots -> Asks]
           /\ AskedFor'
BY DEF ExInv, ExTypeOK, AskedFor, Asks

LEMMA ExNextInv == ExInv /\ [ExNext]_exVars => ExInv'
<1> SUFFICES ASSUME ExInv, [ExNext]_exVars PROVE ExInv'
  OBVIOUS
<1>t. /\ ask \in [Slots -> Asks]
      /\ ExTypeOK /\ AskedFor /\ RowsOfCrumb /\ PreviewUnderItsName
  BY DEF ExInv, ExTypeOK, Asks
<1>n. NoAsk \in Asks /\ NoAsk.rows = {} /\ NoAsk.op = "none" /\ ~NoAsk.latest
  BY DEF NoAsk, Asks
<1>1. ASSUME NEW s \in Slots, NEW p \in Paths, LoadFiles(p, s) PROVE ExInv'
  <2> DEFINE x == [NoAsk EXCEPT !.stage = "sent", !.op = "list", !.path = p]
  <2>1. x \in Asks /\ x.rows = {} /\ x.op = "list" /\ ~x.latest
    BY DEF NoAsk, Asks
  <2> HIDE DEF x
  <2>2. ask' = [ask EXCEPT ![s] = x]
    BY <1>1 DEF LoadFiles, x
  <2>3. ask' \in [Slots -> Asks] /\ AskedFor'
    BY <1>1, <2>1, <2>2, AskStep DEF LoadFiles
  <2> QED
    BY <1>1, <1>t, <2>3 DEF LoadFiles, ExInv, ExTypeOK, Asks, RowsOfCrumb, PreviewUnderItsName
<1>2. ASSUME NEW s \in Slots, OpenDir(s) \/ ClickDirectory(s) PROVE ExInv'
  <2>1. PICK p \in Paths : LoadFiles(p, s)
    BY <1>2, <1>t DEF OpenDir, ClickDirectory, ExTypeOK, Rows, Paths
  <2> QED
    BY <1>1, <2>1
<1>3. ASSUME NEW s \in Slots, ClickFile(s) PROVE ExInv'
  <2>1. PICK row \in listing :
           /\ card' = TRUE /\ name' = row.path
           /\ content' = [of |-> Loading, late |-> FALSE]
           /\ ask' = [t \in Slots |->
                        IF t = s THEN [NoAsk EXCEPT !.stage = "sent", !.op = "preview",
                                                    !.path = row.path, !.latest = TRUE]
                                 ELSE [ask[t] EXCEPT !.latest = FALSE]]
           /\ UNCHANGED <<node, currentPath, crumb, listing>>
    BY <1>3 DEF ClickFile
  <2>2. row.path \in Entries
    BY <1>t DEF ExTypeOK, Rows
  <2>3. ask' \in [Slots -> Asks]
    BY <1>t, <2>1, <2>2 DEF Asks, NoAsk, Paths
  <2>4. AskedFor'
    BY <1>t, <2>1, <2>2 DEF AskedFor, Asks, NoAsk
  <2> QED
    BY <1>t, <2>1, <2>2, <2>3, <2>4
       DEF ExInv, ExTypeOK, Asks, RowsOfCrumb, PreviewUnderItsName
<1>4. ASSUME NEW s \in Slots, ReceiveList(s) PROVE ExInv'
  <2>1. ask' \in [Slots -> Asks] /\ AskedFor'
    BY <1>4, <1>n, AskStep DEF ReceiveList
  <2>2. ask[s] \in Asks /\ \A row \in ask[s].rows : row.path[1] = ask[s].path
    BY <1>t DEF AskedFor
  <2> QED
    BY <1>4, <1>t, <2>1, <2>2
       DEF ReceiveList, ExInv, ExTypeOK, Asks, RowsOfCrumb, PreviewUnderItsName
<1>5. ASSUME NEW s \in Slots, ReceivePreview(s) \/ PreviewLost(s) PROVE ExInv'
  <2>1. ask' \in [Slots -> Asks] /\ AskedFor'
    BY <1>5, <1>n, AskStep DEF ReceivePreview, PreviewLost
  <2>2. ask[s] \in Asks /\ ask[s].path \in Entries /\ (ask[s].latest => ask[s].path = name)
    BY <1>5, <1>t DEF AskedFor, ReceivePreview, PreviewLost
  <2>3. /\ content' = [of |-> ask[s].path, late |-> ~ask[s].latest]
        /\ UNCHANGED <<node, currentPath, crumb, listing, card, name>>
    BY <1>5 DEF ReceivePreview, PreviewLost
  <2>4. content' \in [of : Entries \cup {Nowhere, Loading}, late : BOOLEAN]
    BY <2>2, <2>3
  <2>5. PreviewUnderItsName'
    <3>1. CASE ask[s].latest
      BY <3>1, <2>2, <2>3 DEF PreviewUnderItsName
    <3>2. CASE ~ask[s].latest
      BY <3>2, <2>3 DEF PreviewUnderItsName
    <3> QED
      BY <3>1, <3>2
  <2> QED
    BY <1>t, <2>1, <2>3, <2>4, <2>5 DEF ExInv, ExTypeOK, Asks, RowsOfCrumb
<1>6. ASSUME NEW s \in Slots, ListLost(s) PROVE ExInv'
  <2>1. ask' \in [Slots -> Asks] /\ AskedFor'
    BY <1>6, <1>n, AskStep DEF ListLost
  <2> QED
    BY <1>6, <1>t, <2>1
       DEF ListLost, ExInv, ExTypeOK, Asks, RowsOfCrumb, PreviewUnderItsName
<1>7. ASSUME NEW s \in Slots, List(s) PROVE ExInv'
  <2>1. PICK got \in {{}} \cup {RowsOf(ask[s].path, v) : v \in SUBSET Entries} :
           ask' = [ask EXCEPT ![s].stage = "answered", ![s].rows = got]
    BY <1>7 DEF List
  <2>2. PICK v \in SUBSET Entries : got = {} \/ got = RowsOf(ask[s].path, v)
    BY <2>1
  <2>3. got \subseteq Rows /\ \A row \in got : row.path[1] = ask[s].path
    <3> SUFFICES ASSUME NEW row \in got PROVE row \in Rows /\ row.path[1] = ask[s].path
      OBVIOUS
    <3>1. PICK e \in Entries : /\ e[1] = ask[s].path
                              /\ row = [path |-> e, isDir |-> node[e] = "dir" /\ e \notin v]
      BY <2>2 DEF RowsOf
    <3> QED
      BY <3>1 DEF Rows
  <2> DEFINE x == [ask[s] EXCEPT !.stage = "answered", !.rows = got]
  <2>4. /\ x \in Asks /\ x.rows = got /\ x.path = ask[s].path /\ x.latest = ask[s].latest
        /\ x.op = ask[s].op
        /\ ask' = [ask EXCEPT ![s] = x]
    BY <1>t, <2>1, <2>3 DEF Asks
  <2> HIDE DEF x
  <2>5. ask' \in [Slots -> Asks] /\ AskedFor'
    BY <1>7, <1>t, <2>3, <2>4, AskStep DEF List, AskedFor
  <2> QED
    BY <1>7, <1>t, <2>5
       DEF List, ExInv, ExTypeOK, Asks, RowsOfCrumb, PreviewUnderItsName
<1>8. ASSUME NEW s \in Slots, ReadFile(s) PROVE ExInv'
  <2> DEFINE x == [ask[s] EXCEPT !.stage = "answered"]
  <2>1. /\ x \in Asks /\ x.rows = ask[s].rows /\ x.path = ask[s].path
        /\ x.latest = ask[s].latest /\ x.op = ask[s].op
        /\ ask' = [ask EXCEPT ![s] = x]
    BY <1>8, <1>t DEF ReadFile, Asks
  <2> HIDE DEF x
  <2>2. ask' \in [Slots -> Asks] /\ AskedFor'
    BY <1>8, <1>t, <2>1, AskStep DEF ReadFile, AskedFor
  <2> QED
    BY <1>8, <1>t, <2>2
       DEF ReadFile, ExInv, ExTypeOK, Asks, RowsOfCrumb, PreviewUnderItsName
<1>9. CASE FilesChange
  BY <1>9, <1>t DEF FilesChange, ExInv, ExTypeOK, AskedFor, RowsOfCrumb, PreviewUnderItsName
<1>10. CASE UNCHANGED exVars
  BY <1>10, <1>t DEF exVars, ExInv, ExTypeOK, AskedFor, RowsOfCrumb, PreviewUnderItsName
<1> QED
  BY <1>2, <1>3, <1>4, <1>5, <1>6, <1>7, <1>8, <1>9, <1>10 DEF ExNext

(* Preview. *)

LEMMA ContentsDef ==
    /\ \A b : b \in Contents <=> b \in Seq(Byte) /\ Len(b) <= MaxSize
    /\ Missing \notin Contents /\ Directory \notin Contents
<1>1. Contents = UNION {[1..m -> Byte] : m \in 0..MaxSize}
  BY DEF Contents, BoundedSeq, SeqOf
<1>2. ASSUME NEW b \in Contents PROVE b \in Seq(Byte) /\ Len(b) <= MaxSize
  <2>1. PICK m \in 0..MaxSize : b \in [1..m -> Byte]
    BY <1>1
  <2>2. m \in Nat
    BY <2>1, PreviewAssumption
  <2> QED
    BY <2>1, <2>2
<1>3. ASSUME NEW b \in Seq(Byte), Len(b) <= MaxSize PROVE b \in Contents
  BY <1>1, <1>3, PreviewAssumption
<1> QED
  BY <1>2, <1>3, PreviewAssumption

(* What Read returns fits in the cap and in the file, and is the whole file if
   that fits. *)
LEMMA FirstBytesOf ==
    ASSUME NEW b \in Contents
    PROVE  /\ FirstBytes(b) \in Contents
           /\ Len(FirstBytes(b)) = IF Len(b) < Cap THEN Len(b) ELSE Cap
           /\ Len(b) <= Cap => FirstBytes(b) = b
<1> DEFINE n == IF Len(b) < Cap THEN Len(b) ELSE Cap
<1>1. b \in Seq(Byte) /\ Len(b) <= MaxSize /\ Len(b) \in Nat /\ Cap \in Nat /\ MaxSize \in Nat
  BY ContentsDef, PreviewAssumption
<1>2. n \in 0..Len(b) /\ n <= Cap /\ (Len(b) <= Cap => n = Len(b))
  BY <1>1
<1> HIDE DEF n
<1>3. \A i \in 1..n : b[i] \in Byte
  BY <1>1, <1>2
<1>4. SubSeq(b, 1, n) \in Seq(Byte) /\ Len(SubSeq(b, 1, n)) = n
  BY <1>1, <1>2, <1>3, SubSeqProperties
<1>5. FirstBytes(b) = SubSeq(b, 1, n)
  BY DEF FirstBytes, n
<1>6. Len(b) <= Cap => SubSeq(b, 1, n) = b
  BY <1>1, <1>2, SubSeqFull
<1>7. FirstBytes(b) \in Contents
  <2>1. FirstBytes(b) \in Seq(Byte) /\ Len(FirstBytes(b)) <= MaxSize
    BY <1>1, <1>2, <1>4, <1>5
  <2> QED
    BY <2>1, ContentsDef
<1>8. n = IF Len(b) < Cap THEN Len(b) ELSE Cap
  BY DEF n
<1> QED
  BY <1>4, <1>5, <1>6, <1>7, <1>8

LEMMA EmptyReply ==
    /\ NoReply.status = "none" /\ NoReply.content = <<>> /\ NoReply.truncated \in BOOLEAN
    /\ <<>> \in Contents /\ Valid(<<>>) /\ Len(<<>>) <= Cap
<1>1. <<>> \in Contents
  <2>1. <<>> \in Seq(Byte) /\ Len(<<>>) <= MaxSize
    BY PreviewAssumption
  <2> QED
    BY <2>1, ContentsDef
<1>2. Valid(<<>>)
  BY DEF Valid
<1> QED
  BY <1>1, <1>2, PreviewAssumption DEF NoReply

LEMMA PvInitInv == PvInit => PvInv
<1> SUFFICES ASSUME PvInit PROVE PvInv
  OBVIOUS
<1>1. PvTypeOK
  <2>1. size \in 0..MaxSize
    BY PreviewAssumption DEF PvInit
  <2> QED
    BY <2>1, EmptyReply, Zenon DEF PvInit, PvTypeOK
<1>2. SizeKnown /\ PreviewExact
  BY EmptyReply DEF PvInit, SizeKnown, PreviewExact
<1> QED
  BY <1>1, <1>2 DEF PvInv

(* The reply of a request is x from now on, and the request is over. *)
LEMMA AnswerStep ==
    ASSUME PvInv, NEW x, Answer(x),
           x.status \in {"error", "binary", "text"}, x.content \in Contents,
           x.truncated \in BOOLEAN,
           x.status = "text" => Valid(x.content) /\ Len(x.content) <= Cap,
           x.status = "text" /\ steady /\ ~sizeless =>
               x.content = FirstBytes(file) /\ (x.truncated <=> Len(file) > Cap),
           x.status = "binary" => ~(Valid(file) /\ Len(file) <= Cap)
    PROVE  PvInv'
<1>1. /\ step' = "answered" /\ reply' = x /\ UNCHANGED <<file, sizeless, size, steady>>
  BY DEF Answer
<1>2. PvTypeOK'
  BY <1>1 DEF PvInv, PvTypeOK
<1>3. SizeKnown'
  BY <1>1 DEF SizeKnown
<1>4. PreviewExact'
  BY <1>1 DEF PreviewExact, FirstBytes
<1> QED
  BY <1>2, <1>3, <1>4 DEF PvInv

LEMMA PvNextInv == PvInv /\ [PvNext]_pvVars => PvInv'
<1> SUFFICES ASSUME PvInv, [PvNext]_pvVars PROVE PvInv'
  OBVIOUS
<1>t. PvTypeOK /\ SizeKnown /\ PreviewExact
  BY DEF PvInv
<1>1. CASE Stat
  <2>1. PvTypeOK'
    BY <1>1, <1>t, ContentsDef, PreviewAssumption DEF Stat, PvTypeOK
  <2>2. SizeKnown' /\ PreviewExact'
    BY <1>1, <1>t, EmptyReply DEF Stat, SizeKnown, PreviewExact
  <2> QED
    BY <2>1, <2>2 DEF PvInv
<1>2. CASE StatRefuses \/ OpenFails
  <2>1. Answer(Failure("error"))
    BY <1>2 DEF StatRefuses, OpenFails
  <2>2. /\ Failure("error").status = "error" /\ Failure("error").content = <<>>
        /\ Failure("error").truncated \in BOOLEAN
    BY DEF Failure, NoReply
  <2> HIDE DEF Failure
  <2> QED
    BY <2>1, <2>2, EmptyReply, AnswerStep
<1>3. CASE Read
  <2>1. step = "statted" /\ file \in Contents
    BY <1>3 DEF Read
  <2>2. CASE Valid(FirstBytes(file))
    <3> DEFINE x == [status |-> "text", content |-> FirstBytes(file),
                     truncated |-> size > Len(FirstBytes(file))]
    <3>1. Answer(x)
      BY <1>3, <2>2 DEF Read
    <3>2. x.content \in Contents /\ Valid(x.content) /\ Len(x.content) <= Cap
      BY <2>1, <2>2, FirstBytesOf, ContentsDef, PreviewAssumption
    <3>3. steady /\ ~sizeless => (x.truncated <=> Len(file) > Cap)
      <4> SUFFICES ASSUME steady, ~sizeless
                   PROVE  size > Len(FirstBytes(file)) <=> Len(file) > Cap
        OBVIOUS
      <4>1. size = Len(file) /\ Len(file) \in Nat /\ Cap \in Nat
        BY <1>t, <2>1, ContentsDef, PreviewAssumption DEF SizeKnown
      <4>2. Len(FirstBytes(file)) = IF Len(file) < Cap THEN Len(file) ELSE Cap
        BY <2>1, FirstBytesOf
      <4> QED
        BY <4>1, <4>2
    <3>4. x.status = "text" /\ x.content = FirstBytes(file) /\ x.truncated \in BOOLEAN
      OBVIOUS
    <3> HIDE DEF x
    <3> QED
      BY <3>1, <3>2, <3>3, <3>4, AnswerStep
  <2>3. CASE ~Valid(FirstBytes(file))
    <3>1. Answer(Failure("binary"))
      BY <1>3, <2>3 DEF Read
    <3>2. /\ Failure("binary").status = "binary" /\ Failure("binary").content = <<>>
          /\ Failure("binary").truncated \in BOOLEAN
      BY DEF Failure, NoReply
    <3>3. ~(Valid(file) /\ Len(file) <= Cap)
      BY <2>1, <2>3, FirstBytesOf
    <3> QED
      BY <3>1, <3>2, <3>3, EmptyReply, AnswerStep
  <2> QED
    BY <2>2, <2>3
<1>4. CASE ReadFails
  <2>1. PvTypeOK'
    <3>1. /\ reply'.status = "text" /\ reply'.content = <<>>
          /\ reply'.truncated = (size > 0)
      BY <1>4 DEF ReadFails
    <3>2. reply'.truncated \in BOOLEAN
      BY <3>1
    <3> QED
      BY <3>1, <3>2, <1>4, <1>t, EmptyReply DEF ReadFails, PvTypeOK
  <2>2. SizeKnown' /\ PreviewExact'
    BY <1>4, EmptyReply DEF ReadFails, SizeKnown, PreviewExact
  <2> QED
    BY <2>1, <2>2 DEF PvInv
<1>5. CASE Done
  <2>1. PvTypeOK'
    <3>1. size' \in 0..MaxSize
      BY <1>5, PreviewAssumption DEF Done
    <3> QED
      BY <3>1, <1>5, <1>t, EmptyReply, Zenon DEF Done, PvTypeOK
  <2>2. SizeKnown' /\ PreviewExact'
    BY <1>5, EmptyReply DEF Done, SizeKnown, PreviewExact
  <2> QED
    BY <2>1, <2>2 DEF PvInv
<1>6. CASE FileChanges
  <2>1. PvTypeOK'
    BY <1>6, <1>t DEF FileChanges, PvTypeOK
  <2>2. SizeKnown' /\ PreviewExact'
    BY <1>6, <1>t, EmptyReply DEF FileChanges, SizeKnown, PreviewExact
  <2> QED
    BY <2>1, <2>2 DEF PvInv
<1>7. CASE UNCHANGED pvVars
  BY <1>7, <1>t DEF pvVars, PvInv, PvTypeOK, SizeKnown, PreviewExact, FirstBytes
<1> QED
  BY <1>1, <1>2, <1>3, <1>4, <1>5, <1>6, <1>7 DEF PvNext

(* Firewall: ufw. *)

LEMMA RemoveAtIs ==
    ASSUME NEW S, NEW s \in Seq(S), NEW n \in 1..Len(s)
    PROVE  /\ RemoveAt(s, n) \in Seq(S)
           /\ Len(RemoveAt(s, n)) = Len(s) - 1
           /\ \A i \in 1..(Len(s) - 1) : RemoveAt(s, n)[i] = IF i < n THEN s[i] ELSE s[i + 1]
<1> DEFINE a == SubSeq(s, 1, n - 1)
           b == SubSeq(s, n + 1, Len(s))
<1>1. Len(s) \in Nat /\ n \in Nat /\ \A i \in 1..Len(s) : s[i] \in S
  BY LenProperties, ElementOfSeq
<1>2. a \in Seq(S) /\ Len(a) = n - 1 /\ \A i \in 1..(n - 1) : a[i] = s[i]
  <2>1. /\ a \in Seq(S) /\ Len(a) = (IF 1 <= n - 1 THEN (n - 1) - 1 + 1 ELSE 0)
        /\ \A i \in 1..((n - 1) - 1 + 1) : a[i] = s[1 + i - 1]
    BY <1>1, SubSeqProperties
  <2> HIDE DEF a
  <2> QED
    BY <1>1, <2>1
<1>3. /\ b \in Seq(S) /\ Len(b) = Len(s) - n
      /\ \A i \in 1..(Len(s) - n) : b[i] = s[i + n]
  <2>1. /\ b \in Seq(S) /\ Len(b) = (IF n + 1 <= Len(s) THEN Len(s) - (n + 1) + 1 ELSE 0)
        /\ \A i \in 1..(Len(s) - (n + 1) + 1) : b[i] = s[(n + 1) + i - 1]
    BY <1>1, SubSeqProperties
  <2> HIDE DEF b
  <2> QED
    BY <1>1, <2>1
<1>4. RemoveAt(s, n) = a \o b
  BY DEF RemoveAt
<1> HIDE DEF a, b
<1>5. /\ a \o b \in Seq(S) /\ Len(a \o b) = Len(a) + Len(b)
      /\ \A i \in 1..(Len(a) + Len(b)) : (a \o b)[i] = IF i <= Len(a) THEN a[i] ELSE b[i - Len(a)]
  BY <1>2, <1>3, ConcatProperties
<1>6. ASSUME NEW i \in 1..(Len(s) - 1)
      PROVE  RemoveAt(s, n)[i] = IF i < n THEN s[i] ELSE s[i + 1]
  <2>1. RemoveAt(s, n)[i] = IF i <= n - 1 THEN a[i] ELSE b[i - (n - 1)]
    <3>1. Len(a) = n - 1 /\ i \in 1..(Len(a) + Len(b))
      BY <1>1, <1>2, <1>3
    <3>2. (a \o b)[i] = IF i <= Len(a) THEN a[i] ELSE b[i - Len(a)]
      BY <1>5, <3>1
    <3> QED
      BY <1>4, <3>1, <3>2
  <2>2. CASE i < n
    BY <1>1, <1>2, <2>1, <2>2
  <2>3. CASE ~(i < n)
    <3>1. i - (n - 1) \in 1..(Len(s) - n) /\ (i - (n - 1)) + n = i + 1 /\ ~(i <= n - 1)
      BY <1>1, <2>3
    <3>2. b[i - (n - 1)] = s[(i - (n - 1)) + n]
      BY <1>3, <3>1
    <3> QED
      BY <2>1, <2>3, <3>1, <3>2
  <2> QED
    BY <2>2, <2>3
<1>7. RemoveAt(s, n) \in Seq(S) /\ Len(RemoveAt(s, n)) = Len(s) - 1
  <2>1. Len(a) + Len(b) = Len(s) - 1
    BY <1>1, <1>2, <1>3
  <2> QED
    BY <1>4, <1>5, <2>1
<1> QED
  BY <1>6, <1>7

(* `ufw status numbered` of the rules a and b. *)
Listed(a, b) == Tagged("v4", a) \o Tagged("v6", b)

LEMMA ListedIs ==
    ASSUME NEW a \in Seq(Specs), NEW b \in Seq(Specs)
    PROVE  /\ Listed(a, b) \in Seq(Rules)
           /\ Len(Listed(a, b)) = Len(a) + Len(b)
           /\ DOMAIN Listed(a, b) = 1..(Len(a) + Len(b))
           /\ \A i \in 1..(Len(a) + Len(b)) :
                 Listed(a, b)[i] = IF i <= Len(a) THEN <<"v4", a[i]>> ELSE <<"v6", b[i - Len(a)]>>
<1>1. ASSUME NEW family \in {"v4", "v6"}, NEW s \in Seq(Specs)
      PROVE  /\ Tagged(family, s) \in Seq(Rules) /\ Len(Tagged(family, s)) = Len(s)
             /\ \A i \in 1..Len(s) : Tagged(family, s)[i] = <<family, s[i]>>
  <2>1. Tagged(family, s) = [i \in 1..Len(s) |-> <<family, s[i]>>]
    BY DEF Tagged
  <2>2. Len(s) \in Nat /\ \A i \in 1..Len(s) : <<family, s[i]>> \in Rules
    BY ElementOfSeq DEF Rules
  <2> QED
    BY <2>1, <2>2
<1>2. /\ Tagged("v4", a) \in Seq(Rules) /\ Len(Tagged("v4", a)) = Len(a)
      /\ Tagged("v6", b) \in Seq(Rules) /\ Len(Tagged("v6", b)) = Len(b)
      /\ Len(a) \in Nat /\ Len(b) \in Nat
  BY <1>1
<1>3. ASSUME NEW i \in 1..(Len(a) + Len(b))
      PROVE  Listed(a, b)[i] = IF i <= Len(a) THEN <<"v4", a[i]>> ELSE <<"v6", b[i - Len(a)]>>
  <2>1. Listed(a, b)[i] = IF i <= Len(a) THEN Tagged("v4", a)[i] ELSE Tagged("v6", b)[i - Len(a)]
    BY <1>2, ConcatProperties DEF Listed
  <2>2. IF i <= Len(a) THEN i \in 1..Len(a) ELSE i - Len(a) \in 1..Len(b)
    BY <1>2
  <2> QED
    BY <1>1, <2>1, <2>2
<1>4. Listed(a, b) \in Seq(Rules) /\ Len(Listed(a, b)) = Len(a) + Len(b)
  <2>1. /\ Tagged("v4", a) \o Tagged("v6", b) \in Seq(Rules)
        /\ Len(Tagged("v4", a) \o Tagged("v6", b)) = Len(Tagged("v4", a)) + Len(Tagged("v6", b))
    BY <1>2, ConcatProperties
  <2> QED
    BY <1>2, <2>1 DEF Listed
<1> QED
  BY <1>3, <1>4, LenProperties

(* Deleting number n of the list is deleting from the family it falls into. *)
LEMMA DeleteIsRemoveAt ==
    ASSUME NEW a \in Seq(Specs), NEW b \in Seq(Specs), NEW n \in DOMAIN Listed(a, b),
           NEW c, NEW d,
           IF n <= Len(a) THEN c = RemoveAt(a, n) /\ d = b
                          ELSE d = RemoveAt(b, n - Len(a)) /\ c = a
    PROVE  /\ c \in Seq(Specs) /\ d \in Seq(Specs)
           /\ Listed(c, d) = RemoveAt(Listed(a, b), n)
<1> DEFINE l == Listed(a, b)
<1>1. Len(a) \in Nat /\ Len(b) \in Nat /\ n \in 1..(Len(a) + Len(b))
  BY ListedIs
<1>2. l \in Seq(Rules) /\ Len(l) = Len(a) + Len(b)
  BY ListedIs
<1>4. \A i \in 1..(Len(a) + Len(b)) :
         l[i] = IF i <= Len(a) THEN <<"v4", a[i]>> ELSE <<"v6", b[i - Len(a)]>>
  BY ListedIs
<1> HIDE DEF l
<1>3. /\ RemoveAt(l, n) \in Seq(Rules) /\ Len(RemoveAt(l, n)) = Len(a) + Len(b) - 1
      /\ \A i \in 1..(Len(a) + Len(b) - 1) : RemoveAt(l, n)[i] = IF i < n THEN l[i] ELSE l[i + 1]
  <2>1. n \in 1..Len(l)
    BY <1>1, <1>2
  <2>2. /\ RemoveAt(l, n) \in Seq(Rules) /\ Len(RemoveAt(l, n)) = Len(l) - 1
        /\ \A i \in 1..(Len(l) - 1) : RemoveAt(l, n)[i] = IF i < n THEN l[i] ELSE l[i + 1]
    BY <1>2, <2>1, RemoveAtIs
  <2> QED
    BY <1>2, <2>2
<1>5. CASE n <= Len(a)
  <2>1. /\ c \in Seq(Specs) /\ d \in Seq(Specs) /\ Len(c) = Len(a) - 1 /\ d = b
        /\ \A i \in 1..(Len(a) - 1) : c[i] = IF i < n THEN a[i] ELSE a[i + 1]
    BY <1>1, <1>5, RemoveAtIs
  <2>2. /\ Listed(c, d) \in Seq(Rules) /\ Len(Listed(c, d)) = Len(a) + Len(b) - 1
        /\ \A i \in 1..(Len(a) + Len(b) - 1) :
              Listed(c, d)[i] = IF i <= Len(a) - 1 THEN <<"v4", c[i]>>
                                                  ELSE <<"v6", b[i - (Len(a) - 1)]>>
    <3>1. /\ Listed(c, b) \in Seq(Rules) /\ Len(Listed(c, b)) = Len(c) + Len(b)
          /\ \A i \in 1..(Len(c) + Len(b)) :
                Listed(c, b)[i] = IF i <= Len(c) THEN <<"v4", c[i]>> ELSE <<"v6", b[i - Len(c)]>>
      BY <2>1, ListedIs
    <3>2. Len(c) + Len(b) = Len(a) + Len(b) - 1
      BY <1>1, <2>1
    <3> QED
      BY <2>1, <3>1, <3>2
  <2>3. ASSUME NEW i \in 1..(Len(a) + Len(b) - 1) PROVE Listed(c, d)[i] = RemoveAt(l, n)[i]
    <3>1. CASE i < n
      <4>0. i \in 1..(Len(a) + Len(b)) /\ i <= Len(a) - 1 /\ i \in 1..(Len(a) - 1) /\ i <= Len(a)
        BY <1>1, <1>5, <3>1
      <4>1. Listed(c, d)[i] = <<"v4", a[i]>>
        <5>1. c[i] = a[i]
          BY <2>1, <3>1, <4>0
        <5> QED
          BY <2>2, <4>0, <5>1
      <4>2. l[i] = <<"v4", a[i]>>
        BY <1>4, <4>0
      <4> QED
        BY <1>3, <3>1, <4>1, <4>2
    <3>2. CASE ~(i < n) /\ i <= Len(a) - 1
      <4>0. i + 1 \in 1..(Len(a) + Len(b)) /\ i + 1 <= Len(a) /\ i \in 1..(Len(a) - 1)
        BY <1>1, <3>2
      <4>1. Listed(c, d)[i] = <<"v4", c[i]>> /\ c[i] = a[i + 1]
        BY <2>1, <2>2, <3>2, <4>0
      <4>2. l[i + 1] = <<"v4", a[i + 1]>>
        BY <1>4, <4>0
      <4> QED
        BY <1>3, <3>2, <4>1, <4>2
    <3>3. CASE ~(i <= Len(a) - 1)
      <4>0. /\ i - (Len(a) - 1) = (i + 1) - Len(a) /\ ~(i < n) /\ ~(i + 1 <= Len(a))
            /\ i + 1 \in 1..(Len(a) + Len(b))
        BY <1>1, <1>5, <3>3
      <4>1. Listed(c, d)[i] = <<"v6", b[i - (Len(a) - 1)]>>
        BY <2>2, <3>3
      <4>2. l[i + 1] = <<"v6", b[(i + 1) - Len(a)]>>
        BY <1>4, <4>0
      <4> QED
        BY <1>3, <4>0, <4>1, <4>2
    <3> QED
      BY <1>1, <1>5, <3>1, <3>2, <3>3
  <2> QED
    BY <1>1, <1>3, <2>1, <2>2, <2>3, SeqEqual DEF l
<1>6. CASE ~(n <= Len(a))
  <2>0. n - Len(a) \in 1..Len(b)
    BY <1>1, <1>6
  <2>1. /\ c \in Seq(Specs) /\ d \in Seq(Specs) /\ Len(d) = Len(b) - 1 /\ c = a
        /\ \A i \in 1..(Len(b) - 1) : d[i] = IF i < n - Len(a) THEN b[i] ELSE b[i + 1]
    BY <1>1, <1>6, <2>0, RemoveAtIs
  <2>2. /\ Listed(c, d) \in Seq(Rules) /\ Len(Listed(c, d)) = Len(a) + Len(b) - 1
        /\ \A i \in 1..(Len(a) + Len(b) - 1) :
              Listed(c, d)[i] = IF i <= Len(a) THEN <<"v4", a[i]>> ELSE <<"v6", d[i - Len(a)]>>
    BY <1>1, <2>1, ListedIs
  <2>3. ASSUME NEW i \in 1..(Len(a) + Len(b) - 1) PROVE Listed(c, d)[i] = RemoveAt(l, n)[i]
    <3>1. CASE i <= Len(a)
      <4>0. i \in 1..(Len(a) + Len(b)) /\ i < n
        BY <1>1, <1>6, <3>1
      <4>1. Listed(c, d)[i] = <<"v4", a[i]>>
        BY <2>2, <3>1
      <4>2. l[i] = <<"v4", a[i]>>
        BY <1>4, <3>1, <4>0
      <4> QED
        BY <1>3, <4>0, <4>1, <4>2
    <3>2. CASE ~(i <= Len(a)) /\ i < n
      <4>0. /\ i - Len(a) \in 1..(Len(b) - 1) /\ i - Len(a) < n - Len(a)
            /\ i \in 1..(Len(a) + Len(b))
        BY <1>1, <3>2
      <4>1. Listed(c, d)[i] = <<"v6", d[i - Len(a)]>> /\ d[i - Len(a)] = b[i - Len(a)]
        BY <2>1, <2>2, <3>2, <4>0
      <4>2. l[i] = <<"v6", b[i - Len(a)]>>
        BY <1>4, <3>2, <4>0
      <4> QED
        BY <1>3, <3>2, <4>1, <4>2
    <3>3. CASE ~(i < n)
      <4>1. /\ i - Len(a) \in 1..(Len(b) - 1) /\ ~(i - Len(a) < n - Len(a)) /\ ~(i <= Len(a))
            /\ (i - Len(a)) + 1 = (i + 1) - Len(a) /\ i + 1 \in 1..(Len(a) + Len(b))
            /\ ~(i + 1 <= Len(a))
        BY <1>1, <1>6, <3>3
      <4>2. Listed(c, d)[i] = <<"v6", d[i - Len(a)]>> /\ d[i - Len(a)] = b[(i - Len(a)) + 1]
        BY <2>1, <2>2, <4>1
      <4>3. l[i + 1] = <<"v6", b[(i + 1) - Len(a)]>>
        BY <1>4, <4>1
      <4> QED
        BY <1>3, <3>3, <4>1, <4>2, <4>3
    <3> QED
      BY <3>1, <3>2, <3>3
  <2> QED
    BY <1>1, <1>3, <2>1, <2>2, <2>3, SeqEqual DEF l
<1> QED
  BY <1>5, <1>6

LEMMA AllowedIs ==
    ASSUME NEW s \in Seq(Specs), NEW spec \in Specs
    PROVE  Allowed(s, spec) \in Seq(Specs)
BY DEF Allowed

(* Whatever ufw does, its rules stay rules. *)
LEMMA UfwTyped ==
    ASSUME v4 \in Seq(Specs), v6 \in Seq(Specs), active \in BOOLEAN,
           \/ \E spec \in Specs : UfwAllow(spec)
           \/ \E n \in DOMAIN Numbered : UfwDelete(n)
           \/ \E enabled \in BOOLEAN : UfwSet(enabled)
    PROVE  v4' \in Seq(Specs) /\ v6' \in Seq(Specs) /\ active' \in BOOLEAN
<1>1. ASSUME NEW spec \in Specs, UfwAllow(spec)
      PROVE  v4' \in Seq(Specs) /\ v6' \in Seq(Specs) /\ active' \in BOOLEAN
  BY <1>1, AllowedIs DEF UfwAllow
<1>2. ASSUME NEW n \in DOMAIN Numbered, UfwDelete(n)
      PROVE  v4' \in Seq(Specs) /\ v6' \in Seq(Specs) /\ active' \in BOOLEAN
  <2>1. Numbered = Listed(v4, v6)
    BY DEF Numbered, Listed
  <2> QED
    BY <1>2, <2>1, DeleteIsRemoveAt DEF UfwDelete
<1>3. ASSUME NEW enabled \in BOOLEAN, UfwSet(enabled)
      PROVE  v4' \in Seq(Specs) /\ v6' \in Seq(Specs) /\ active' \in BOOLEAN
  BY <1>3 DEF UfwSet
<1> QED
  BY <1>1, <1>2, <1>3

(* Firewall: the requests. *)

Reqs == [stage : Stages, page : Pages \cup {NoPage}, op : Ops, number : Nat,
         rule : Rules \cup {NoRule}, rows : Seq(Rules), label : Labels,
         fresh : BOOLEAN, shows : Shown]

LEMMA FreeIs ==
    /\ Free \in Reqs /\ Free.stage = "free" /\ Free.page = NoPage /\ Free.op = "none"
    /\ Free.rows = <<>> /\ ~Free.fresh /\ Free.shows = "old"
BY DEF Free, Reqs, Stages, Ops, Labels, Shown

LEMMA NumberedStays == UNCHANGED <<v4, v6>> => Numbered' = Numbered
BY DEF Numbered

LEMMA NumberedIs == FwTypeOK => Numbered \in Seq(Rules)
<1> SUFFICES ASSUME FwTypeOK PROVE Numbered \in Seq(Rules)
  OBVIOUS
<1>1. Numbered = Listed(v4, v6)
  BY DEF Numbered, Listed
<1> QED
  BY <1>1, ListedIs DEF FwTypeOK

LEMMA FwInitInv == FwInit => FwInv
<1> SUFFICES ASSUME FwInit PROVE FwInv
  OBVIOUS
<1>1. \A r \in Requests : req[r] = Free
  BY DEF FwInit
<1>2. FwTypeOK
  BY FreeIs DEF FwInit, FwTypeOK, Reqs, Labels, Shown
<1>3. FwRequests /\ FwFreshAgrees
  BY <1>1, FreeIs DEF FwInit, FwRequests, FwFreshAgrees
<1>4. FwRenewal
  BY <1>1, FreeIs, FirewallAssumption DEF FwInit, FwRenewal
<1> QED
  BY <1>2, <1>3, <1>4 DEF FwInv

(* What x, in the place of a request, says about its page. *)
WillRenew(x) == ~(x.op = "load" /\ x.stage = "answered" /\ x.shows = "old")

(* Request r is x from now on, and nothing else has changed but a button. *)
LEMMA ReplaceStep ==
    ASSUME FwInv, NEW r \in Requests, NEW x \in Reqs, req' = [req EXCEPT ![r] = x],
           x.page \in Pages,
           x.stage = "sent" /\ x.op \in {"add", "delete"} => x.rule \in Rules,
           x.fresh => /\ x.op = "load" => x.rows = Numbered
                      /\ x.op = "delete" /\ x.stage = "sent" =>
                            x.number \in DOMAIN Numbered /\ Numbered[x.number] = x.rule,
           WillRenew(x),
           req[r].page \in Pages => req[r].page = x.page,
           UNCHANGED <<active, v4, v6, rows, fresh, shows>>,
           button' \in [Pages -> Labels]
    PROVE  FwInv'
<1>1. req \in [Requests -> Reqs]
  BY DEF FwInv, FwTypeOK, Reqs
<1>2. /\ req' \in [Requests -> Reqs] /\ req'[r] = x
      /\ \A q \in Requests : q # r => req'[q] = req[q]
  BY <1>1
<1>3. Numbered' = Numbered
  BY NumberedStays
<1>4. FwTypeOK'
  BY <1>2 DEF FwInv, FwTypeOK, Reqs
<1>5. FwRequests'
  BY <1>2 DEF FwInv, FwRequests
<1>6. FwFreshAgrees'
  BY <1>2, <1>3 DEF FwInv, FwFreshAgrees
<1>7. FwRenewal'
  <2> SUFFICES ASSUME NEW p \in Pages,
                      shows'[p] = "old" \/ \E q \in Requests : req'[q].page = p /\ ~Renews(q)'
               PROVE  \E q \in Requests : req'[q].page = p /\ Renews(q)'
    BY DEF FwRenewal
  <2>1. Renews(r)'
    BY <1>2 DEF Renews, WillRenew
  <2>2. \A q \in Requests : q # r => (Renews(q)' <=> Renews(q))
    BY <1>2 DEF Renews
  <2>3. PICK q \in Requests : req[q].page = p /\ Renews(q)
    BY <1>2, <2>1, <2>2 DEF FwInv, FwRenewal
  <2>4. CASE q = r
    BY <1>2, <2>1, <2>3, <2>4
  <2>5. CASE q # r
    BY <1>2, <2>2, <2>3, <2>5
  <2> QED
    BY <2>4, <2>5
<1> QED
  BY <1>4, <1>5, <1>6, <1>7 DEF FwInv

LEMMA AskStepFw ==
    ASSUME FwInv, NEW r \in Requests, NEW p \in Pages, Ask(r, p),
           req[r].page \in Pages => req[r].page = p,
           UNCHANGED <<active, v4, v6, rows, fresh, shows>>
    PROVE  FwInv'
<1> DEFINE x == [Free EXCEPT !.stage = "sent", !.page = p, !.op = "load"]
<1>1. /\ x \in Reqs /\ x.page = p /\ x.stage = "sent" /\ x.op = "load" /\ ~x.fresh
  BY FreeIs DEF Reqs, Stages, Ops
<1>2. req' = [req EXCEPT ![r] = x] /\ button' = [button EXCEPT ![p] = "none"]
  BY DEF Ask
<1> HIDE DEF x
<1>3. button' \in [Pages -> Labels]
  BY <1>2 DEF FwInv, FwTypeOK, Labels
<1> QED
  BY <1>1, <1>2, <1>3, ReplaceStep DEF WillRenew

LEMMA SendStep ==
    ASSUME FwInv, NEW r \in Requests, NEW p \in Pages, NEW op \in Ops \ {"none", "load"},
           NEW n \in Nat, NEW rule \in Rules \cup {NoRule}, NEW isFresh \in BOOLEAN,
           Send(p, r, op, n, rule, isFresh),
           op \in {"add", "delete"} => rule \in Rules,
           isFresh => op = "delete" /\ n \in DOMAIN Numbered /\ Numbered[n] = rule
    PROVE  FwInv'
<1> DEFINE x == [Free EXCEPT !.stage = "sent", !.page = p, !.op = op,
                             !.number = n, !.rule = rule, !.fresh = isFresh]
<1>1. /\ x \in Reqs /\ x.page = p /\ x.stage = "sent" /\ x.op = op /\ x.fresh = isFresh
      /\ x.number = n /\ x.rule = rule
  BY FreeIs DEF Reqs, Stages, Ops
<1>2. req' = [req EXCEPT ![r] = x] /\ req[r] = Free
  BY DEF Send
<1> HIDE DEF x
<1>3. button' \in [Pages -> Labels]
  BY DEF FwInv, FwTypeOK, Send
<1>4. req[r].page \notin Pages
  BY <1>2, FreeIs, FirewallAssumption
<1> QED
  BY <1>1, <1>2, <1>3, <1>4, ReplaceStep DEF WillRenew, Send

LEMMA AnsweredIs ==
    ASSUME FwTypeOK, NEW r \in Requests
    PROVE  /\ Answered(r) \in Reqs /\ Answered(r).stage = "answered" /\ ~Answered(r).fresh
           /\ Answered(r).page = req[r].page /\ Answered(r).op = req[r].op
           /\ Answered(r).shows = "old"
<1>1. req[r] \in Reqs
  BY DEF FwTypeOK, Reqs
<1>2. Answered(r) = [Free EXCEPT !.stage = "answered", !.page = req[r].page, !.op = req[r].op]
  BY DEF Answered
<1> QED
  BY <1>1, <1>2, FreeIs DEF Reqs, Stages

LEMMA GetStep == ASSUME FwInv, NEW r \in Requests, Get(r) PROVE FwInv'
<1>1. req[r] \in Reqs /\ req[r].page \in Pages /\ Numbered \in Seq(Rules) /\ active \in BOOLEAN
  BY NumberedIs DEF FwInv, FwTypeOK, FwRequests, Reqs, Get
<1>2. /\ req[r].op = "load" /\ button' \in [Pages -> Labels]
      /\ UNCHANGED <<active, v4, v6, rows, button, fresh, shows>>
  BY DEF FwInv, FwTypeOK, Get
<1>3. ASSUME NEW list \in Seq(Rules), NEW label \in Labels, NEW isFresh \in BOOLEAN,
             NEW shown \in {"own", "spoilt"}, isFresh => list = Numbered,
             req' = [req EXCEPT ![r] = [req[r] EXCEPT !.stage = "answered", !.rows = list,
                                           !.label = label, !.fresh = isFresh, !.shows = shown]]
      PROVE  FwInv'
  <2> DEFINE x == [req[r] EXCEPT !.stage = "answered", !.rows = list, !.label = label,
                                 !.fresh = isFresh, !.shows = shown]
  <2>1. /\ x \in Reqs /\ x.page = req[r].page /\ x.stage = "answered" /\ x.op = req[r].op
        /\ x.rows = list /\ x.fresh = isFresh /\ x.shows = shown
    BY <1>1 DEF Reqs, Stages, Shown
  <2>2. req' = [req EXCEPT ![r] = x]
    BY <1>3
  <2> HIDE DEF x
  <2> QED
    BY <1>1, <1>2, <1>3, <2>1, <2>2, ReplaceStep DEF WillRenew
<1>4. CASE req' = [req EXCEPT ![r].stage = "answered", ![r].rows = IF active THEN Numbered ELSE <<>>,
                             ![r].label = IF active THEN "disable" ELSE "enable",
                             ![r].fresh = active, ![r].shows = "own"]
  <2> DEFINE list == IF active THEN Numbered ELSE <<>>
             label == IF active THEN "disable" ELSE "enable"
  <2>1. list \in Seq(Rules) /\ label \in Labels /\ (active => list = Numbered)
    BY <1>1 DEF Labels
  <2>2. req' = [req EXCEPT ![r] = [req[r] EXCEPT !.stage = "answered", !.rows = list,
                                         !.label = label, !.fresh = active, !.shows = "own"]]
    BY <1>4 DEF FwInv, FwTypeOK
  <2> HIDE DEF list, label
  <2> QED
    BY <1>1, <1>3, <2>1, <2>2
<1>5. ASSUME NEW label \in {"enable", "none"},
             req' = [req EXCEPT ![r].stage = "answered", ![r].label = label, ![r].shows = "spoilt"]
      PROVE  FwInv'
  <2> DEFINE x == [req[r] EXCEPT !.stage = "answered", !.label = label, !.shows = "spoilt"]
  <2>1. /\ x \in Reqs /\ x.page = req[r].page /\ x.stage = "answered" /\ x.op = req[r].op
        /\ x.rows = req[r].rows /\ x.fresh = req[r].fresh /\ x.shows = "spoilt"
    BY <1>1 DEF Reqs, Stages, Shown, Labels
  <2>2. req' = [req EXCEPT ![r] = x]
    BY <1>5 DEF FwInv, FwTypeOK
  <2>3. x.fresh => x.rows = Numbered
    BY <1>2, <2>1 DEF FwInv, FwFreshAgrees
  <2> HIDE DEF x
  <2> QED
    BY <1>1, <1>2, <2>1, <2>2, <2>3, ReplaceStep DEF WillRenew
<1> QED
  BY <1>4, <1>5 DEF Get

(* Request r of page p is over, and the page shows the list x from now on. *)
LEMMA OverStep ==
    ASSUME FwInv, NEW r \in Requests, NEW p \in Pages, req[r].page = p, LoadOver(p, r),
           UNCHANGED <<active, v4, v6>>,
           rows' \in [Pages -> Seq(Rules)], button' \in [Pages -> Labels],
           fresh' \subseteq Pages, \A q \in fresh' : rows'[q] = Numbered,
           shows' \in [Pages -> Shown], \A q \in Pages : q # p => shows'[q] = shows[q],
           shows'[p] = "old" => ~Renews(r)
    PROVE  FwInv'
<1> DEFINE late(q) == /\ req[q].page = p /\ req[q].op = "load"
                      /\ req[q].stage = "answered" /\ req[q].shows = "old"
<1>1. req \in [Requests -> Reqs]
  BY DEF FwInv, FwTypeOK, Reqs
<1>2. req' = [q \in Requests |-> IF q = r THEN Free
                ELSE IF late(q) THEN [req[q] EXCEPT !.shows = "spoilt"] ELSE req[q]]
  BY DEF LoadOver
<1>3. ASSUME NEW q \in Requests
      PROVE  /\ req'[q] \in Reqs
             /\ q = r => req'[q] = Free
             /\ q # r => /\ req'[q].page = req[q].page /\ req'[q].op = req[q].op
                         /\ req'[q].stage = req[q].stage /\ req'[q].rule = req[q].rule
                         /\ req'[q].number = req[q].number /\ req'[q].rows = req[q].rows
                         /\ req'[q].fresh = req[q].fresh
                         /\ req'[q].shows = IF late(q) THEN "spoilt" ELSE req[q].shows
  <2>1. CASE q = r
    BY <1>2, <2>1, FreeIs
  <2>2. CASE q # r /\ late(q)
    BY <1>1, <1>2, <2>2 DEF Reqs, Shown
  <2>3. CASE q # r /\ ~late(q)
    BY <1>1, <1>2, <2>3
  <2> QED
    BY <2>1, <2>2, <2>3
<1>4. Numbered' = Numbered
  BY NumberedStays
<1>5. FwTypeOK'
  <2>1. req' \in [Requests -> Reqs]
    BY <1>2, <1>3
  <2> QED
    BY <2>1 DEF FwInv, FwTypeOK, Reqs
<1>6. FwRequests'
  BY <1>3, FreeIs DEF FwInv, FwRequests
<1>7. FwFreshAgrees'
  <2>1. ASSUME NEW q \in Requests, req'[q].fresh
        PROVE  /\ req'[q].op = "load" => req'[q].rows = Numbered
               /\ req'[q].op = "delete" /\ req'[q].stage = "sent" =>
                     /\ req'[q].number \in DOMAIN Numbered
                     /\ Numbered[req'[q].number] = req'[q].rule
    <3>1. q # r
      BY <1>3, <2>1, FreeIs
    <3>2. /\ req'[q].op = req[q].op /\ req'[q].stage = req[q].stage
          /\ req'[q].number = req[q].number /\ req'[q].rule = req[q].rule
          /\ req'[q].rows = req[q].rows /\ req'[q].fresh = req[q].fresh
      BY <1>3, <3>1
    <3>3. /\ req[q].op = "load" => req[q].rows = Numbered
          /\ req[q].op = "delete" /\ req[q].stage = "sent" =>
                req[q].number \in DOMAIN Numbered /\ Numbered[req[q].number] = req[q].rule
      BY <2>1, <3>2 DEF FwInv, FwFreshAgrees
    <3> QED
      BY <3>2, <3>3
  <2>2. \A q \in fresh' : rows'[q] = Numbered
    OBVIOUS
  <2> QED
    BY <1>4, <2>1, <2>2 DEF FwFreshAgrees
<1>8. ASSUME NEW q \in Requests, q # r, req[q].page \in Pages
      PROVE  Renews(q)' <=> Renews(q) \/ req[q].page = p
  BY <1>3, <1>8 DEF Renews
<1>9. FwRenewal'
  <2> SUFFICES ASSUME NEW o \in Pages,
                      shows'[o] = "old" \/ \E q \in Requests : req'[q].page = o /\ ~Renews(q)'
               PROVE  \E q \in Requests : req'[q].page = o /\ Renews(q)'
    BY DEF FwRenewal
  <2>1. req'[r].page \notin Pages
    BY <1>3, FreeIs, FirewallAssumption
  <2>2. CASE o = p
    <3>1. shows'[p] = "old"
      BY <1>3, <1>8, <2>1, <2>2
    <3>2. PICK q \in Requests : req[q].page = p /\ Renews(q)
      BY <3>1 DEF FwInv, FwRenewal
    <3>3. q # r
      BY <3>1, <3>2
    <3> QED
      BY <1>3, <1>8, <2>2, <3>2, <3>3
  <2>3. CASE o # p
    <3>1. shows[o] = "old" \/ \E q \in Requests : req[q].page = o /\ ~Renews(q)
      BY <1>3, <1>8, <2>1, <2>3
    <3>2. PICK q \in Requests : req[q].page = o /\ Renews(q)
      BY <3>1 DEF FwInv, FwRenewal
    <3> QED
      BY <1>3, <1>8, <2>3, <3>2
  <2> QED
    BY <2>2, <2>3
<1> QED
  BY <1>5, <1>6, <1>7, <1>9 DEF FwInv

LEMMA LostStep == ASSUME FwInv, NEW r \in Requests, Lost(r) PROVE FwInv'
<1> DEFINE p == req[r].page
<1>1. /\ p \in Pages /\ LoadOver(p, r)
      /\ shows' = [shows EXCEPT ![p] = IF @ = "own" THEN "own" ELSE "spoilt"]
      /\ UNCHANGED <<active, v4, v6, rows, button, fresh>>
  BY DEF FwInv, FwRequests, Lost
<1> HIDE DEF p
<1>2. /\ shows' \in [Pages -> Shown] /\ shows'[p] # "old"
      /\ \A q \in Pages : q # p => shows'[q] = shows[q]
  BY <1>1 DEF FwInv, FwTypeOK, Shown
<1> QED
  BY <1>1, <1>2, OverStep DEF FwInv, FwTypeOK, FwFreshAgrees, p

LEMMA ReceiveLoadStep == ASSUME FwInv, NEW r \in Requests, ReceiveLoad(r) PROVE FwInv'
<1> DEFINE p == req[r].page
<1>1. /\ p \in Pages /\ LoadOver(p, r) /\ UNCHANGED <<active, v4, v6>>
      /\ rows' = [rows EXCEPT ![p] = req[r].rows]
      /\ button' = [button EXCEPT ![p] = req[r].label]
      /\ fresh' = Mark(fresh, p, req[r].fresh)
      /\ shows' = [shows EXCEPT ![p] = req[r].shows]
      /\ req[r].stage = "answered" /\ req[r].op = "load"
  BY DEF FwInv, FwRequests, ReceiveLoad
<1>2. req[r] \in Reqs
  BY DEF FwInv, FwTypeOK, Reqs
<1> HIDE DEF p
<1>3. rows' \in [Pages -> Seq(Rules)] /\ button' \in [Pages -> Labels] /\ fresh' \subseteq Pages
  BY <1>1, <1>2 DEF FwInv, FwTypeOK, Reqs, Mark
<1>4. ASSUME NEW q \in fresh' PROVE rows'[q] = Numbered
  <2>1. q \in Pages /\ rows \in [Pages -> Seq(Rules)]
    BY <1>3, <1>4 DEF FwInv, FwTypeOK
  <2>2. CASE q = p
    BY <1>1, <2>1, <2>2, <1>4 DEF Mark, FwInv, FwFreshAgrees
  <2>3. CASE q # p
    BY <1>1, <2>1, <2>3, <1>4 DEF Mark, FwInv, FwFreshAgrees
  <2> QED
    BY <2>2, <2>3
<1>5. /\ shows' \in [Pages -> Shown] /\ shows'[p] = req[r].shows
      /\ \A q \in Pages : q # p => shows'[q] = shows[q]
  BY <1>1, <1>2 DEF FwInv, FwTypeOK, Reqs
<1>6. shows'[p] = "old" => ~Renews(r)
  BY <1>1, <1>5 DEF Renews
<1>7. req[r].page = p
  BY DEF p
<1> QED
  BY <1>1, <1>3, <1>4, <1>5, <1>6, <1>7, OverStep

(* Request r of a page, or nobody's, was carried out. *)
LEMMA CarriedStep ==
    ASSUME FwInv, NEW r \in Requests \cup {NoRequest}, NEW page, Carried(r, page),
           \/ r = NoRequest /\ page = NoPage
           \/ /\ r \in Requests /\ page = req[r].page
              /\ req[r].stage = "sent" /\ req[r].op # "load",
           v4' \in Seq(Specs), v6' \in Seq(Specs), active' \in BOOLEAN,
           UNCHANGED <<rows, button>>
    PROVE  FwInv'
<1> DEFINE after(q) == IF q = r THEN Answered(q) ELSE req[q]
           old(q) == IF after(q).page = page THEN "old" ELSE after(q).shows
<1>1. req \in [Requests -> Reqs] /\ FwTypeOK /\ FwRequests /\ FwFreshAgrees /\ FwRenewal
  BY DEF FwInv, FwTypeOK, Reqs
<1>2. ASSUME NEW q \in Requests
      PROVE  /\ after(q) \in Reqs /\ after(q).page = req[q].page /\ after(q).op = req[q].op
             /\ q = r => after(q).stage = "answered" /\ ~after(q).fresh
             /\ q # r => after(q) = req[q]
  BY <1>1, AnsweredIs
<1>3. r \in Requests => req[r].page \in Pages /\ r # NoRequest
  BY <1>1, FirewallAssumption DEF FwRequests
<1>4. CASE UfwChanges
  <2>1. /\ fresh' = {}
        /\ shows' = [p \in Pages |-> IF p = page THEN "old" ELSE shows[p]]
        /\ req' = [q \in Requests |-> [after(q) EXCEPT !.fresh = FALSE, !.shows = old(q)]]
    BY <1>4 DEF Carried
  <2> HIDE DEF after
  <2>2. ASSUME NEW q \in Requests
        PROVE  /\ req'[q] \in Reqs /\ req'[q].page = req[q].page /\ req'[q].op = req[q].op
               /\ req'[q].stage = after(q).stage /\ req'[q].rule = after(q).rule
               /\ ~req'[q].fresh
               /\ req'[q].shows = IF req[q].page = page THEN "old" ELSE after(q).shows
    <3>1. old(q) \in Shown
      BY <1>2 DEF Reqs, Shown
    <3>2. old(q) = IF req[q].page = page THEN "old" ELSE after(q).shows
      BY <1>2
    <3>3. req'[q] = [after(q) EXCEPT !.fresh = FALSE, !.shows = old(q)]
      BY <2>1
    <3> HIDE DEF old
    <3> QED
      BY <1>2, <3>1, <3>2, <3>3 DEF Reqs
  <2>3. FwTypeOK'
    <3>1. req' \in [Requests -> Reqs]
      BY <2>1, <2>2
    <3>2. fresh' \subseteq Pages /\ shows' \in [Pages -> Shown]
      BY <1>1, <2>1 DEF FwTypeOK, Shown
    <3> QED
      BY <1>1, <3>1, <3>2 DEF FwTypeOK, Reqs
  <2>4. FwRequests'
    BY <1>1, <1>2, <1>3, <2>2 DEF FwRequests
  <2>5. FwFreshAgrees'
    BY <2>1, <2>2 DEF FwFreshAgrees
  <2>6. FwRenewal'
    <3> SUFFICES ASSUME NEW p \in Pages,
                        shows'[p] = "old" \/ \E q \in Requests : req'[q].page = p /\ ~Renews(q)'
                 PROVE  \E q \in Requests : req'[q].page = p /\ Renews(q)'
      BY DEF FwRenewal
    <3>1. CASE p = page
      <4>1. r \in Requests /\ req'[r].page = p /\ req'[r].op # "load"
        BY <2>2, <3>1, FirewallAssumption
      <4> QED
        BY <4>1 DEF Renews
    <3>2. CASE p # page
      <4>1. ASSUME NEW q \in Requests, req[q].page = p PROVE Renews(q)' <=> Renews(q)
        <5>1. q # r
          BY <1>3, <3>2, <4>1
        <5> QED
          BY <1>2, <2>2, <3>2, <4>1, <5>1 DEF Renews
      <4>2. shows[p] = "old" \/ \E q \in Requests : req[q].page = p /\ ~Renews(q)
        BY <2>1, <2>2, <3>2, <4>1
      <4>3. PICK q \in Requests : req[q].page = p /\ Renews(q)
        BY <1>1, <4>2 DEF FwRenewal
      <4> QED
        BY <2>2, <4>1, <4>3
    <3> QED
      BY <3>1, <3>2
  <2> QED
    BY <2>3, <2>4, <2>5, <2>6 DEF FwInv
<1>5. CASE ~UfwChanges
  <2>1. /\ UNCHANGED <<active, v4, v6, fresh, shows>>
        /\ req' = [q \in Requests |-> after(q)]
    BY <1>5 DEF Carried, UfwChanges
  <2>2. CASE r \in Requests
    <3>1. req' = [req EXCEPT ![r] = Answered(r)]
      BY <1>1, <2>1, <2>2
    <3> QED
      BY <1>1, <1>3, <2>1, <2>2, <3>1, AnsweredIs, ReplaceStep DEF WillRenew, FwTypeOK
  <2>3. CASE r \notin Requests
    <3>1. req' = req
      BY <1>1, <2>1, <2>3
    <3>2. Numbered' = Numbered
      BY <2>1, NumberedStays
    <3>3. FwTypeOK' /\ FwRequests'
      BY <1>1, <2>1, <3>1 DEF FwTypeOK, FwRequests
    <3>4. FwFreshAgrees' /\ FwRenewal'
      BY <1>1, <2>1, <3>1, <3>2 DEF FwFreshAgrees, FwRenewal, Renews
    <3> QED
      BY <3>3, <3>4 DEF FwInv
  <2> QED
    BY <2>2, <2>3
<1> QED
  BY <1>4, <1>5

LEMMA FwNextInv == FwInv /\ [FwNext]_fwVars => FwInv'
<1> SUFFICES ASSUME FwInv, [FwNext]_fwVars PROVE FwInv'
  OBVIOUS
<1>t. FwTypeOK /\ FwRequests /\ FwFreshAgrees /\ Numbered \in Seq(Rules)
  BY NumberedIs DEF FwInv
<1>1. ASSUME NEW p \in Pages, NEW r \in Requests, LoadFirewall(p, r) PROVE FwInv'
  <2>1. req[r].page \notin Pages
    BY <1>1, FreeIs, FirewallAssumption DEF LoadFirewall
  <2> QED
    BY <1>1, <2>1, AskStepFw DEF LoadFirewall
<1>2. ASSUME NEW p \in Pages, NEW r \in Requests, ClickToggle(p, r) PROVE FwInv'
  <2>1. button[p] \in {"enable", "disable"}
    BY <1>2, <1>t DEF ClickToggle, FwTypeOK, Labels
  <2>2. button[p] \in Ops \ {"none", "load"} /\ button[p] \notin {"add", "delete"}
    BY <2>1 DEF Ops
  <2> QED
    BY <1>2, <2>2, SendStep DEF ClickToggle
<1>3. ASSUME NEW p \in Pages, NEW r \in Requests, ClickAdd(p, r) PROVE FwInv'
  <2>1. PICK spec \in Specs : Send(p, r, "add", 0, <<"v4", spec>>, FALSE)
    BY <1>3 DEF ClickAdd
  <2>2. <<"v4", spec>> \in Rules /\ "add" \in Ops \ {"none", "load"}
    BY DEF Rules, Ops
  <2> QED
    BY <2>1, <2>2, SendStep
<1>4. ASSUME NEW p \in Pages, NEW r \in Requests, ClickDelete(p, r) PROVE FwInv'
  <2>1. PICK n \in DOMAIN rows[p] : Send(p, r, "delete", n, rows[p][n], p \in fresh)
    BY <1>4 DEF ClickDelete
  <2>2. rows[p] \in Seq(Rules)
    BY <1>t DEF FwTypeOK
  <2>3. n \in Nat /\ rows[p][n] \in Rules /\ "delete" \in Ops \ {"none", "load"}
    BY <2>2, LenProperties, ElementOfSeq DEF Ops
  <2>4. p \in fresh => n \in DOMAIN Numbered /\ Numbered[n] = rows[p][n]
    BY <1>t DEF FwFreshAgrees
  <2>5. "delete" \in Ops \ {"none", "load"} /\ rows[p][n] \in Rules \cup {NoRule}
    BY <2>3
  <2> DEFINE isFresh == p \in fresh
  <2>6. isFresh \in BOOLEAN /\ (isFresh => n \in DOMAIN Numbered /\ Numbered[n] = rows[p][n])
    BY <2>4
  <2>7. Send(p, r, "delete", n, rows[p][n], isFresh)
    BY <2>1
  <2> HIDE DEF isFresh
  <2> QED
    BY <2>3, <2>5, <2>6, <2>7, SendStep
<1>5. ASSUME NEW r \in Requests, SetEnabled(r) PROVE FwInv'
  <2>1. v4' \in Seq(Specs) /\ v6' \in Seq(Specs) /\ active' \in BOOLEAN
    BY <1>5, <1>t, UfwTyped DEF SetEnabled, FwTypeOK
  <2> QED
    BY <1>5, <2>1, CarriedStep DEF SetEnabled
<1>6. ASSUME NEW r \in Requests, AddRule(r) PROVE FwInv'
  <2>1. req[r].rule[2] \in Specs
    BY <1>6, <1>t DEF AddRule, FwRequests, Rules
  <2>2. v4' \in Seq(Specs) /\ v6' \in Seq(Specs) /\ active' \in BOOLEAN
    BY <1>6, <1>t, <2>1, UfwTyped DEF AddRule, FwTypeOK
  <2> QED
    BY <1>6, <2>2, CarriedStep DEF AddRule
<1>7. ASSUME NEW r \in Requests, DeleteRule(r) PROVE FwInv'
  <2>1. req[r].number \in DOMAIN Numbered
    BY <1>7 DEF DeleteRule, UfwDelete
  <2>2. v4' \in Seq(Specs) /\ v6' \in Seq(Specs) /\ active' \in BOOLEAN
    BY <1>7, <1>t, <2>1, UfwTyped DEF DeleteRule, FwTypeOK
  <2> QED
    BY <1>7, <2>2, CarriedStep DEF DeleteRule
<1>8. ASSUME NEW r \in Requests, NoEffect(r) PROVE FwInv'
  <2>1. req[r].page \in Pages
    BY <1>8, <1>t DEF NoEffect, FwRequests
  <2> QED
    BY <1>8, <1>t, <2>1, AnsweredIs, ReplaceStep DEF NoEffect, WillRenew, FwTypeOK
<1>9. ASSUME NEW r \in Requests, ReceiveChange(r) PROVE FwInv'
  <2>1. req[r].page \in Pages
    BY <1>9, <1>t DEF ReceiveChange, FwRequests
  <2> QED
    BY <1>9, <2>1, AskStepFw DEF ReceiveChange
<1>10. CASE OperatorUfw
  <2>1. v4' \in Seq(Specs) /\ v6' \in Seq(Specs) /\ active' \in BOOLEAN
    BY <1>10, <1>t, UfwTyped DEF OperatorUfw, FwTypeOK
  <2> QED
    BY <1>10, <2>1, CarriedStep DEF OperatorUfw
<1>11. CASE UNCHANGED fwVars
  <2>1. Numbered' = Numbered
    BY <1>11, NumberedStays DEF fwVars
  <2> QED
    BY <1>11, <2>1 DEF fwVars, FwInv, FwTypeOK, FwRequests, FwFreshAgrees, FwRenewal, Renews
<1> QED
  BY <1>1, <1>2, <1>3, <1>4, <1>5, <1>6, <1>7, <1>8, <1>9, <1>10, <1>11, GetStep,
     ReceiveLoadStep, LostStep DEF FwNext

(* A list nobody has overtaken names the rule that goes, and the others keep
   their order. *)
LEMMA FreshDelete ==
    FwInv => \A r \in Requests :
                DeleteRule(r) /\ req[r].fresh =>
                    /\ Numbered[req[r].number] = req[r].rule
                    /\ Numbered' = RemoveAt(Numbered, req[r].number)
<1> SUFFICES ASSUME FwInv, NEW r \in Requests, DeleteRule(r), req[r].fresh
             PROVE  /\ Numbered[req[r].number] = req[r].rule
                    /\ Numbered' = RemoveAt(Numbered, req[r].number)
  OBVIOUS
<1>1. /\ req[r].stage = "sent" /\ req[r].op = "delete" /\ UfwDelete(req[r].number)
  BY DEF DeleteRule
<1>2. Numbered[req[r].number] = req[r].rule
  BY <1>1 DEF FwInv, FwFreshAgrees
<1>3. Numbered = Listed(v4, v6) /\ Numbered' = Listed(v4', v6')
  BY DEF Numbered, Listed
<1>4. Listed(v4', v6') = RemoveAt(Listed(v4, v6), req[r].number)
  BY <1>1, <1>3, DeleteIsRemoveAt DEF UfwDelete, FwInv, FwTypeOK
<1> QED
  BY <1>2, <1>3, <1>4
-----------------------------------------------------------------------------
(* The file under the audit log. *)

(* One step of the loop of Scan, as an equation for the function h that maps i
   to what is found in the first i characters. *)
ScanStep(h, s, n) ==
    [i \in 0 .. n |->
        IF i = 0 THEN [out |-> <<>>, start |-> 1]
        ELSE IF s[i] = "nl" THEN [out |-> WithLine(h[i - 1], s, i), start |-> i + 1]
        ELSE h[i - 1]]

(* Scan is what a solution of the equation has at the end ... *)
LEMMA ScanIs ==
  ASSUME NEW s, \E g : g = ScanStep(g, s, Len(s))
  PROVE  \E h : h = ScanStep(h, s, Len(s)) /\ Scan(s) = h[Len(s)]
<1> DEFINE K == CHOOSE after : after = ScanStep(after, s, Len(s))
<1>1. Scan(s) = K[Len(s)]
  BY Zenon DEF Scan, ScanStep
<1>2. K = ScanStep(K, s, Len(s))
  BY Zenon
<1> QED
  BY <1>1, <1>2, Zenon

LEMMA ScanAt ==
  ASSUME NEW h, NEW s, NEW n \in Nat, h = ScanStep(h, s, n), NEW i \in 0 .. n
  PROVE  /\ i = 0 => h[i] = [out |-> <<>>, start |-> 1]
         /\ i # 0 /\ s[i] = "nl" => h[i] = [out |-> WithLine(h[i - 1], s, i), start |-> i + 1]
         /\ i # 0 /\ s[i] # "nl" => h[i] = h[i - 1]
<1>1. h[i] = ScanStep(h, s, n)[i]
  OBVIOUS
<1> QED
  BY <1>1, Zenon DEF ScanStep

(* ... and it has a solution. *)
LEMMA ScanExists ==
  ASSUME NEW s, NEW m \in Nat
  PROVE  \E h : h = ScanStep(h, s, m)
<1> DEFINE T == {n \in Nat : \E h : h = ScanStep(h, s, n)}
<1>1. 0 \in T
  <2> DEFINE h == [i \in 0 .. 0 |-> [out |-> <<>>, start |-> 1]]
  <2>1. h = ScanStep(h, s, 0)
    BY DEF ScanStep
  <2> QED
    BY <2>1, Zenon
<1>2. ASSUME NEW n \in T PROVE n + 1 \in T
  <2>1. PICK h : h = ScanStep(h, s, n)
    OBVIOUS
  <2> DEFINE last == IF s[n + 1] = "nl" THEN [out |-> WithLine(h[n], s, n + 1), start |-> (n + 1) + 1]
                     ELSE h[n]
             g == [i \in 0 .. (n + 1) |-> IF i <= n THEN h[i] ELSE last]
  <2>2. g = ScanStep(g, s, n + 1)
    <3> SUFFICES ASSUME NEW i \in 0 .. (n + 1)
                 PROVE  g[i] = IF i = 0 THEN [out |-> <<>>, start |-> 1]
                               ELSE IF s[i] = "nl"
                               THEN [out |-> WithLine(g[i - 1], s, i), start |-> i + 1]
                               ELSE g[i - 1]
      BY Zenon DEF ScanStep
    <3> HIDE DEF last
    <3>1. CASE i = 0
      <4>1. h[0] = [out |-> <<>>, start |-> 1]
        <5>1. n \in Nat /\ 0 \in 0 .. n
          OBVIOUS
        <5> QED
          BY <2>1, <5>1, ScanAt
      <4> QED
        BY <3>1, <4>1
    <3>2. CASE i \in 1 .. n
      <4>1. g[i] = h[i] /\ g[i - 1] = h[i - 1] /\ i \in 0 .. n /\ i # 0
        BY <3>2
      <4> HIDE DEF g
      <4>2. h[i] = IF s[i] = "nl" THEN [out |-> WithLine(h[i - 1], s, i), start |-> i + 1]
                   ELSE h[i - 1]
        BY <2>1, <4>1, ScanAt
      <4> QED
        BY <4>1, <4>2
    <3>3. CASE i = n + 1
      <4>1. g[i] = last /\ g[i - 1] = h[n] /\ i # 0
        BY <3>3
      <4> HIDE DEF g
      <4> QED
        BY <3>3, <4>1 DEF last
    <3> QED
      BY <3>1, <3>2, <3>3
  <2> HIDE DEF g
  <2>3. n + 1 \in Nat
    OBVIOUS
  <2> QED
    BY <2>2, <2>3
<1>3. T = Nat
  <2> HIDE DEF T
  <2>1. T \in SUBSET Nat
    BY DEF T
  <2> QED
    BY <1>1, <1>2, <2>1, AllOfNat
<1> QED
  BY <1>3

ScanStates == [out : Seq(Seq(Chars)), start : Nat]

LEMMA WithLineIs ==
  ASSUME NEW scan \in ScanStates, NEW s \in Seq(Chars), NEW i \in 1 .. (Len(s) + 1),
         scan.start \in 1 .. i
  PROVE  WithLine(scan, s, i) \in Seq(Seq(Chars))
<1>1. SubSeq(s, scan.start, i - 1) \in Seq(Chars)
  BY SubSeqProperties DEF ScanStates
<1>2. Append(scan.out, SubSeq(s, scan.start, i - 1)) \in Seq(Seq(Chars))
  BY <1>1, AppendProperties DEF ScanStates
<1> QED
  BY <1>2 DEF WithLine, ScanStates

(* What a solution holds: lines, and a start no later than the next character. *)
LEMMA ScanTyped ==
  ASSUME NEW s \in Seq(Chars), NEW n \in 0 .. Len(s), NEW h, h = ScanStep(h, s, n)
  PROVE  \A i \in 0 .. n : h[i] \in ScanStates /\ h[i].start \in 1 .. (i + 1)
<1> DEFINE T == {i \in Nat : i <= n => h[i] \in ScanStates /\ h[i].start \in 1 .. (i + 1)}
<1>1. 0 \in T
  <2>1. n \in Nat /\ 0 \in 0 .. n
    OBVIOUS
  <2>2. h[0] = [out |-> <<>>, start |-> 1]
    BY <2>1, ScanAt
  <2>3. <<>> \in Seq(Seq(Chars))
    OBVIOUS
  <2>4. h[0] \in ScanStates
    BY <2>2, <2>3 DEF ScanStates
  <2>5. h[0].start \in 1 .. (0 + 1)
    BY <2>2
  <2> QED
    BY <2>4, <2>5
<1>2. ASSUME NEW i \in T PROVE i + 1 \in T
  <2> SUFFICES ASSUME i + 1 <= n
               PROVE  h[i + 1] \in ScanStates /\ h[i + 1].start \in 1 .. (i + 2)
    OBVIOUS
  <2>1. /\ i + 1 \in 0 .. n /\ i + 1 # 0 /\ (i + 1) - 1 = i /\ i \in Nat /\ n \in Nat
        /\ h[i] \in ScanStates /\ h[i].start \in 1 .. (i + 1)
        /\ i + 1 \in 1 .. (Len(s) + 1)
    OBVIOUS
  <2> HIDE DEF T
  <2>2. CASE s[i + 1] = "nl"
    <3>1. h[i + 1] = [out |-> WithLine(h[i], s, i + 1), start |-> (i + 1) + 1]
      BY <2>1, <2>2, ScanAt
    <3>2. WithLine(h[i], s, i + 1) \in Seq(Seq(Chars))
      BY <2>1, WithLineIs
    <3> QED
      BY <2>1, <3>1, <3>2 DEF ScanStates
  <2>3. CASE s[i + 1] # "nl"
    <3>1. h[i + 1] = h[i]
      BY <2>1, <2>3, ScanAt
    <3> QED
      BY <2>1, <3>1
  <2> QED
    BY <2>2, <2>3
<1>3. T = Nat
  <2> HIDE DEF T
  <2>1. T \in SUBSET Nat
    BY DEF T
  <2> QED
    BY <1>1, <1>2, <2>1, AllOfNat
<1> QED
  BY <1>3

(* Two texts that begin alike are scanned alike. *)
LEMMA ScanPrefix ==
  ASSUME NEW s \in Seq(Chars), NEW u \in Seq(Chars), NEW m \in 0 .. Len(s), m <= Len(u),
         \A i \in 1 .. m : s[i] = u[i],
         NEW n \in 0 .. Len(u), m <= n,
         NEW g, g = ScanStep(g, s, m), NEW h, h = ScanStep(h, u, n)
  PROVE  g[m] = h[m]
<1> DEFINE T == {i \in Nat : i <= m => g[i] = h[i]}
<1>0. m \in Nat /\ n \in Nat /\ Len(s) \in Nat /\ Len(u) \in Nat
  OBVIOUS
<1>1. 0 \in T
  <2>1. 0 \in 0 .. m /\ 0 \in 0 .. n
    BY <1>0
  <2>2. g[0] = [out |-> <<>>, start |-> 1]
    BY <1>0, <2>1, ScanAt
  <2>3. h[0] = [out |-> <<>>, start |-> 1]
    BY <1>0, <2>1, ScanAt
  <2> QED
    BY <2>2, <2>3
<1>2. ASSUME NEW i \in T PROVE i + 1 \in T
  <2> SUFFICES ASSUME i + 1 <= m PROVE g[i + 1] = h[i + 1]
    OBVIOUS
  <2>1. /\ i \in Nat /\ i + 1 \in 0 .. m /\ i + 1 \in 0 .. n /\ i + 1 # 0 /\ (i + 1) - 1 = i
        /\ i + 1 \in 1 .. m /\ i \in 0 .. m
        /\ g[i] = h[i]
    BY <1>0
  <2> HIDE DEF T
  <2>2. s[i + 1] = u[i + 1]
    BY <2>1
  <2>3. g[i] \in ScanStates /\ g[i].start \in 1 .. (i + 1)
    BY <2>1, ScanTyped
  <2>4. WithLine(g[i], s, i + 1) = WithLine(g[i], u, i + 1)
    <3>1. SubSeq(s, g[i].start, i) = SubSeq(u, g[i].start, i)
      <4> DEFINE a == g[i].start
      <4>1. a \in 1 .. (i + 1)
        BY <2>3
      <4> HIDE DEF a
      <4>2. \A j \in a .. i : s[j] = u[j] /\ s[j] \in Chars /\ u[j] \in Chars
        BY <1>0, <2>1, <4>1
      <4>3. \A j \in 1 .. (i - a + 1) : a + j - 1 \in a .. i
        BY <2>1, <4>1
      <4>4. /\ SubSeq(s, a, i) \in Seq(Chars)
            /\ Len(SubSeq(s, a, i)) = IF a <= i THEN i - a + 1 ELSE 0
            /\ \A j \in 1 .. (i - a + 1) : SubSeq(s, a, i)[j] = s[a + j - 1]
        BY <2>1, <4>1, <4>2, SubSeqProperties
      <4>5. /\ SubSeq(u, a, i) \in Seq(Chars)
            /\ Len(SubSeq(u, a, i)) = IF a <= i THEN i - a + 1 ELSE 0
            /\ \A j \in 1 .. (i - a + 1) : SubSeq(u, a, i)[j] = u[a + j - 1]
        BY <2>1, <4>1, <4>2, SubSeqProperties
      <4>6. SubSeq(s, a, i) = SubSeq(u, a, i)
        BY <2>1, <4>1, <4>2, <4>3, <4>4, <4>5, SeqEqual
      <4> QED
        BY <4>6 DEF a
    <3> QED
      BY <2>1, <3>1 DEF WithLine
  <2>5. /\ s[i + 1] = "nl" =>
              g[i + 1] = [out |-> WithLine(g[i], s, i + 1), start |-> (i + 1) + 1]
        /\ s[i + 1] # "nl" => g[i + 1] = g[i]
    BY <1>0, <2>1, ScanAt
  <2>6. /\ u[i + 1] = "nl" =>
              h[i + 1] = [out |-> WithLine(h[i], u, i + 1), start |-> (i + 1) + 1]
        /\ u[i + 1] # "nl" => h[i + 1] = h[i]
    BY <1>0, <2>1, ScanAt
  <2> QED
    BY <2>1, <2>2, <2>4, <2>5, <2>6
<1>3. T = Nat
  <2> HIDE DEF T
  <2>1. T \in SUBSET Nat
    BY DEF T
  <2> QED
    BY <1>1, <1>2, <2>1, AllOfNat
<1> QED
  BY <1>0, <1>3

LEMMA ScanOf ==
  ASSUME NEW s, NEW m \in Nat, Len(s) = m
  PROVE  \E h : h = ScanStep(h, s, m) /\ Scan(s) = h[m]
<1>1. \E g : g = ScanStep(g, s, Len(s))
  BY ScanExists
<1> QED
  BY <1>1, ScanIs

LEMMA ScanResult ==
  ASSUME NEW s \in Seq(Chars)
  PROVE  Scan(s) \in ScanStates /\ Scan(s).start \in 1 .. (Len(s) + 1)
<1>1. Len(s) \in Nat /\ Len(s) \in 0 .. Len(s)
  OBVIOUS
<1>2. PICK h : h = ScanStep(h, s, Len(s)) /\ Scan(s) = h[Len(s)]
  BY <1>1, ScanOf
<1> QED
  BY <1>1, <1>2, ScanTyped

LEMMA ScanEmpty == Scan(<<>>) = [out |-> <<>>, start |-> 1]
<1>1. Len(<<>>) = 0 /\ 0 \in Nat /\ 0 \in 0 .. 0
  OBVIOUS
<1>2. PICK h : h = ScanStep(h, <<>>, 0) /\ Scan(<<>>) = h[0]
  BY <1>1, ScanOf
<1>3. h[0] = [out |-> <<>>, start |-> 1]
  BY <1>2 DEF ScanStep
<1> QED
  BY <1>2, <1>3

(* More text on the last line finds no line. *)
LEMMA ScanMore ==
  ASSUME NEW s \in Seq(Chars), NEW t \in Seq(Chars), Len(s) <= Len(t),
         \A i \in 1 .. Len(s) : s[i] = t[i],
         \A i \in (Len(s) + 1) .. Len(t) : t[i] # "nl"
  PROVE  Scan(t) = Scan(s)
<1> DEFINE n == Len(s)
<1>1. n \in Nat /\ Len(t) \in Nat /\ n \in 0 .. Len(s) /\ n <= Len(t) /\ Len(t) \in 0 .. Len(t)
      /\ \A i \in 1 .. n : s[i] = t[i]
  OBVIOUS
<1>2. \A i \in (n + 1) .. Len(t) : t[i] # "nl"
  OBVIOUS
<1> HIDE DEF n
<1>3. PICK g : g = ScanStep(g, s, n) /\ Scan(s) = g[n]
  BY <1>1, ScanOf DEF n
<1>4. PICK h : h = ScanStep(h, t, Len(t)) /\ Scan(t) = h[Len(t)]
  BY <1>1, ScanOf
<1>5. g[n] = h[n]
  BY <1>1, <1>3, <1>4, ScanPrefix
<1> DEFINE T == {i \in Nat : n + i <= Len(t) => h[n + i] = h[n]}
<1>6. 0 \in T
  BY <1>1
<1>7. ASSUME NEW i \in T PROVE i + 1 \in T
  <2> SUFFICES ASSUME n + (i + 1) <= Len(t) PROVE h[n + (i + 1)] = h[n]
    OBVIOUS
  <2>1. /\ i \in Nat /\ h[n + i] = h[n] /\ n + (i + 1) \in (n + 1) .. Len(t)
        /\ n + (i + 1) \in 0 .. Len(t) /\ n + (i + 1) # 0 /\ (n + (i + 1)) - 1 = n + i
    BY <1>1
  <2> HIDE DEF T
  <2>2. t[n + (i + 1)] # "nl"
    BY <1>2, <2>1
  <2> DEFINE j == n + (i + 1)
  <2>3. j \in 0 .. Len(t) /\ j # 0 /\ t[j] # "nl" /\ j - 1 = n + i
    BY <2>1, <2>2
  <2> HIDE DEF j
  <2>4. h[j] = h[j - 1]
    BY <1>1, <1>4, <2>3, ScanAt
  <2> QED
    BY <2>1, <2>3, <2>4 DEF j
<1>8. T = Nat
  <2> HIDE DEF T
  <2>1. T \in SUBSET Nat
    BY DEF T
  <2> QED
    BY <1>6, <1>7, <2>1, AllOfNat
<1>9. h[Len(t)] = h[n]
  <2>1. Len(t) - n \in Nat /\ n + (Len(t) - n) = Len(t)
    BY <1>1
  <2>2. Len(t) - n \in T
    BY <1>8, <2>1
  <2> QED
    BY <1>1, <2>1, <2>2
<1> QED
  BY <1>3, <1>4, <1>5, <1>9

(* An end of line ends the last line. *)
LEMMA ScanEnd ==
  ASSUME NEW s \in Seq(Chars), NEW t \in Seq(Chars), Len(t) = Len(s) + 1,
         \A i \in 1 .. Len(s) : s[i] = t[i], t[Len(s) + 1] = "nl"
  PROVE  Scan(t) = [out |-> WithLine(Scan(s), t, Len(t)), start |-> Len(t) + 1]
<1> DEFINE n == Len(s)
<1>1. n \in Nat /\ Len(t) = n + 1 /\ Len(t) \in Nat /\ t[n + 1] = "nl"
      /\ n \in 0 .. Len(s) /\ n <= Len(t) /\ Len(t) \in 0 .. Len(t)
      /\ \A i \in 1 .. n : s[i] = t[i]
  OBVIOUS
<1> HIDE DEF n
<1>2. PICK g : g = ScanStep(g, s, n) /\ Scan(s) = g[n]
  <2>1. n \in Nat /\ Len(s) = n
    BY <1>1 DEF n
  <2> QED
    BY <2>1, ScanOf
<1>3. PICK h : h = ScanStep(h, t, Len(t)) /\ Scan(t) = h[Len(t)]
  <2>1. Len(t) \in Nat
    BY <1>1
  <2> QED
    BY <2>1, ScanOf
<1>4. g[n] = h[n]
  BY <1>1, <1>2, <1>3, ScanPrefix
<1>5. Len(t) # 0 /\ Len(t) - 1 = n /\ t[Len(t)] = "nl"
  BY <1>1
<1> QED
  BY <1>1, <1>2, <1>3, <1>4, <1>5, ScanAt

(* A text that ends like another is a suffix of it. *)
LEMMA SuffixOf ==
  ASSUME NEW s \in Seq(Chars), NEW t \in Seq(Chars), Len(s) <= Len(t),
         \A i \in 1 .. Len(s) : s[i] = t[(Len(t) - Len(s)) + i]
  PROVE  IsSuffix(s, t)
<1> DEFINE n == Len(s)
           m == Len(t)
           r == Reverse(s)
           q == Reverse(t)
<1>1. n \in Nat /\ m \in Nat /\ n <= m
  OBVIOUS
<1>2. /\ r \in Seq(Chars) /\ Len(r) = n
      /\ \A i \in 1 .. n : r[i] = s[(n - i) + 1] /\ r[i] \in Chars
  BY DEF Reverse
<1>3. /\ q \in Seq(Chars) /\ Len(q) = m
      /\ \A i \in 1 .. m : q[i] = t[(m - i) + 1] /\ q[i] \in Chars
  BY DEF Reverse
<1>4. \A i \in 1 .. n : s[i] = t[(m - n) + i]
  OBVIOUS
<1> HIDE DEF n, m, r, q
<1>5. ASSUME NEW i \in 1 .. n PROVE r[i] = q[i]
  <2>1. (n - i) + 1 \in 1 .. n /\ (m - n) + ((n - i) + 1) = (m - i) + 1 /\ i \in 1 .. m
    BY <1>1
  <2>2. s[(n - i) + 1] = t[(m - i) + 1]
    BY <1>4, <2>1
  <2> QED
    BY <1>2, <1>3, <2>1, <2>2
<1>6. /\ SubSeq(r, 1, n) \in Seq(Chars)
      /\ Len(SubSeq(r, 1, n)) = n
      /\ \A i \in 1 .. n : SubSeq(r, 1, n)[i] = r[i]
  BY <1>1, <1>2
<1>7. /\ SubSeq(q, 1, n) \in Seq(Chars)
      /\ Len(SubSeq(q, 1, n)) = n
      /\ \A i \in 1 .. n : SubSeq(q, 1, n)[i] = q[i]
  BY <1>1, <1>3
<1>8. SubSeq(r, 1, n) = SubSeq(q, 1, n)
  BY <1>5, <1>6, <1>7, SeqEqual
<1> QED
  BY <1>1, <1>2, <1>3, <1>8 DEF IsSuffix, IsPrefix, r, q

LEMMA Bounds == MaxEntries \in Nat /\ TailLines \in Nat /\ TailLines > 0 /\ "nl" \in Chars
<1>1. TailLines \in Nat \ {0}
  BY AuditFileAssumption
<1>2. MaxEntries \in Nat /\ "nl" \in Chars
  BY AuditFileAssumption
<1> QED
  BY <1>1, <1>2

LEMMA MarkIs ==
  ASSUME NEW i \in 1 .. MaxEntries
  PROVE  Marks[i] \in Chars /\ Marks[i] # "nl"
<1>1. Marks \in Seq(Chars \ {"nl"}) /\ MaxEntries <= Len(Marks) /\ MaxEntries \in Nat
  BY AuditFileAssumption
<1>2. i \in 1 .. Len(Marks)
  BY <1>1
<1>3. Marks[i] \in Chars \ {"nl"}
  BY <1>1, <1>2, ElementOfSeq
<1> QED
  BY <1>3

(* The detail loses its ends of line. *)
LEMMA OneLineIs ==
  ASSUME NEW detail \in Seq(Chars)
  PROVE  /\ OneLine(detail) \in Seq(Chars) /\ Len(OneLine(detail)) \in Nat
         /\ \A i \in 1 .. Len(OneLine(detail)) : OneLine(detail)[i] # "nl"
<1> DEFINE one == [i \in 1 .. Len(detail) |-> IF detail[i] = "nl" THEN " " ELSE detail[i]]
<1>1. OneLine(detail) = one
  BY DEF OneLine
<1>2. " " \in Chars
  BY AuditFileAssumption
<1>3. \A i \in 1 .. Len(detail) : detail[i] \in Chars
  OBVIOUS
<1>4. ASSUME NEW i \in 1 .. Len(detail) PROVE one[i] \in Chars /\ one[i] # "nl"
  <2>1. CASE detail[i] = "nl"
    BY <1>2, <2>1
  <2>2. CASE detail[i] # "nl"
    BY <1>3, <2>2
  <2> QED
    BY <2>1, <2>2
<1>5. Len(detail) \in Nat /\ one \in Seq(Chars) /\ Len(one) = Len(detail)
  <2>0. Len(detail) \in Nat
    OBVIOUS
  <2>1. Len(detail) \in Nat /\ one \in [1 .. Len(detail) -> Chars]
    BY <1>4, <2>0
  <2> HIDE DEF one
  <2> QED
    BY <2>1
<1> HIDE DEF one
<1> QED
  BY <1>1, <1>4, <1>5

(* An entry is one line, and not an empty one. *)
LEMMA LineIs ==
  ASSUME AuTypeOK, count < MaxEntries, NEW detail \in Details
  PROVE  /\ Line(detail) \in Seq(Chars) /\ Len(Line(detail)) \in Nat \ {0}
         /\ \A i \in 1 .. Len(Line(detail)) : Line(detail)[i] # "nl"
<1> DEFINE mark == Marks[count + 1]
           rest == OneLine(detail)
<1>1. mark \in Chars /\ mark # "nl"
  <2>1. count + 1 \in 1 .. MaxEntries
    BY Bounds DEF AuTypeOK
  <2> QED
    BY <2>1, MarkIs
<1>2. /\ rest \in Seq(Chars) /\ Len(rest) \in Nat
      /\ \A i \in 1 .. Len(rest) : rest[i] # "nl"
  <2>1. detail \in Seq(Chars)
    BY AuditFileAssumption
  <2> QED
    BY <2>1, OneLineIs
<1>3. Line(detail) = <<mark>> \o rest
  BY DEF Line
<1> HIDE DEF mark, rest
<1>4. /\ <<mark>> \o rest \in Seq(Chars)
      /\ Len(<<mark>> \o rest) = 1 + Len(rest)
      /\ (<<mark>> \o rest)[1] = mark
      /\ \A i \in 1 .. Len(rest) : (<<mark>> \o rest)[1 + i] = rest[i]
  <2>1. <<mark>> \in Seq(Chars) /\ Len(<<mark>>) = 1 /\ <<mark>>[1] = mark
    BY <1>1
  <2> QED
    BY <1>2, <2>1, ConcatProperties
<1> DEFINE all == <<mark>> \o rest
<1>5. ASSUME NEW i \in 1 .. (1 + Len(rest)) PROVE all[i] # "nl"
  <2>1. CASE i = 1
    BY <1>1, <1>4, <2>1
  <2>2. CASE i # 1
    <3>1. i - 1 \in 1 .. Len(rest) /\ 1 + (i - 1) = i
      <4>1. Len(rest) \in Nat
        BY <1>2
      <4> QED
        BY <2>2, <4>1
    <3>2. all[i] = rest[i - 1]
      BY <1>4, <3>1
    <3> QED
      BY <1>2, <3>1, <3>2
  <2> QED
    BY <2>1, <2>2
<1>6. all \in Seq(Chars) /\ Len(all) = 1 + Len(rest) /\ 1 + Len(rest) \in Nat \ {0}
  <2>1. Len(rest) \in Nat
    BY <1>2
  <2> QED
    BY <1>4, <2>1
<1>7. Line(detail) = all
  BY <1>3
<1> HIDE DEF all
<1> QED
  BY <1>5, <1>6, <1>7

(* The file that was moved away leaves an empty one. *)
LEMMA EmptyTyped ==
  <<>> \in Seq(Chars) /\ <<>> \in Seq(Seq(Chars)) /\ Len(<<>>) <= 0 /\ 0 <= MaxEntries
<1>1. 0 <= MaxEntries
  BY Bounds
<1> QED
  BY <1>1

LEMMA AuInitInv == AuInit => AuInv
<1> SUFFICES ASSUME AuInit PROVE AuInv
  OBVIOUS
<1>1. AuTypeOK
  BY EmptyTyped DEF AuInit, AuTypeOK
<1>2. LinesEndWithEntries
  BY ScanEmpty DEF AuInit, LinesEndWithEntries
<1> QED
  BY <1>1, <1>2 DEF AuInv

(* The line that Log adds is found whole, after the rest of a line cut short. *)
LEMMA LogKeeps ==
  ASSUME AuInv, NEW detail \in Details, Log(detail)
  PROVE  AuInv'
<1> DEFINE line == Line(detail)
           k == Len(line)
           n == Len(text)
           scan == Scan(text)
           t1 == text \o line
           t2 == t1 \o <<"nl">>
<1>1. /\ line \in Seq(Chars) /\ k \in Nat \ {0} /\ \A i \in 1 .. k : line[i] # "nl"
      /\ Len(line) = k
  BY LineIs DEF AuInv, Log
<1>2. /\ text \in Seq(Chars) /\ Len(text) = n /\ n \in Nat /\ "nl" \in Chars
      /\ entries \in Seq(Seq(Chars)) /\ count \in Nat /\ count < MaxEntries
      /\ Len(entries) \in Nat /\ Len(entries) <= count
  BY Bounds DEF AuInv, AuTypeOK, Log
<1>3. /\ text' = t2 /\ entries' = Append(entries, line) /\ count' = count + 1 /\ open' = FALSE
  BY DEF Log
<1>4. /\ scan \in ScanStates /\ scan.start \in 1 .. (n + 1) /\ Len(scan.out) = Len(entries)
      /\ open <=> scan.start <= n
      /\ \A i \in DOMAIN entries : IsSuffix(entries[i], scan.out[i])
      /\ Len(entries) = count => scan.out = entries /\ ~open
  BY <1>2, ScanResult DEF AuInv, LinesEndWithEntries
<1> HIDE DEF line, k, n, scan
<1>5. /\ t1 \in Seq(Chars) /\ Len(t1) = n + k
      /\ \A i \in 1 .. n : t1[i] = text[i]
      /\ \A i \in 1 .. k : t1[n + i] = line[i]
  <2>1. /\ t1 \in Seq(Chars) /\ Len(t1) = Len(text) + Len(line)
        /\ \A i \in 1 .. Len(text) : t1[i] = text[i]
        /\ \A i \in 1 .. Len(line) : t1[Len(text) + i] = line[i]
    <3>1. text \in Seq(Chars) /\ line \in Seq(Chars)
      BY <1>1, <1>2
    <3> QED
      BY <3>1, ConcatProperties
  <2> HIDE DEF t1
  <2> QED
    BY <1>1, <1>2, <2>1
<1> HIDE DEF t1
<1>6. /\ t2 \in Seq(Chars) /\ Len(t2) = (n + k) + 1 /\ t2[(n + k) + 1] = "nl"
      /\ \A i \in 1 .. (n + k) : t1[i] = t2[i]
  <2>1. t1 \in Seq(Chars) /\ Len(t1) = n + k /\ "nl" \in Chars
    BY <1>2, <1>5
  <2>2. t2 = Append(t1, "nl")
    BY <2>1, AppendIsConcat
  <2>3. /\ Append(t1, "nl") \in Seq(Chars) /\ Len(Append(t1, "nl")) = (n + k) + 1
        /\ Append(t1, "nl")[(n + k) + 1] = "nl"
        /\ \A i \in 1 .. (n + k) : t1[i] = Append(t1, "nl")[i]
    BY <2>1, AppendProperties
  <2> HIDE DEF t2
  <2> QED
    BY <2>2, <2>3
<1> HIDE DEF t2
<1>7. Scan(t1) = scan
  <2>1. \A i \in (n + 1) .. Len(t1) : t1[i] # "nl"
    <3> TAKE i \in (n + 1) .. Len(t1)
    <3>1. i - n \in 1 .. k /\ n + (i - n) = i
      BY <1>1, <1>2, <1>5
    <3> QED
      BY <1>1, <1>5, <3>1
  <2>2. n <= Len(t1) /\ \A i \in 1 .. n : text[i] = t1[i]
    BY <1>1, <1>2, <1>5
  <2> QED
    BY <1>2, <1>5, <2>1, <2>2, ScanMore DEF scan
<1>8. Scan(t2) = [out |-> WithLine(scan, t2, (n + k) + 1), start |-> (n + k) + 2]
  <2>1. /\ t1 \in Seq(Chars) /\ t2 \in Seq(Chars) /\ Len(t2) = Len(t1) + 1
        /\ \A i \in 1 .. Len(t1) : t1[i] = t2[i]
        /\ t2[Len(t1) + 1] = "nl"
    BY <1>5, <1>6
  <2>2. Scan(t2) = [out |-> WithLine(Scan(t1), t2, Len(t2)), start |-> Len(t2) + 1]
    BY <2>1, ScanEnd
  <2>3. Len(t2) + 1 = (n + k) + 2
    BY <1>1, <1>2, <1>6
  <2> QED
    BY <1>6, <1>7, <2>2, <2>3
<1> DEFINE a == scan.start
           new == SubSeq(t2, a, n + k)
<1>9. a \in 1 .. (n + 1)
  BY <1>4
<1> HIDE DEF a
<1>10. /\ new \in Seq(Chars) /\ Len(new) = (n + k) - a + 1
       /\ \A i \in 1 .. ((n + k) - a + 1) : new[i] = t2[a + i - 1]
  <2>1. \A i \in a .. (n + k) : t2[i] \in Chars
    BY <1>1, <1>2, <1>6, <1>9
  <2>2. a \in Int /\ n + k \in Int /\ a <= n + k
    BY <1>1, <1>2, <1>9
  <2> QED
    BY <2>1, <2>2, SubSeqProperties
<1>11. Scan(t2) = [out |-> Append(scan.out, new), start |-> (n + k) + 2]
  <2>1. (n + k) + 1 > a /\ ((n + k) + 1) - 1 = n + k
    BY <1>1, <1>2, <1>9
  <2> QED
    BY <1>8, <2>1 DEF WithLine, a
<1> HIDE DEF new
<1>12. /\ k <= Len(new)
       /\ \A i \in 1 .. k : line[i] = new[(Len(new) - k) + i]
  <2>1. k <= Len(new)
    BY <1>1, <1>2, <1>9, <1>10
  <2>2. ASSUME NEW i \in 1 .. k PROVE line[i] = new[(Len(new) - k) + i]
    <3>1. /\ (Len(new) - k) + i \in 1 .. ((n + k) - a + 1)
          /\ a + ((Len(new) - k) + i) - 1 = n + i
          /\ n + i \in 1 .. (n + k)
      BY <1>1, <1>2, <1>9, <1>10
    <3>2. new[(Len(new) - k) + i] = t2[n + i]
      BY <1>10, <3>1
    <3>3. t2[n + i] = line[i]
      BY <1>5, <1>6, <3>1
    <3> QED
      BY <3>2, <3>3
  <2> QED
    BY <2>1, <2>2
<1>13. IsSuffix(line, new)
  BY <1>1, <1>10, <1>12, SuffixOf
<1>14. ASSUME ~open PROVE new = line
  <2>1. a = n + 1
    BY <1>2, <1>4, <1>9, <1>14 DEF a
  <2>2. Len(new) = k
    BY <1>1, <1>2, <1>10, <2>1
  <2>3. \A i \in 1 .. k : line[i] = new[i]
    BY <1>1, <1>12, <2>2
  <2> QED
    BY <1>1, <1>10, <2>2, <2>3, SeqEqual
<1> DEFINE e == Len(entries)
           out == scan.out
           outs == Append(scan.out, new)
<1>15. /\ Len(entries') = e + 1 /\ entries' \in Seq(Seq(Chars)) /\ entries'[e + 1] = line
       /\ \A i \in 1 .. e : entries'[i] = entries[i]
       /\ DOMAIN entries' = 1 .. (e + 1) /\ DOMAIN entries = 1 .. e
  BY <1>1, <1>2, <1>3
<1>16. /\ Len(outs) = e + 1 /\ outs[e + 1] = new
       /\ \A i \in 1 .. e : outs[i] = out[i]
  <2>1. scan.out \in Seq(Seq(Chars))
    BY <1>4 DEF ScanStates
  <2> QED
    BY <1>4, <1>10, <2>1
<1>17. AuTypeOK'
  <2>1. Len(entries') <= count' /\ count' <= MaxEntries /\ count' \in Nat
    BY <1>2, <1>3, <1>15, Bounds
  <2> HIDE DEF e
  <2> QED
    BY <1>3, <1>6, <1>15, <2>1 DEF AuTypeOK
<1>18. LinesEndWithEntries'
  <2>1. (n + k) + 2 \in 1 .. (Len(t2) + 1) /\ ~ ((n + k) + 2 <= Len(t2))
    BY <1>1, <1>2, <1>6
  <2>2. \A i \in 1 .. (e + 1) : IsSuffix(entries'[i], outs[i])
    <3> HIDE DEF outs, out, e
    <3> TAKE i \in 1 .. (e + 1)
    <3>1. CASE i \in 1 .. e
      BY <1>4, <1>15, <1>16, <3>1 DEF out
    <3>2. CASE i = e + 1
      BY <1>13, <1>15, <1>16, <3>2
    <3> QED
      BY <1>2, <3>1, <3>2 DEF e
  <2>3. ASSUME Len(entries') = count' PROVE outs = entries'
    <3>1. e = count
      <4>1. e \in Nat /\ count \in Nat /\ e + 1 = count + 1
        BY <1>2, <1>3, <1>15, <2>3
      <4> HIDE DEF e
      <4> QED
        BY <4>1
    <3>2. out = entries /\ new = line
      BY <1>4, <1>14, <3>1
    <3> QED
      BY <1>3, <3>2
  <2>4. Scan(text)' = [out |-> outs, start |-> (n + k) + 2]
    BY <1>3, <1>11
  <2>5. open' = FALSE /\ Len(text') = Len(t2)
    BY <1>3
  <2> HIDE DEF outs
  <2> QED
    BY <1>15, <1>16, <2>1, <2>2, <2>3, <2>4, <2>5 DEF LinesEndWithEntries
<1> QED
  BY <1>17, <1>18 DEF AuInv

(* What is left of a failed write adds no line. *)
LEMMA LogFailsKeeps ==
  ASSUME AuInv, NEW detail \in Details, LogFails(detail)
  PROVE  AuInv'
<1> DEFINE line == Line(detail)
           n == Len(text)
<1>1. /\ line \in Seq(Chars) /\ \A i \in 1 .. Len(line) : line[i] # "nl"
      /\ Len(line) \in Nat
  BY LineIs DEF AuInv, LogFails
<1>2. /\ text \in Seq(Chars) /\ n \in Nat /\ count \in Nat /\ count < MaxEntries
      /\ Len(entries) \in Nat /\ Len(entries) <= count
      /\ open \in BOOLEAN
      /\ entries \in Seq(Seq(Chars))
  BY DEF AuInv, AuTypeOK, LogFails
<1> HIDE DEF line
<1>3. PICK k \in 0 .. Len(line) :
         /\ text' = text \o SubSeq(line, 1, k)
         /\ open' = (open \/ k > 0)
  BY DEF LogFails, line
<1>4. count' = count + 1 /\ entries' = entries
  BY DEF LogFails
<1> DEFINE part1 == SubSeq(line, 1, k)
<1>5. /\ part1 \in Seq(Chars) /\ Len(part1) = k
      /\ \A i \in 1 .. k : part1[i] = line[i]
  BY <1>1, <1>3
<1> HIDE DEF part1
<1>6. /\ text' \in Seq(Chars) /\ Len(text') = n + k
      /\ \A i \in 1 .. n : text[i] = text'[i]
      /\ \A i \in 1 .. k : text'[n + i] = part1[i]
  <2>1. text' = text \o part1
    BY <1>3 DEF part1
  <2> QED
    BY <1>2, <1>5, <2>1
<1>7. Scan(text') = Scan(text)
  <2>1. \A i \in (n + 1) .. Len(text') : text'[i] # "nl"
    <3> TAKE i \in (n + 1) .. Len(text')
    <3>1. i - n \in 1 .. k /\ n + (i - n) = i /\ i - n \in 1 .. Len(line)
      BY <1>1, <1>2, <1>3, <1>6
    <3> QED
      BY <1>1, <1>5, <1>6, <3>1
  <2>2. n <= Len(text')
    BY <1>2, <1>3, <1>6
  <2> QED
    BY <1>2, <1>6, <2>1, <2>2, ScanMore
<1>8. AuTypeOK'
  <2>1. Len(entries') <= count' /\ count' <= MaxEntries /\ count' \in Nat
    BY <1>2, <1>4, Bounds
  <2> QED
    BY <1>2, <1>3, <1>4, <1>6, <2>1 DEF AuTypeOK
<1>9. LinesEndWithEntries'
  <2>1. /\ Scan(text).start \in 1 .. (n + 1)
        /\ open <=> Scan(text).start <= n
        /\ Len(Scan(text).out) = Len(entries)
        /\ \A i \in DOMAIN entries : IsSuffix(entries[i], Scan(text).out[i])
    BY DEF AuInv, LinesEndWithEntries
  <2>2. Scan(text).start \in 1 .. (Len(text') + 1)
    BY <1>1, <1>2, <1>3, <1>6, <2>1
  <2>4. open' <=> Scan(text).start <= Len(text')
    <3>1. CASE k = 0
      BY <1>2, <1>3, <1>6, <2>1, <3>1
    <3>2. CASE k > 0
      <4>1. n + 1 <= Len(text') /\ Scan(text).start <= n + 1 /\ Len(text') \in Nat
        BY <1>1, <1>2, <1>6, <2>1, <3>2
      <4>2. open'
        BY <1>3, <3>2
      <4>3. Scan(text).start <= Len(text')
        BY <1>2, <2>1, <4>1
      <4> QED
        BY <4>2, <4>3
    <3> QED
      BY <1>1, <3>1, <3>2
  <2>3. Len(entries) # count'
    BY <1>2, <1>4
  <2> QED
    BY <1>4, <1>7, <2>1, <2>2, <2>3, <2>4 DEF LinesEndWithEntries
<1> QED
  BY <1>8, <1>9 DEF AuInv

LEMMA AuNextInv == AuInv /\ [AuNext]_auVars => AuInv'
<1> SUFFICES ASSUME AuInv, [AuNext]_auVars PROVE AuInv'
  OBVIOUS
<1>1. CASE \E detail \in Details : Log(detail) \/ LogFails(detail)
  BY <1>1, LogKeeps, LogFailsKeeps
<1>2. CASE Rotate
  <2>1. AuTypeOK'
    BY <1>2, EmptyTyped DEF Rotate, AuTypeOK
  <2>2. Scan(text)' = [out |-> <<>>, start |-> 1]
    BY <1>2, ScanEmpty DEF Rotate
  <2>3. LinesEndWithEntries'
    BY <1>2, <2>2 DEF Rotate, LinesEndWithEntries
  <2> QED
    BY <2>1, <2>3 DEF AuInv
<1>3. CASE UNCHANGED auVars
  BY <1>3 DEF auVars, AuInv, AuTypeOK, LinesEndWithEntries
<1> QED
  BY <1>1, <1>2, <1>3 DEF AuNext

(* The last lines, one by one. *)
LEMMA LastOfIs ==
  ASSUME NEW S, NEW s \in Seq(S), NEW n \in Nat
  PROVE  /\ LastOf(s, n) \in Seq(S)
         /\ Len(LastOf(s, n)) = IF Len(s) > n THEN n ELSE Len(s)
         /\ \A i \in 1 .. Len(LastOf(s, n)) :
               LastOf(s, n)[i] = s[(Len(s) - Len(LastOf(s, n))) + i]
<1> DEFINE m == Len(s)
           end == SubSeq(s, (m - n) + 1, m)
<1>1. m \in Nat /\ \A i \in 1 .. m : s[i] \in S
  OBVIOUS
<1> HIDE DEF m
<1>2. CASE m > n
  <2>1. (m - n) + 1 \in Int /\ m \in Int /\ \A i \in ((m - n) + 1) .. m : s[i] \in S
    BY <1>1, <1>2
  <2>2. /\ end \in Seq(S)
        /\ Len(end) = IF (m - n) + 1 <= m THEN m - ((m - n) + 1) + 1 ELSE 0
        /\ \A i \in 1 .. (m - ((m - n) + 1) + 1) : end[i] = s[((m - n) + 1) + i - 1]
    BY <2>1, SubSeqProperties
  <2>3. LastOf(s, n) = end
    BY <1>2 DEF LastOf, m
  <2> HIDE DEF end
  <2>4. Len(end) = n /\ m - ((m - n) + 1) + 1 = n
    BY <1>1, <1>2, <2>2
  <2>5. \A i \in 1 .. n : ((m - n) + 1) + i - 1 = (m - n) + i
    BY <1>1
  <2>6. \A i \in 1 .. n : end[i] = s[(m - n) + i]
    BY <2>2, <2>4, <2>5
  <2> QED
    BY <1>2, <2>2, <2>3, <2>4, <2>6 DEF m
<1>3. CASE ~(m > n)
  <2>1. LastOf(s, n) = s
    BY <1>3 DEF LastOf, m
  <2>2. \A i \in 1 .. m : (m - m) + i = i
    BY <1>1
  <2>3. \A i \in 1 .. m : s[i] = s[(m - m) + i]
    BY <2>2
  <2> QED
    BY <1>3, <2>1, <2>3 DEF m
<1> QED
  BY <1>2, <1>3

(* Row i of the page ends with the i-th of the entries that are due. *)
LEMMA AuInvTail == AuInv => TailIsRecent
<1> SUFFICES ASSUME AuInv PROVE TailIsRecent
  OBVIOUS
<1> DEFINE m == Len(entries)
           o == IF open THEN 1 ELSE 0
           T == TailLines
           scan == Scan(text)
           out == scan.out
           all == SplitLines(text)
           lines == Tail300
           due == LastOf(entries, IF open THEN TailLines - 1 ELSE TailLines)
           d == IF m > T - o THEN T - o ELSE m
           l == IF m + o > T THEN T ELSE m + o
<1>1. /\ text \in Seq(Chars) /\ Len(text) \in Nat /\ open \in BOOLEAN
      /\ entries \in Seq(Seq(Chars)) /\ m \in Nat
  BY DEF AuInv, AuTypeOK
<1>2. o \in Nat /\ T \in Nat /\ T - o \in Nat
  BY Bounds
<1>3. /\ scan \in ScanStates /\ scan.start \in 1 .. (Len(text) + 1)
      /\ open <=> scan.start <= Len(text)
      /\ Len(out) = m /\ out \in Seq(Seq(Chars))
      /\ \A i \in DOMAIN entries : IsSuffix(entries[i], out[i])
      /\ Len(entries) = count => out = entries /\ ~open
  <2>1. scan \in ScanStates
    BY <1>1, ScanResult
  <2>2. out \in Seq(Seq(Chars))
    BY <2>1 DEF ScanStates
  <2> QED
    BY <2>1, <2>2 DEF AuInv, LinesEndWithEntries
<1>4. /\ all \in Seq(Seq(Chars)) /\ Len(all) = m + o
      /\ \A i \in 1 .. m : all[i] = out[i]
      /\ ~open => all = out
  <2>1. all = WithLine(scan, text, Len(text) + 1)
    BY DEF SplitLines
  <2>2. all \in Seq(Seq(Chars))
    <3>1. Len(text) + 1 \in 1 .. (Len(text) + 1)
      BY <1>1
    <3> HIDE DEF all, scan
    <3> QED
      BY <1>1, <1>3, <2>1, <3>1, WithLineIs
  <2> DEFINE rest == SubSeq(text, scan.start, (Len(text) + 1) - 1)
  <2>3. /\ open => all = Append(out, rest)
        /\ ~open => all = out
    <3>1. open <=> Len(text) + 1 > scan.start
      <4>1. scan.start \in Nat /\ Len(text) \in Nat
        BY <1>1, <1>3
      <4> HIDE DEF scan
      <4> QED
        BY <1>3, <4>1
    <3> HIDE DEF all, scan
    <3> QED
      BY <2>1, <3>1 DEF WithLine
  <2> HIDE DEF all, rest, scan, out
  <2>4. CASE open
    <3>1. Len(Append(out, rest)) = m + 1 /\ \A i \in 1 .. m : Append(out, rest)[i] = out[i]
      BY <1>1, <1>3
    <3> QED
      BY <2>2, <2>3, <2>4, <3>1
  <2>5. CASE ~open
    BY <1>1, <1>3, <2>2, <2>3, <2>5
  <2> QED
    BY <1>1, <2>4, <2>5
<1>5. l = d + o /\ d \in 0 .. m /\ l <= T /\ (m + o) - l = m - d /\ l \in Nat /\ d \in Nat
  <2> HIDE DEF m, o, T
  <2> QED
    BY <1>1, <1>2
<1> HIDE DEF scan, out, all
<1>6. /\ Len(lines) = l
      /\ \A i \in 1 .. l : lines[i] = all[(m - d) + i]
      /\ lines \in Seq(Seq(Chars))
  <2>1. l = IF Len(all) > TailLines THEN TailLines ELSE Len(all)
    BY <1>4
  <2>2. lines = LastOf(all, TailLines)
    BY DEF Tail300, all
  <2>3. TailLines \in Nat
    BY Bounds
  <2> HIDE DEF l, lines
  <2>4. /\ LastOf(all, TailLines) \in Seq(Seq(Chars))
        /\ Len(LastOf(all, TailLines)) = IF Len(all) > TailLines THEN TailLines ELSE Len(all)
        /\ \A i \in 1 .. Len(LastOf(all, TailLines)) :
              LastOf(all, TailLines)[i] = all[(Len(all) - Len(LastOf(all, TailLines))) + i]
    <3>1. all \in Seq(Seq(Chars))
      BY <1>4
    <3> QED
      BY <2>3, <3>1, LastOfIs
  <2>5. Len(all) - l = m - d
    BY <1>4, <1>5
  <2>6. Len(lines) = l
    BY <2>1, <2>2, <2>4
  <2> QED
    BY <2>2, <2>4, <2>5, <2>6
<1>7. /\ Len(due) = d
      /\ \A i \in 1 .. d : due[i] = entries[(m - d) + i]
      /\ due \in Seq(Seq(Chars))
  <2> DEFINE n == T - o
  <2>1. d = IF Len(entries) > n THEN n ELSE Len(entries)
    OBVIOUS
  <2>2. due = LastOf(entries, n)
    <3>1. (IF open THEN TailLines - 1 ELSE TailLines) = n
      BY <1>2
    <3> QED
      BY <3>1
  <2>3. n \in Nat
    BY <1>2
  <2> HIDE DEF d, due, n
  <2>4. /\ LastOf(entries, n) \in Seq(Seq(Chars))
        /\ Len(LastOf(entries, n)) = IF Len(entries) > n THEN n ELSE Len(entries)
        /\ \A i \in 1 .. Len(LastOf(entries, n)) :
              LastOf(entries, n)[i] = entries[(Len(entries) - Len(LastOf(entries, n))) + i]
    <3>1. entries \in Seq(Seq(Chars))
      BY <1>1
    <3> QED
      BY <2>3, <3>1, LastOfIs
  <2>5. Len(due) = d
    BY <2>1, <2>2, <2>4
  <2> QED
    BY <2>2, <2>4, <2>5
<1>8. \A i \in 1 .. d : (m - d) + i \in 1 .. m
  <2> HIDE DEF d, m
  <2> QED
    BY <1>1, <1>5
<1>9. DOMAIN due = 1 .. d /\ DOMAIN lines = 1 .. l /\ DOMAIN entries = 1 .. m
  <2> HIDE DEF d, l, due, lines
  <2> QED
    BY <1>1, <1>6, <1>7
<1>10. Len(entries) = count => lines = due
  <2> SUFFICES ASSUME Len(entries) = count PROVE lines = due
    OBVIOUS
  <2>1. all = entries /\ ~open
    BY <1>3, <1>4 DEF out
  <2>2. l = d
    BY <1>5, <2>1
  <2> HIDE DEF d, l, due, lines, m
  <2>3. \A i \in 1 .. d : lines[i] = due[i]
    BY <1>6, <1>7, <2>1, <2>2
  <2> QED
    BY <1>6, <1>7, <2>2, <2>3, SeqEqual
<1> DEFINE place == [i \in DOMAIN due |-> i]
<1>11. place \in [DOMAIN due -> DOMAIN lines]
  <2>1. 1 .. d \subseteq 1 .. l
    <3> HIDE DEF d, l
    <3> QED
      BY <1>2, <1>5
  <2> HIDE DEF d, l, due, lines
  <2> QED
    BY <1>9, <2>1
<1>12. ASSUME NEW i \in DOMAIN due PROVE IsSuffix(due[i], lines[i])
  <2> HIDE DEF d, l, due, lines, m, o
  <2>1. i \in 1 .. d /\ i \in 1 .. l /\ (m - d) + i \in 1 .. m
    BY <1>2, <1>5, <1>8, <1>9
  <2>2. due[i] = entries[(m - d) + i] /\ lines[i] = all[(m - d) + i]
    BY <1>6, <1>7, <2>1
  <2>3. all[(m - d) + i] = out[(m - d) + i]
    BY <1>4, <2>1
  <2>4. IsSuffix(entries[(m - d) + i], out[(m - d) + i])
    BY <1>3, <1>9, <2>1
  <2> QED
    BY <2>2, <2>3, <2>4
<1>13. Len(lines) <= TailLines
  BY <1>5, <1>6
<1> HIDE DEF d, l, m, o, T
<1>14. \E p \in [DOMAIN due -> DOMAIN lines] :
          \A i \in DOMAIN due :
              /\ IsSuffix(due[i], lines[p[i]])
              /\ \A j \in DOMAIN due : i < j => p[i] < p[j]
  <2> HIDE DEF due, lines
  <2>1. \A i \in DOMAIN due : place[i] = i
    OBVIOUS
  <2> HIDE DEF place
  <2>2. \A i \in DOMAIN due : IsSuffix(due[i], lines[place[i]])
    BY <1>12, <2>1
  <2>3. \A i \in DOMAIN due : \A j \in DOMAIN due : i < j => place[i] < place[j]
    BY <2>1
  <2> QED
    BY <1>11, <2>2, <2>3
<1> HIDE DEF place
<1> QED
  BY <1>10, <1>13, <1>14, Zenon DEF TailIsRecent

-----------------------------------------------------------------------------
(* The composition. *)

LEMMA PanelInitInv == PanelInit => PanelInv
BY FwInitInv, ExInitInv, PvInitInv, AuInitInv, ReInitInv DEF PanelInit, PanelInv

LEMMA PanelSteps ==
  [PanelNext]_panelVars =>
      [FwNext]_fwVars /\ [ExNext]_exVars /\ [PvNext]_pvVars /\ [AuNext]_auVars /\ [ReNext]_reVars
<1> SUFFICES ASSUME [PanelNext]_panelVars
             PROVE  [FwNext]_fwVars /\ [ExNext]_exVars /\ [PvNext]_pvVars /\ [AuNext]_auVars /\ [ReNext]_reVars
  OBVIOUS
<1>1. CASE PanelNext
  BY <1>1 DEF PanelNext
<1>2. CASE UNCHANGED panelVars
  BY <1>2 DEF panelVars
<1> QED
  BY <1>1, <1>2

(* The invariant of the parts: how requests, replies and lists agree with each
   other and with ufw, the files and the pages. *)
THEOREM PanelInvariant == PanelSpec => []PanelInv
<1>1. PanelInit => PanelInv
  BY PanelInitInv
<1>2. PanelInv /\ [PanelNext]_panelVars => PanelInv'
  BY PanelSteps, FwNextInv, ExNextInv, PvNextInv, AuNextInv, ReNextInv DEF PanelInv
<1> QED
  BY <1>1, <1>2, PTL DEF PanelSpec

(* The firewall page deletes the rule whose button was clicked, of the right
   family, for any number of pages, requests and rules, provided that nothing
   changed ufw since its list was made (DeleteRule, fwDeleteRule). *)
THEOREM DeleteIsExact == PanelSpec => UnracedDeleteExact
<1> DEFINE A == \A r \in Requests :
                   DeleteRule(r) /\ req[r].fresh =>
                       /\ Numbered[req[r].number] = req[r].rule
                       /\ Numbered' = RemoveAt(Numbered, req[r].number)
<1>1. PanelInv /\ [PanelNext]_panelVars => [A]_fwVars
  BY FreshDelete DEF PanelInv
<1> QED
  BY <1>1, PanelInvariant, PTL DEF PanelSpec, UnracedDeleteExact

(* A firewall page at rest shows all its own requests did, in whatever order
   the replies came, unless a fetch failed or a reply came late
   (fwToggle, fwAddRule, fwDeleteRule, loadFirewall). *)
THEOREM QuietPagesAreCurrent == PanelSpec => []QuietPageShowsOwn
<1>1. PanelInv => QuietPageShowsOwn
  BY DEF PanelInv, FwInv, FwRenewal, QuietPageShowsOwn
<1> QED
  BY <1>1, PanelInvariant, PTL

(* The rows of the explorer are of the directory in its breadcrumb (loadFiles,
   handleFilesList). *)
THEOREM RowsFollowCrumb == PanelSpec => []RowsOfCrumb
<1>1. PanelInv => RowsOfCrumb
  BY DEF PanelInv, ExInv
<1> QED
  BY <1>1, PanelInvariant, PTL

(* The preview shows the file it names, unless an obsolete reply came last
   (previewFile). *)
THEOREM PreviewNamed == PanelSpec => []PreviewUnderItsName
<1>1. PanelInv => PreviewUnderItsName
  BY DEF PanelInv, ExInv
<1> QED
  BY <1>1, PanelInvariant, PTL

(* What is shown of a file is text within the cap, and of one nobody touches
   exactly what is in it, for any cap and any size (ReadPreview). *)
THEOREM PreviewIsExact == PanelSpec => []PreviewExact
<1>1. PanelInv => PreviewExact
  BY DEF PanelInv, PvInv
<1> QED
  BY <1>1, PanelInvariant, PTL

(* The page of the audit log gets the latest entries, each on one line and in
   order, for any limit and any details; after writes that failed part way each
   of them still ends a line of its own (Log, oneLine, Tail, splitLines). *)
THEOREM TailShowsRecent == PanelSpec => []TailIsRecent
<1>1. PanelInv => TailIsRecent
  BY AuInvTail DEF PanelInv
<1> QED
  BY <1>1, PanelInvariant, PTL

(* The search page lists the titled hits, the first ten of them and in order, each
   under its own snippet unless an earlier hit lacks one, and never under that of
   an earlier hit, for pages of any length.  Its links lead where the hits lead if
   the target holds neither a percent sign nor a plus; what becomes of any other
   target, decoded once more or left wrapped, is said of every target too (Search,
   resolveDDGRedirect). *)
THEOREM SearchIsMatched == PanelSpec => []SearchMatches
<1>1. PanelInv => SearchMatches
  BY ReInvMatches DEF PanelInv
<1> QED
  BY <1>1, PanelInvariant, PTL

(* What the panel reads as text is what was written: settings, the listings of
   commands and logs of any length, with any items, names and columns that hold
   no separator.  An interface has its name, its state unless the name holds UP,
   and its addresses unless it hangs on another (envList, envInt, envBool,
   dockermgr.List, users.List and Groups, Connections, Interfaces,
   pkgmanager.List, Collect, logs.Tail). *)
THEOREM ReadersReadBack == PanelSpec => []ReadsWhatWasWritten
<1>1. PanelInv => ReadsWhatWasWritten
  BY ReInvReads DEF PanelInv
<1> QED
  BY <1>1, PanelInvariant, PTL
=============================================================================
