------------------------------ MODULE Readers ------------------------------
(***************************************************************************)
(* What the panel reads as text: its settings, the output of commands, a   *)
(* log, a page of search results.  A behaviour takes up one input after    *)
(* another, of any kind; each is an argument of one call.                  *)
(***************************************************************************)
EXTENDS Search, Listings

CONSTANT TargetLength   \* bound on the length of a link's target

VARIABLE input          \* the text, as the one who wrote it meant it

reVars == <<input>>

NoInput == [kind |-> "none", of |-> <<>>]

ReInit == input = NoInput

TakeUp(kind, of) ==
    /\ input.kind = "none"
    /\ input' = [kind |-> kind, of |-> of]

LogRequest ==
    \E asked \in {"listed", "other", ""}, log \in LogTexts \cup {Unreadable} :
        TakeUp("log", <<asked, log>>)

ReNext ==
    \/ \E cells \in Lists : TakeUp("list", cells)
    \/ \E sign \in Signs, n \in 0..99 : TakeUp("number", <<sign, n>>)
    \/ \E word \in Switches : TakeUp("word", word)
    \/ \E table \in Containers : TakeUp("containers", table)
    \/ \E table \in Accounts : TakeUp("accounts", table)
    \/ \E table \in Sockets : TakeUp("sockets", table)
    \/ \E addrs \in Addresses, links \in NetLinks : TakeUp("interfaces", <<addrs, links>>)
    \/ LogRequest
    \/ \E page \in BoundedSeq(Hits, MaxHits) : TakeUp("search", page)
    \/ \E url \in BoundedSeq(Letters, TargetLength) : TakeUp("target", url)
    \/ input.kind # "none" /\ input' = NoInput

ReSpec == ReInit /\ [][ReNext]_reVars

-----------------------------------------------------------------------------
(* What is read, of any length: cells, rows, lines of a log, hits, characters. *)
ReInv ==
    /\ input.kind = "list" => input.of \in Seq(Cells)
    /\ input.kind = "number" => input.of \in Signs \X (0..99)
    /\ input.kind = "containers" => input.of \in Seq(ContainerRow)
    /\ input.kind = "accounts" => input.of \in Seq(AccountRow)
    /\ input.kind = "sockets" => input.of \in Seq(SocketRow)
    /\ input.kind = "interfaces" => input.of \in Seq(NetAddress) \X Seq(NetLink)
    /\ input.kind = "log" =>
          input.of \in {"listed", "other", ""} \X (Seq(LogChars) \cup {Unreadable})
    /\ input.kind = "search" => input.of \in Seq(Hits)
    /\ input.kind = "target" => input.of \in Seq(Letters)

(* Reading a text back gives what was written: no column shifts, no item, row
   or line gets lost or made up, and what cannot be read is the default.  Of a
   link that hangs on another the addresses are left open (InterfacesRead). *)
ReadsWhatWasWritten ==
    CASE input.kind = "list" -> ListReads(input.of)
      [] input.kind = "number" -> NumberReads(input.of[1], input.of[2])
      [] input.kind = "word" -> WordReads(input.of)
      [] input.kind = "containers" -> ContainersRead(input.of)
      [] input.kind = "accounts" -> AccountsRead(input.of)
      [] input.kind = "sockets" -> SocketsRead(input.of) /\ FiguresRead(input.of)
      [] input.kind = "interfaces" -> InterfacesRead(input.of[1], input.of[2])
      [] input.kind = "log" -> LogReads(input.of[1], input.of[2])
      [] OTHER -> TRUE

(* The page of results holds the titled hits, each under its own snippet unless
   an earlier hit lacks one, and then never under that of an earlier hit.  A
   link leads where the hit leads if the target holds neither a percent sign nor
   a plus; if it does, the link is decoded once too often or stays wrapped
   (search.Search, resolveDDGRedirect). *)
SearchMatches ==
    /\ input.kind = "search" => ResultsMatch(input.of)
    /\ input.kind = "target" => TargetsMatch(input.of)

(* search.go:82 says that resolveDDGRedirect unwraps the tracking redirect down
   to the real target: any target, those with a percent sign or a plus too. *)
TargetsUnwrapped ==
    input.kind = "target" /\ input.of # <<>> =>
        ResolveDDGRedirect(Wrapped(input.of)) = Direct(input.of)

(* network.go:56 says that Interfaces lists the interfaces with their addresses:
   any interface, one that hangs on another too. *)
InterfacesWithAddresses ==
    input.kind = "interfaces" =>
        LET addrs == input.of[1] links == input.of[2]
            read == InterfacesOf(PrintInterfaces(addrs, links))
        IN \A i \in DOMAIN links : read[i].addrs = OwnAddresses(links[i], addrs)
=============================================================================
