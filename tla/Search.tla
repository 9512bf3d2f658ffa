------------------------------- MODULE Search -------------------------------
(***************************************************************************)
(* search.Search: the links and the snippets of a result page are found by *)
(* two regular expressions and put together by position; each link is      *)
(* unwrapped from the tracking redirect it may be hidden in.               *)
(*                                                                         *)
(* External: a page is a sequence of hits, a hit without a snippet is      *)
(* possible, and the redirect carries the target in query encoding.        *)
(***************************************************************************)
EXTENDS Text

CONSTANTS
    MaxResults,   \* 10
    MaxHits       \* bound on the hits of a page

ASSUME SearchAssumption == MaxResults \in Nat /\ MaxHits \in Nat

-----------------------------------------------------------------------------
(* Targets.  "z" stands for every character that encoding leaves alone. *)

Letters == {"z", ":", "%", "+", "2", "5", "B"}
Hex == {"2", "3", "5", "A", "B"}

Encoded(c) ==
    CASE c = "%" -> <<"%", "2", "5">> [] c = "+" -> <<"%", "2", "B">>
      [] c = ":" -> <<"%", "3", "A">> [] OTHER -> <<c>>

QueryEscape(url) == FlattenSeq(Mapped(Encoded, url))

Undecodable == <<"undecodable">>

(* url.QueryUnescape, also what Query().Get does to a value: each percent sign
   must begin an escape, and what is not inside of one is a character. *)
Decodable(s) ==
    \A i \in DOMAIN s :
        s[i] = "%" => i + 2 <= Len(s) /\ s[i + 1] \in Hex /\ s[i + 2] \in Hex

Inside(s, i) == \E d \in 1..2 : d < i /\ s[i - d] = "%"

Starts(s) == Places([i \in DOMAIN s |-> ~Inside(s, i)])

Decoded(s, i) ==
    CASE s[i] = "+" -> " "
      [] s[i] = "%" -> (CASE s[i + 1] = "2" /\ s[i + 2] = "5" -> "%"
                          [] s[i + 1] = "2" /\ s[i + 2] = "B" -> "+"
                          [] s[i + 1] = "3" /\ s[i + 2] = "A" -> ":"
                          [] OTHER -> "other")
      [] OTHER -> s[i]

QueryUnescape(s) ==
    IF Decodable(s) THEN [k \in DOMAIN Starts(s) |-> Decoded(s, Starts(s)[k])] ELSE Undecodable

(* How the page writes the link to a target.  (A scheme is put before a link
   without one; the panel leaves it at that.) *)
Wrapped(url) == [redirect |-> TRUE, text |-> QueryEscape(url)]
Direct(url) == [redirect |-> FALSE, text |-> url]

(* Mutant: the parameter is taken as it is. *)
ResolveRaw(href) == IF href.redirect /\ href.text # <<>> THEN Direct(href.text) ELSE href

(* The value is decoded by Query().Get, and then once more; a value that cannot
   be decoded twice, or is empty, leaves the link as it is. *)
ResolveDDGRedirect(href) ==
    LET target == QueryUnescape(href.text)
        decoded == QueryUnescape(target)
    IN IF href.redirect /\ target \notin {<<>>, Undecodable} /\ decoded # Undecodable
       THEN Direct(decoded) ELSE href

-----------------------------------------------------------------------------
(* Results.  The parts of a hit are named after its place on the page; a
   title or snippet of nothing but tags is empty, which is 0. *)

Hits == [title : BOOLEAN, snippet : BOOLEAN]

Links(page) == [i \in DOMAIN page |-> IF page[i].title THEN i ELSE 0]

(* snippetRe finds the snippets there are. *)
Snippets(page) == Places([i \in DOMAIN page |-> page[i].snippet])

(* The k-th of them, if there are as many. *)
Snippet(page, k) == IF k \in DOMAIN Snippets(page) THEN Snippets(page)[k] ELSE 0

(* Mutant: the snippet is looked up by the number of results so far. *)
ResultsBySize(page) ==
    LET after[i \in 0..Len(page)] ==
            IF i = 0 THEN <<>>
            ELSE IF Len(after[i - 1]) >= MaxResults \/ Links(page)[i] = 0 THEN after[i - 1]
            ELSE Append(after[i - 1], [link |-> i, snippet |-> Snippet(page, Len(after[i - 1]) + 1)])
    IN after[Len(page)]

(* The loop over the links: a link without a title is passed over. *)
Results(page) ==
    LET after[i \in 0..Len(page)] ==
            IF i = 0 THEN <<>>
            ELSE IF Len(after[i - 1]) >= MaxResults \/ Links(page)[i] = 0 THEN after[i - 1]
            ELSE Append(after[i - 1], [link |-> i, snippet |-> Snippet(page, i)])
    IN after[Len(page)]

-----------------------------------------------------------------------------
(* The first titled hits of the page, in their order.  Each stands with its own
   snippet as long as no hit before it lacks one; a missing snippet shifts those
   behind it, so from there on a hit may stand with the snippet of a later hit,
   or with none, but never with that of an earlier one (Search). *)
ResultsMatch(page) ==
    LET titled == Places([i \in DOMAIN page |-> page[i].title])
        r == Results(page)
    IN /\ Len(r) = IF Len(titled) < MaxResults THEN Len(titled) ELSE MaxResults
       /\ \A k \in DOMAIN r :
             /\ r[k].link = titled[k]
             /\ (\A j \in 1..titled[k] : page[j].snippet) => r[k].snippet = titled[k]
             /\ r[k].snippet = 0 \/ r[k].snippet >= titled[k]

(* A wrapped target is unwrapped and decoded once more than it was encoded.  So
   it comes out as it was if it holds neither a percent sign nor a plus; one
   whose percent signs all begin an escape comes out with those, and its
   pluses, decoded; any other stays wrapped.  A link that is no redirect is
   left alone (resolveDDGRedirect). *)
TargetsMatch(url) ==
    LET read == ResolveDDGRedirect(Wrapped(url))
    IN /\ read = IF url # <<>> /\ Decodable(url) THEN Direct(QueryUnescape(url)) ELSE Wrapped(url)
       /\ url # <<>> /\ (\A i \in DOMAIN url : url[i] \notin {"%", "+"}) => read = Direct(url)
       /\ ResolveDDGRedirect(Direct(url)) = Direct(url)
=============================================================================
