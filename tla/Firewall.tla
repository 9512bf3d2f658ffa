------------------------------ MODULE Firewall ------------------------------
(***************************************************************************)
(* firewall/firewall.go with its handlers and the page that calls them.    *)
(* The rules belong to ufw, which numbers them anew after every change;    *)
(* the page shows a numbered list it got earlier and sends a number back.  *)
(* Each call is one ufw command; the requests of several pages, several of *)
(* one page, and the operator's own ufw commands interleave, and replies   *)
(* overtake each other.                                                    *)
(*                                                                         *)
(* External, from how the code uses it: ufw lists the IPv4 rules before    *)
(* the IPv6 ones, a port is allowed for both, a subnet for IPv4 only, and  *)
(* a rule that is already there is skipped.                                *)
(***************************************************************************)
EXTENDS Naturals, SequencesExt

CONSTANTS
    Pages,       \* open firewall pages
    Requests,    \* bound on the requests under way at once
    Ports,       \* specs for both families
    Subnets,     \* specs for IPv4 only
    MaxNumber,   \* the largest number DeleteRule takes (9999)
    NoRule, NoPage, NoRequest

Specs == Ports \cup Subnets
Rules == {"v4", "v6"} \X Specs

ASSUME FirewallAssumption ==
    /\ NoPage \notin Pages /\ NoRequest \notin Requests /\ NoRule \notin Rules
    /\ MaxNumber \in Nat

VARIABLES
    active,      \* ufw: enabled
    v4, v6,      \* ufw: its rules, in order
    rows,        \* [Pages -> the numbered list shown]
    button,      \* [Pages -> the button beside the status]
    req,         \* [Requests -> a request under way, or Free]
    fresh,       \* history: pages whose list ufw has not changed since
    shows        \* history: whether the list shows what its page's own requests did

fwVars == <<active, v4, v6, rows, button, req, fresh, shows>>

Labels == {"none", "enable", "disable"}
Stages == {"free", "sent", "answered"}
Ops == {"none", "load", "enable", "disable", "add", "delete"}
Shown == {"own",     \* all of it
          "old",     \* not all of it yet
          "spoilt"}  \* not all of it: a fetch failed, or a reply came late

(* rule: the rule to add, or the one whose row was clicked; rows, label: the
   reply to a load; fresh and shows: history, of the list it is about. *)
Free == [stage |-> "free", page |-> NoPage, op |-> "none", number |-> 0, rule |-> NoRule,
         rows |-> <<>>, label |-> "none", fresh |-> FALSE, shows |-> "old"]

FwInit ==
    /\ active \in BOOLEAN
    /\ v4 = <<>>
    /\ v6 = <<>>
    /\ rows = [p \in Pages |-> <<>>]
    /\ button = [p \in Pages |-> "none"]
    /\ req = [r \in Requests |-> Free]
    /\ fresh = {}
    /\ shows = [p \in Pages |-> "own"]

-----------------------------------------------------------------------------
(* ufw. *)

Tagged(family, s) == [i \in DOMAIN s |-> <<family, s[i]>>]

(* `ufw status numbered`: the number of a rule is its position. *)
Numbered == Tagged("v4", v4) \o Tagged("v6", v6)

Allowed(s, spec) == IF Contains(s, spec) THEN s ELSE Append(s, spec)

UfwAllow(spec) ==
    /\ v4' = Allowed(v4, spec)
    /\ v6' = IF spec \in Ports THEN Allowed(v6, spec) ELSE v6
    /\ UNCHANGED active

UfwDelete(n) ==
    /\ n \in DOMAIN Numbered
    /\ IF n <= Len(v4) THEN v4' = RemoveAt(v4, n) /\ v6' = v6
                       ELSE v6' = RemoveAt(v6, n - Len(v4)) /\ v4' = v4
    /\ UNCHANGED active

UfwSet(enabled) == active' = enabled /\ UNCHANGED <<v4, v6>>

UfwChanges == v4' # v4 \/ v6' # v6 \/ active' # active

-----------------------------------------------------------------------------
(* The page. *)

(* loadFirewall: the status is replaced at once, the rows stay until the reply
   is there. *)
Ask(r, p) ==
    /\ req' = [req EXCEPT ![r] = [Free EXCEPT !.stage = "sent", !.page = p, !.op = "load"]]
    /\ button' = [button EXCEPT ![p] = "none"]

LoadFirewall(p, r) ==
    /\ req[r] = Free
    /\ Ask(r, p)
    /\ UNCHANGED <<active, v4, v6, rows, fresh, shows>>

Send(p, r, op, n, rule, isFresh) ==
    /\ req[r] = Free
    /\ req' = [req EXCEPT ![r] = [Free EXCEPT !.stage = "sent", !.page = p, !.op = op,
                                             !.number = n, !.rule = rule, !.fresh = isFresh]]
    /\ UNCHANGED <<active, v4, v6, rows, button, fresh, shows>>

(* fwToggle sends the state the button names, not "the other one". *)
ClickToggle(p, r) == button[p] # "none" /\ Send(p, r, button[p], 0, NoRule, FALSE)

ClickAdd(p, r) == \E spec \in Specs : Send(p, r, "add", 0, <<"v4", spec>>, FALSE)

(* Mutant: the place of the row from 0 is sent. *)
ClickDeleteIndex(p, r) ==
    \E n \in DOMAIN rows[p] : Send(p, r, "delete", n - 1, rows[p][n], p \in fresh)

(* fwDeleteRule sends the number of the row and nothing else. *)
ClickDelete(p, r) ==
    \E n \in DOMAIN rows[p] : Send(p, r, "delete", n, rows[p][n], p \in fresh)

(* Mutant: the list is not loaded again. *)
ReceiveChangeOnly(r) ==
    /\ req[r].stage = "answered"
    /\ req[r].op # "load"
    /\ req' = [req EXCEPT ![r] = Free]
    /\ UNCHANGED <<active, v4, v6, rows, button, fresh, shows>>

(* The reply to a change: success or error, the list is loaded again. *)
ReceiveChange(r) ==
    /\ req[r].stage = "answered"
    /\ req[r].op # "load"
    /\ Ask(r, req[r].page)
    /\ UNCHANGED <<active, v4, v6, rows, fresh, shows>>

Mark(set, p, yes) == IF yes THEN set \cup {p} ELSE set \ {p}

(* Request r of page p is over: an older reply still under way is late. *)
LoadOver(p, r) ==
    LET late(q) == /\ req[q].page = p /\ req[q].op = "load"
                   /\ req[q].stage = "answered" /\ req[q].shows = "old"
    IN req' = [q \in Requests |->
                  IF q = r THEN Free
                  ELSE IF late(q) THEN [req[q] EXCEPT !.shows = "spoilt"] ELSE req[q]]

(* Replies to one page may come in another order than they were made. *)
ReceiveLoad(r) ==
    LET p == req[r].page IN
    /\ req[r].stage = "answered"
    /\ req[r].op = "load"
    /\ rows' = [rows EXCEPT ![p] = req[r].rows]
    /\ button' = [button EXCEPT ![p] = req[r].label]
    /\ fresh' = Mark(fresh, p, req[r].fresh)
    /\ shows' = [shows EXCEPT ![p] = req[r].shows]
    /\ LoadOver(p, r)
    /\ UNCHANGED <<active, v4, v6>>

(* A fetch fails.  A load leaves an error in place of the status, and the rows
   stay; a change is not followed by a load. *)
Lost(r) ==
    LET p == req[r].page IN
    /\ req[r].stage \in {"sent", "answered"}
    /\ LoadOver(p, r)
    /\ shows' = [shows EXCEPT ![p] = IF @ = "own" THEN "own" ELSE "spoilt"]
    /\ UNCHANGED <<active, v4, v6, rows, button, fresh>>

-----------------------------------------------------------------------------
(* The handlers and firewall.go. *)

(* Get.  A command that failed reads as inactive and without rules, and so
   does an inactive ufw, which lists none. *)
Get(r) ==
    /\ req[r].stage = "sent"
    /\ req[r].op = "load"
    /\ \/ req' = [req EXCEPT ![r].stage = "answered", ![r].rows = IF active THEN Numbered ELSE <<>>,
                             ![r].label = IF active THEN "disable" ELSE "enable",
                             ![r].fresh = active, ![r].shows = "own"]
       \/ \E label \in {"enable", "none"} :  \* the command failed; no ufw to be found
             req' = [req EXCEPT ![r].stage = "answered", ![r].label = label, ![r].shows = "spoilt"]
    /\ UNCHANGED <<active, v4, v6, rows, button, fresh, shows>>

Answered(r) == [Free EXCEPT !.stage = "answered", !.page = req[r].page, !.op = req[r].op]

(* Request r of a page, or nobody's, was carried out: what was listed before
   is old if it changed ufw. *)
Carried(r, page) ==
    LET after(q) == IF q = r THEN Answered(q) ELSE req[q]
        old(q) == IF after(q).page = page THEN "old" ELSE after(q).shows
    IN IF UfwChanges
       THEN /\ fresh' = {}
            /\ shows' = [p \in Pages |-> IF p = page THEN "old" ELSE shows[p]]
            /\ req' = [q \in Requests |-> [after(q) EXCEPT !.fresh = FALSE, !.shows = old(q)]]
       ELSE req' = [q \in Requests |-> after(q)] /\ UNCHANGED <<fresh, shows>>

SetEnabled(r) ==
    /\ req[r].stage = "sent"
    /\ req[r].op \in {"enable", "disable"}
    /\ UfwSet(req[r].op = "enable")
    /\ Carried(r, req[r].page)
    /\ UNCHANGED <<rows, button>>

AddRule(r) ==
    /\ req[r].stage = "sent"
    /\ req[r].op = "add"
    /\ UfwAllow(req[r].rule[2])
    /\ Carried(r, req[r].page)
    /\ UNCHANGED <<rows, button>>

(* Mutant: the number is taken for an index that counts from 0. *)
DeleteRuleFromZero(r) ==
    /\ req[r].stage = "sent"
    /\ req[r].op = "delete"
    /\ req[r].number <= MaxNumber
    /\ UfwDelete(req[r].number + 1)
    /\ Carried(r, req[r].page)
    /\ UNCHANGED <<rows, button>>

DeleteRule(r) ==
    /\ req[r].stage = "sent"
    /\ req[r].op = "delete"
    /\ req[r].number <= MaxNumber
    /\ UfwDelete(req[r].number)
    /\ Carried(r, req[r].page)
    /\ UNCHANGED <<rows, button>>

(* The command failed or was killed before it did anything, ufw has no rule of
   that number, or the number is refused.  (An error after the effect is the
   actions above: the page does the same with either reply.) *)
NoEffect(r) ==
    /\ req[r].stage = "sent"
    /\ req[r].op # "load"
    /\ req' = [req EXCEPT ![r] = Answered(r)]
    /\ UNCHANGED <<active, v4, v6, rows, button, fresh, shows>>

(* ufw on the operator's own terminal. *)
OperatorUfw ==
    /\ \/ \E spec \in Specs : UfwAllow(spec)
       \/ \E n \in DOMAIN Numbered : UfwDelete(n)
       \/ \E enabled \in BOOLEAN : UfwSet(enabled)
    /\ UfwChanges
    /\ Carried(NoRequest, NoPage)
    /\ UNCHANGED <<rows, button>>

-----------------------------------------------------------------------------
FwNext ==
    \/ \E p \in Pages, r \in Requests :
          LoadFirewall(p, r) \/ ClickToggle(p, r) \/ ClickAdd(p, r) \/ ClickDelete(p, r)
    \/ \E r \in Requests :
          \/ Get(r) \/ SetEnabled(r) \/ AddRule(r) \/ DeleteRule(r) \/ NoEffect(r)
          \/ ReceiveChange(r) \/ ReceiveLoad(r) \/ Lost(r)
    \/ OperatorUfw

FwSpec == FwInit /\ [][FwNext]_fwVars

-----------------------------------------------------------------------------
(* The shapes of ufw's rules, of a page and of a request. *)
FwTypeOK ==
    /\ active \in BOOLEAN
    /\ v4 \in Seq(Specs) /\ v6 \in Seq(Specs)
    /\ rows \in [Pages -> Seq(Rules)]
    /\ button \in [Pages -> Labels]
    /\ fresh \subseteq Pages
    /\ shows \in [Pages -> Shown]
    /\ req \in [Requests -> [stage : Stages, page : Pages \cup {NoPage}, op : Ops, number : Nat,
                            rule : Rules \cup {NoRule}, rows : Seq(Rules), label : Labels,
                            fresh : BOOLEAN, shows : Shown]]

(* As long as ufw is not changed, a list that was got from it, and a row
   clicked in such a list, agree with it. *)
FwFreshAgrees ==
    /\ \A p \in fresh : rows[p] = Numbered
    /\ \A r \in Requests : req[r].fresh =>
          /\ req[r].op = "load" => req[r].rows = Numbered
          /\ req[r].op = "delete" /\ req[r].stage = "sent" =>
                req[r].number \in DOMAIN Numbered /\ Numbered[req[r].number] = req[r].rule

(* A request under way is some page's, and one that names a rule names one of
   ufw's. *)
FwRequests ==
    \A r \in Requests :
        /\ req[r].stage # "free" => req[r].page \in Pages
        /\ req[r].stage = "sent" /\ req[r].op \in {"add", "delete"} => req[r].rule \in Rules

(* Any request but the answered load of an old list leads to a load, or to a
   failure that spoils the list. *)
Renews(r) == ~(req[r].op = "load" /\ req[r].stage = "answered" /\ req[r].shows = "old")

(* Nothing of a page is old, on the screen or in a reply under way, unless a
   request of the page is still to put it right. *)
FwRenewal ==
    \A p \in Pages :
        shows[p] = "old" \/ (\E r \in Requests : req[r].page = p /\ ~Renews(r)) =>
            \E r \in Requests : req[r].page = p /\ Renews(r)

FwInv == FwTypeOK /\ FwRequests /\ FwFreshAgrees /\ FwRenewal

(* The rule that goes is the one whose button was clicked, of the same family,
   and the others keep their order, provided that nothing changed ufw between
   the list the page shows and the command (DeleteRule, fwDeleteRule). *)
UnracedDeleteExact ==
    [][\A r \in Requests :
          DeleteRule(r) /\ req[r].fresh =>
              /\ Numbered[req[r].number] = req[r].rule
              /\ Numbered' = RemoveAt(Numbered, req[r].number)]_fwVars

(* A page with nothing under way shows all that its own requests did to ufw,
   also those answered with an error, unless a fetch failed or an older reply
   overtook the newer one (fwToggle, fwAddRule, fwDeleteRule, loadFirewall). *)
QuietPageShowsOwn ==
    \A p \in Pages :
        (\A r \in Requests : req[r].page # p) => shows[p] # "old"
=============================================================================
