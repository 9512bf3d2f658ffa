------------------------------ MODULE Handlers ------------------------------
(***************************************************************************)
(* Three groups of handlers that share no state with each other: those     *)
(* that change the machine and log it, those of the crontab, and the news. *)
(* A behaviour follows one of them (a bound: with nothing shared, an       *)
(* interleaving of two shows nothing that the two do not show apart).      *)
(***************************************************************************)
EXTENDS AdminActions, Crontab, NewsCache

VARIABLE group   \* the group the behaviour follows

handlersVars == <<group, vars, ctVars, nwVars>>

HandlersInit ==
    /\ group \in {"actions", "crontab", "news"}
    /\ Init /\ CtInit /\ NwInit
    /\ group # "actions" => \A r \in Requests : family[r] = "change"
    /\ group # "crontab" => ~notes

HandlersNext ==
    /\ UNCHANGED group
    /\ \/ group = "actions" /\ Next /\ UNCHANGED <<ctVars, nwVars>>
       \/ group = "crontab" /\ CtNext /\ UNCHANGED <<vars, nwVars>>
       \/ group = "news" /\ NwNext /\ UNCHANGED <<vars, ctVars>>

HandlersSpec == HandlersInit /\ [][HandlersNext]_handlersVars
=============================================================================
