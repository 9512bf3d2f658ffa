------------------------- MODULE AdminActions_proofs -------------------------
(***************************************************************************)
(* Proofs about AdminActions for any set of requests, and about Crontab    *)
(* for any number of clients, any job lines and tables of any length: what *)
(* a request has done and logged at each stage of its handler, and what a  *)
(* change of the crontab does to the table when nobody replaces it behind  *)
(* the request's back.  What holds of each group of handlers holds of      *)
(* Handlers, too.                                                          *)
(***************************************************************************)
EXTENDS Handlers, TLAPS

LEMMA InitIInv == Init => IInv
BY DEF Init, IInv, TypeOK, Progress, Accounted, RealTimeOrder, EnteredOnce, Logged, Tried,
       Stages, Families, LogsFirst, Replies

(* What an append does to the set of logged requests. *)
LEMMA AppendLogged ==
    ASSUME entries \in Seq(Requests), NEW r \in Requests, entries' = Append(entries, r)
    PROVE  /\ Logged' = Logged \cup {r}
           /\ Len(entries') = Len(entries) + 1
           /\ entries'[Len(entries) + 1] = r
           /\ \A i \in DOMAIN entries : entries'[i] = entries[i]
           /\ DOMAIN entries' = DOMAIN entries \cup {Len(entries) + 1}
<1>1. /\ Len(entries') = Len(entries) + 1
      /\ entries'[Len(entries) + 1] = r
      /\ \A i \in DOMAIN entries : entries'[i] = entries[i]
      /\ DOMAIN entries' = DOMAIN entries \cup {Len(entries) + 1}
  OBVIOUS
<1>2. Logged' = Logged \cup {r}
  BY <1>1 DEF Logged
<1> QED
  BY <1>1, <1>2

LEMMA NextIInv == IInv /\ [Next]_vars => IInv'
<1> SUFFICES ASSUME IInv, [Next]_vars PROVE IInv'
  OBVIOUS
<1> USE DEF IInv, TypeOK, Progress, Accounted, RealTimeOrder, EnteredOnce, Tried, Stages,
            Families, LogsFirst, Replies
<1>1. ASSUME NEW r \in Requests, Arrive(r) PROVE IInv'
  <2>1. Logged' = Logged
    BY <1>1 DEF Arrive, Logged
  <2>2. pc[r] = "new" /\ r \notin Logged /\ r \notin lost
    BY <1>1 DEF Arrive, Go
  <2>3. TypeOK' /\ Progress' /\ Accounted' /\ EnteredOnce'
    BY <1>1, <2>1, <2>2 DEF Arrive, Go
  <2>4. RealTimeOrder'
    BY <1>1, <2>2 DEF Arrive, Go, Logged
  <2>5. (\A q \in Requests : \A p \in before[q] : reply[p] = "success")'
    BY <1>1 DEF Arrive, Go
  <2> QED
    BY <2>3, <2>4, <2>5
<1>2. ASSUME NEW r \in Requests, Reject(r) PROVE IInv'
  BY <1>2 DEF Reject, Go, Logged
<1>3. ASSUME NEW r \in Requests, Accept(r) PROVE IInv'
  BY <1>3 DEF Accept, Go, Logged
<1>4. ASSUME NEW r \in Requests, LogEntry(r) PROVE IInv'
  <2>1. entries' = Append(entries, r)
    BY <1>4 DEF LogEntry
  <2>2. /\ Logged' = Logged \cup {r}
        /\ Len(entries') = Len(entries) + 1
        /\ entries'[Len(entries) + 1] = r
        /\ \A i \in DOMAIN entries : entries'[i] = entries[i]
        /\ DOMAIN entries' = DOMAIN entries \cup {Len(entries) + 1}
    BY <2>1, AppendLogged
  <2>3. pc[r] = "log" /\ r \notin Logged /\ reply[r] # "success"
    BY <1>4 DEF LogEntry, Go
  <2>4. TypeOK'
    BY <1>4, <2>1 DEF LogEntry, Go, AfterLog
  <2>5. Progress' /\ Accounted'
    BY <1>4, <2>2 DEF LogEntry, Go, AfterLog
  <2>6. EnteredOnce'
    BY <2>2, <2>3 DEF Logged
  <2>7. RealTimeOrder'
    \* the new entry is last, and nobody arrived after it was answered
    BY <1>4, <2>2, <2>3 DEF LogEntry
  <2>8. (\A q \in Requests : \A p \in before[q] : reply[p] = "success")'
    BY <1>4 DEF LogEntry
  <2> QED
    BY <2>4, <2>5, <2>6, <2>7, <2>8
<1>5. ASSUME NEW r \in Requests, LogLost(r) PROVE IInv'
  BY <1>5 DEF LogLost, Go, AfterLog, Logged
<1>6. ASSUME NEW r \in Requests, RunSucceeds(r) PROVE IInv'
  BY <1>6 DEF RunSucceeds, Go, AfterRun, Logged
<1>7. ASSUME NEW r \in Requests, RunFails(r) PROVE IInv'
  BY <1>7 DEF RunFails, Go, Logged
<1>8. ASSUME NEW r \in Requests, Reply(r) PROVE IInv'
  BY <1>8 DEF Reply, Go, Logged
<1>9. ASSUME NEW r \in Requests, ToolFails(r) PROVE IInv'
  BY <1>9 DEF ToolFails, Go, Logged
<1>10. ASSUME NEW r \in Requests, ToolUnsupported(r) PROVE IInv'
  BY <1>10 DEF ToolUnsupported, Go, Logged
<1>11. CASE Crash
  BY <1>11 DEF Crash, Logged
<1>12. CASE UNCHANGED vars
  BY <1>12 DEF vars, Logged
<1> QED
  BY <1>1, <1>2, <1>3, <1>4, <1>5, <1>6, <1>7, <1>8, <1>9, <1>10, <1>11, <1>12 DEF Next

(* The invariant of the handlers: at each stage, whether a request has had its
   effect and its entry (httpserver/handlers_*.go, audit.Log). *)
THEOREM ActionsInvariant == Spec => []IInv
<1>1. Init => IInv
  BY InitIInv
<1>2. IInv /\ [Next]_vars => IInv'
  BY NextIInv
<1> QED
  BY <1>1, <1>2, PTL DEF Spec

(* What the log accounts for, and what a "success" means, in each family of
   handlers (httpserver/handlers_*.go, audit.Log). *)
THEOREM ActionsAccounted == Spec => []Accounted
<1>1. IInv => Accounted
  BY DEF IInv
<1> QED
  BY <1>1, ActionsInvariant, PTL

(* The order of the log is the order the operator saw (audit.Log). *)
THEOREM LogKeepsOrder == Spec => []RealTimeOrder
<1>1. IInv => RealTimeOrder
  BY DEF IInv
<1> QED
  BY <1>1, ActionsInvariant, PTL

-----------------------------------------------------------------------------
(* Crontab. *)

(* Taking an entry out of a sequence leaves a sequence over the same set. *)
LEMMA RemoveAtType ==
    ASSUME NEW S, NEW s \in Seq(S), NEW i \in DOMAIN s
    PROVE  RemoveAt(s, i) \in Seq(S)
BY DEF RemoveAt

LEMMA EmptyJobs == ASSUME NEW S PROVE <<>> \in Seq(S)
OBVIOUS

LEMMA InitCtInv == CtInit => CtInv
BY CrontabAssumption
   DEF CtInit, CtInv, CtTypeOK, Prepared, FreshAgrees, CtStages, Ops

LEMMA NextCtInv == CtInv /\ [CtNext]_ctVars => CtInv'
<1> SUFFICES ASSUME CtInv, [CtNext]_ctVars PROVE CtInv'
  OBVIOUS
<1> USE CrontabAssumption DEF CtInv, CtTypeOK, Prepared, FreshAgrees, CtStages, Ops
<1>1. ASSUME NEW c \in Clients, Load(c) PROVE CtInv'
  <2>1. PICK result \in Seq(Lines) :
           /\ view' = [view EXCEPT ![c] = result]
           /\ viewFresh' = Mark(viewFresh, c, result = jobs)
    BY <1>1, EmptyJobs DEF Load, ListResults
  <2>2. UNCHANGED <<jobs, notes, stage, op, line, index, existing, aimFresh, listFresh>>
    BY <1>1 DEF Load, request
  <2>3. CtTypeOK'
    BY <2>1, <2>2 DEF Mark
  <2>4. Prepared'
    BY <2>2
  <2>5. FreshAgrees'
    BY <2>1, <2>2 DEF Mark
  <2> QED
    BY <2>3, <2>4, <2>5
<1>2. ASSUME NEW c \in Clients, BeginAdd(c) PROVE CtInv'
  BY <1>2 DEF BeginAdd, Begin, Mark
<1>3. ASSUME NEW c \in Clients, BeginRemove(c) PROVE CtInv'
  BY <1>3 DEF BeginRemove, Begin, Mark
<1>4. ASSUME NEW c \in Clients, ListJobs(c) PROVE CtInv'
  <2>1. PICK result \in Seq(Lines) :
           /\ op[c] = "remove" => index[c] \in DOMAIN result
           /\ existing' = [existing EXCEPT ![c] = result]
           /\ listFresh' = Mark(listFresh, c, result = jobs)
    BY <1>4, EmptyJobs DEF ListJobs, ListResults, Found
  <2>2. /\ stage[c] = "list"
        /\ stage' = [stage EXCEPT ![c] = "install"]
        /\ UNCHANGED <<jobs, notes, view, viewFresh, op, line, index, aimFresh>>
    BY <1>4 DEF ListJobs
  <2>3. CtTypeOK'
    BY <2>1, <2>2 DEF Mark
  <2>4. Prepared'
    BY <2>1, <2>2
  <2>5. FreshAgrees'
    BY <2>1, <2>2 DEF Mark
  <2> QED
    BY <2>3, <2>4, <2>5
<1>5. ASSUME NEW c \in Clients, NotFound(c) PROVE CtInv'
  BY <1>5 DEF NotFound, CtReply
<1>6. ASSUME NEW c \in Clients, Install(c) PROVE CtInv'
  <2>1. jobs' \in Seq(Lines) /\ notes' \in BOOLEAN
    <3>1. NewTable(c) \in Seq(Lines)
      BY <1>6, RemoveAtType DEF Install, NewTable
    <3> QED
      BY <1>6, <3>1 DEF Install, Replace
  <2>2. viewFresh' = {} /\ aimFresh' = {} /\ listFresh' = {}
    BY <1>6 DEF Install, Replace
  <2>3. CtReply(c) /\ UNCHANGED view
    BY <1>6 DEF Install
  <2>4. CtTypeOK'
    BY <2>1, <2>2, <2>3, EmptyJobs DEF CtReply
  <2>5. Prepared'
    BY <2>3 DEF CtReply
  <2>6. FreshAgrees'
    BY <2>2
  <2> QED
    BY <2>4, <2>5, <2>6
<1>7. ASSUME NEW c \in Clients, InstallFails(c) PROVE CtInv'
  BY <1>7 DEF InstallFails, CtReply
<1>8. CASE CrontabE
  <2>1. jobs' \in Seq(Lines)
    <3>1. ASSUME NEW l \in Lines, jobs' = Append(jobs, l) PROVE jobs' \in Seq(Lines)
      BY <3>1
    <3>2. ASSUME NEW i \in DOMAIN jobs, jobs' = RemoveAt(jobs, i)
          PROVE  jobs' \in Seq(Lines)
      BY <3>2, RemoveAtType
    <3>3. \/ \E l \in Lines : jobs' = Append(jobs, l)
          \/ \E i \in DOMAIN jobs : jobs' = RemoveAt(jobs, i)
          \/ jobs' = jobs
      BY <1>8 DEF CrontabE, Replace
    <3> QED
      BY <3>1, <3>2, <3>3
  <2>2. notes' \in BOOLEAN
    <3>1. notes' = notes \/ notes' = ~notes
      BY <1>8 DEF CrontabE, Replace
    <3> QED
      BY <3>1
  <2>3. /\ viewFresh' = {} /\ aimFresh' = {} /\ listFresh' = {}
        /\ UNCHANGED <<view, stage, op, line, index, existing>>
    BY <1>8 DEF CrontabE, Replace
  <2>4. CtTypeOK'
    BY <2>1, <2>2, <2>3
  <2>5. Prepared'
    BY <2>3
  <2>6. FreshAgrees'
    BY <2>3
  <2> QED
    BY <2>4, <2>5, <2>6
<1>9. CASE UNCHANGED ctVars
  BY <1>9 DEF ctVars, request
<1> QED
  BY <1>1, <1>2, <1>3, <1>4, <1>5, <1>6, <1>7, <1>8, <1>9 DEF CtNext

(* A page, a click and a list agree with the table until somebody replaces it
   (cron.List, cron.Add, cron.RemoveAt, loadCron, cronRemove). *)
THEOREM CrontabInvariant == CrontabSpec => []CtInv
<1>1. CtInit => CtInv
  BY InitCtInv
<1>2. CtInv /\ [CtNext]_ctVars => CtInv'
  BY NextCtInv
<1> QED
  BY <1>1, <1>2, PTL DEF CrontabSpec

(* cron.Add appends, whatever the other clients and the operator do, as long
   as none of them replaces the table between its List and its `crontab -`. *)
THEOREM AddIsExact == CrontabSpec => UnracedAddAppends
<1> DEFINE Step == \A c \in Clients :
                      Installing(c, "add") /\ c \in listFresh => jobs' = Append(jobs, line[c])
<1>1. CtInv => Step
  BY DEF CtInv, FreshAgrees, Installing, Install, Replace, NewTable
<1> HIDE DEF Step
<1>2. CrontabSpec => [][Step]_ctVars
  BY <1>1, CrontabInvariant, PTL DEF CrontabSpec
<1> QED
  BY <1>2 DEF UnracedAddAppends, Step

(* cron.RemoveAt deletes the job whose button was clicked, as long as nobody
   replaces the table between the page's list and its `crontab -`. *)
THEOREM RemoveIsExact == CrontabSpec => UnracedRemoveExact
<1> DEFINE Step == \A c \in Clients :
                      Installing(c, "remove") /\ c \in listFresh /\ c \in aimFresh =>
                          /\ jobs[index[c]] = line[c]
                          /\ jobs' = RemoveAt(jobs, index[c])
<1>1. CtInv => Step
  BY DEF CtInv, FreshAgrees, Installing, Install, Replace, NewTable
<1> HIDE DEF Step
<1>2. CrontabSpec => [][Step]_ctVars
  BY <1>1, CrontabInvariant, PTL DEF CrontabSpec
<1> QED
  BY <1>2 DEF UnracedRemoveExact, Step

-----------------------------------------------------------------------------
(* Handlers. *)

(* A behaviour of Handlers is one of each of its groups, so that what is proved
   of the admin actions, of the crontab and of the news cache holds of it. *)
THEOREM HandlersFollowGroups == HandlersSpec => Spec /\ CrontabSpec /\ NewsSpec
<1>1. HandlersInit => Init /\ CtInit /\ NwInit
  BY DEF HandlersInit
<1>2. [HandlersNext]_handlersVars => [Next]_vars
  BY DEF HandlersNext, handlersVars
<1>3. [HandlersNext]_handlersVars => [CtNext]_ctVars
  BY DEF HandlersNext, handlersVars
<1>4. [HandlersNext]_handlersVars => [NwNext]_nwVars
  BY DEF HandlersNext, handlersVars
<1> QED
  BY <1>1, <1>2, <1>3, <1>4, PTL DEF HandlersSpec, Spec, CrontabSpec, NewsSpec
=============================================================================
