# HackerOS Cockpit: TLA+ models, checks and proofs

This directory holds TLA+ specifications of HackerOS Cockpit v0.3 (the Go
program under `src/`), the TLC configurations that check them on small
instances, and theorems about them checked by TLAPS. Paths below are relative
to the repository; `…/` stands for `src/source-code/`.

## How to run

    tlc -config MCSessions.cfg MCSessions.tla      # any MC*.cfg with its module
    tlapm Sessions_proofs.tla                      # any *_proofs.tla

`PROJECT.json` lists the runs, what each mutant breaks, which lines each
definition models, the hazards, the findings and the theorems.

## The system

One Go process serves a web panel with full administrative power over its
host. It keeps very little state of its own; most handlers run a command and
parse its output. Handlers run concurrently, one goroutine per connection, and
a request's context ends when its client goes away.

| Part | State | Operations | Used by |
|---|---|---|---|
| Sessions, `…/auth/session.go` | map token → expiry under a mutex; a janitor goroutine | `Create`, `Username`, `Destroy`, sweep every 10 minutes | login, logout, `requireAuthAPI`, `requireAuthPage` |
| Login throttle, `…/httpserver/handlers_auth.go` | global map `RemoteAddr` → times, with no lock | filter, refuse or record, at the head of login | login |
| Credential store, `…/auth/store.go` | one password hash in memory (RWMutex) and in `auth.json` | `NewStore`, `Verify`, `SetPassword`, `persist` | start-up, login, password change |
| Crontab editor, `…/cron/cron.go` | none: `crontab -l` and `crontab -` | `List`, `Add`, `RemoveAt` | cron handlers, the cron page |
| Audit log, `…/audit/audit.go` | `audit.log`, appended under a mutex | `Log`, `Tail` | every handler that changes something |
| Administrative handlers, `…/httpserver/handlers_*.go` | none | terminal, pentest, services, packages, containers, firewall, cron, password | the pages |
| News cache, `…/news/news.go` | map key → articles and time, under a mutex | `Get`: look up, fetch outside the lock, store | news handlers |
| Terminal and SSE, `…/terminal`, `…/sse` | a child process and a pipe per request | `Run`, `Stream`, `Send` | terminal handlers, dashboard stream |
| Shutdown, `src/main.go` | listener and open connections | signal, `Shutdown` with ten seconds | main |
| Fan-out collectors, `…/system`, `…/services`, `…/diagnostics` | one goroutine and one channel slot per command | `Collect`, `AllStatus`, `Run` | dashboard, services, diagnostics |
| Firewall editor, `…/firewall` | none: ufw's numbered rules | `Get`, `SetEnabled`, `AddRule`, `DeleteRule` | firewall handlers |
| Files, `…/files` | none: the file system | `List`, `ReadPreview` | file handlers |
| Settings, `…/config` | read once | `Load` from the environment | main |
| Logs, search | none | allow-list and fallback, pairing of results | their handlers |
| Command wrappers: docker, apt, users, network, pentest | none | one command each, its output read into rows | their handlers |
| Front end, `src/web/templates` | the DOM: lists, breadcrumb, preview | fetch, then render what came | the browser |

### How the parts interact

- Login passes the throttle, then `Store.Verify`, then `SessionManager.Create`.
  Each has its own state and none holds anything while it calls the next. What
  can go wrong between the second and the third, while the password changes, is
  in `Login`, which composes the logins with `CredentialStore`. The other
  models are separate and joined at these points: `Sessions` lets a
  login succeed or fail at will after the throttle, `LoginThrottle` ends where
  the credential check begins, and a process end in `CredentialStore` or a
  fatal map race in `LoginThrottle` is the `Restart` of `Sessions`.
- Every protected handler runs behind `sm.Username` and outside its lock: a
  request may still be running when its session is closed.
- The administrative handlers share the machine and the audit log, and nothing
  else: two of them never exclude each other.
- The pages show what a handler returned some time ago and send positions
  (a crontab index, a ufw rule number) computed from it. Each click is a request
  of its own, so that the replies to two clicks may overtake each other.

### What is hard here, and what makes each part correct

- **Sessions.** Token and expiry are computed before the lock, the janitor reads
  the clock before the lock, logout is two critical sections. Correct: a
  session opens once, is usable until its deadline, its logout or a restart
  whichever is first, and the sweep is invisible to clients.
- **Throttle.** An unsynchronised map, rebuilt by every attempt. Correct: at
  most five recorded attempts in any minute; refused attempts do not count.
- **Store.** Memory is changed before the file, and the file is truncated before
  it is filled; the process may end anywhere. Correct: an acknowledged password
  is the one the next start reads, and the program never starts with an empty
  one.
- **Login.** The password is checked under the lock and the session opened after
  it. Correct: a password that a completed change replaced never opens a
  session for a login that began afterwards, the stored one is never refused,
  and every login is answered.
- **Firewall editor.** ufw renumbers after every deletion and lists two families
  in one numbering; a page changes and reloads in two requests. Correct: a
  deletion nobody overtakes deletes the row that was clicked, and a page at rest
  shows what it did.
- **Files.** The preview is named before and filled after its request; the size is
  taken before the bytes. Correct: rows belong to the breadcrumb, contents to the
  name, and the notice about the cut is true.
- **Readers.** Outputs are trimmed, split and joined by position or name. Correct:
  what was printed comes back, no column shifts, and it is known where it does not.
- **Crontab.** Read, modify and write by two processes with nothing held; the
  index comes from an older list. Correct: an addition appends, a deletion
  deletes what was clicked.
- **Administrative actions.** A command can change the machine and then fail, be
  killed or outlive the panel; the pentest page reports success in any case.
  Correct: what the log says matches what was done, in the order the operator saw.
- **News.** Concurrent misses store over each other; failures are cached.
  Correct: age and gaps of a page are bounded.
- **Terminal, streams, shutdown.** Deadlines kill `bash` but not its children,
  which may keep the pipe open; `Shutdown` waits for streams it does not cancel.
  Correct: no output is lost, every request that nothing outside the panel holds
  ends, and the shutdown always does.
- **Collectors.** Goroutines write to a channel that must not block when the
  client is gone. Correct: each command contributes exactly once, nothing leaks.

## The modules

`X.tla` is the component, `MCX.tla` its small instance, `X_proofs.tla` its
theorems. Mutated forms of a definition (comment "Mutant: …") stand right
before it; nothing refers to them.

### Sessions, SessionContract

`SessionContract` is the promise: `deadline[t]` is the last instant a token is
usable, and each connection has at most one request, with its `stage` and the
session (`token`) it presents. `Present` begins it, `LetIn` needs a usable session and
`TurnAway` one that is not, `Enter` and `Open` are a login, which opens each session
once with a deadline fixed when it was granted (`until`). Only three steps take a
session away: `Close`, which takes the one that this logout presents and no other,
`Tick` past its deadline, and `Reset`. There is no map, lock or janitor in it.

`Sessions` is the code with authentication enabled. A step is one critical
section of `sm.mu` or the code between two: `Arrive`, `Admit`/`Refuse`
(`Username` behind the guards), `Finish`; `LoginDraw` (token and expiry, before
the lock) and `LoginInsert` (under it), `LoginFail`; `LogoutLookup` (`Username`, for
the actor of the audit entry, kept in `named`) and `LogoutDestroy` (`Destroy`);
`JanitorWake` (the clock) and `JanitorSweep` (the lock); `Tick`; `Restart`.
Cookies are tokens that were once handed out, or none: a guessed cookie is
`NoToken`. `newToken` never repeats a value or one in flight: it draws 32
random bytes.

Refinement mapping: `deadline[t]` is the expiry in the map while the clock has
not passed it, and `Absent` otherwise; `RequestStage`, `Presented` and `Entered` are
the request of a connection without the stages the contract does not know (a logout
is "leaving" before and after its lookup, which is a stutter). A session that is in
the map only because the janitor has not come round is already gone for the contract,
so a sweep is a stutter, and a sweep that took away even one session somebody can
still use is no step of the contract.

### LoginThrottle

The head of `handleAuthLogin`. A key is `r.RemoteAddr`, that is `host:port`: one
per connection, and HTTP/1.1 runs the requests of a connection one by one
(without TLS, net/http serves no HTTP/2). So two handlers that touch the map at
once have different keys, but they still race on the map. The race has two
further outcomes in the model: the runtime notices it and ends the process
(`FatalRace`), or one store is lost (`StoreLost`). `passed` is a history
variable: the attempts that were put on record and reached the credential check.
An attempt whose store was lost went unrecorded: that is undefined behaviour,
and the properties speak of recorded attempts. `phase` is the stage of a request,
`Younger` the loop over the recorded times, `Recent` that loop with the window.

### CredentialStore

`NewStore`, `persist`, `SetPassword`, their handler and the printing in `main`.
A password stands for its hash. `os.WriteFile` is two steps, `Truncate` and
`Write`. `Die` may come between any two steps; it is a process that ends, not a
machine that loses power: what was written stays written (the code calls no
`fsync`). `PersistFails` may leave the file as it was, torn or complete.
`UnreadableStart` is what `NewStore` does for any error of `ReadFile`, not only
"no such file": it draws a new password and overwrites the store. The model
lets the operator remove a store the program refuses (`RemoveStore`, external).

`acked` is a history variable: the password last reported as stored, until
something is entitled to replace it: a change that takes the lock, an unreadable
start, the removal. The second is a weakness of the code rather than of the
operator: the comment at `…/auth/store.go:29` speaks of "no store file exists
yet", the condition at line 36 of any read error. `AckedIsOnDisk` is stated with
that exception so that it says something about every other path.

### Login, Account

`handleAuthLogin` after the throttle, beside the changes, crashes and restarts of
`CredentialStore`, which it EXTENDS: its steps on the store are the store's own,
each with what it means for the logins under way (`Change`, `StartPersists`,
`ProcessDies`, …). `Verify` needs the lock free, as the read lock does;
`OpenSession` is `SessionManager.Create` and what follows. `valid` and `allowed`
are history variables: the passwords that may open a session now (the one last
stored, and any that a change or a start has put in memory since, stored or not),
and those that could at some instant of each login. The model does not let a change
close sessions, because the code does not.

`Account` is the promise of both: one password is in force (`held`), a change takes
effect at one instant (`Take`) and is confirmed or reported as failed later, a login
is decided at one instant (`Decide`) and never while a change may still fail, and
after a restart the password is the one last confirmed or one put in force since
(`lasting`). It has no file, no stages of a change and no start that can fail half way.
Refinement mapping: `held` is the memory of the process, `lasting` is `valid`, `taker`
the holder of the lock. The steps on the file are stutters.

### Crontab

`cron.go`, its handlers and the cron page. The table belongs to `crontab(1)`
(external): `jobs` are its job lines, `notes` says whether it has lines `List`
skips. A page shows what its last `List` returned (`view`) and its button sends
an index of that. A failed or timed-out `crontab -l` is the empty list
(`ListResults`). `Install` and `InstallFails` split `crontab -` by whether it
replaced the table, because a killed command may have. Lines `Add` rejects
change nothing and are left out. `viewFresh`, `aimFresh` and `listFresh` are
history: whose list nobody has overtaken since. Positions count from 1.

### AdminActions

Every handler that changes the machine, in three families. "terminal" (terminal and
terminal stream) writes its entry and then runs. "pentest" does so too, but answers
"success" whether its tool worked, failed, was killed or is not installed
(`ToolFails`), and "error" only for a tool it does not know (`ToolUnsupported`).
"change" (services, packages, containers, firewall, cron, password) runs and writes
its entry only when the command reported success. `RunFails`, of the other two
families, may or may not have changed the machine, as `ToolFails` may. `Logger.Log`
swallows errors (`LogLost`). After a `Crash`, a command that was running may still
finish. `before` is history: who had been answered "success" when a request arrived.

### NewsCache

`Cache.Get` for one key (the two pages share nothing but the lock). A list is how
many articles of each feed it has and when that feed was read. Feeds answer in
any order, each with any number of articles up to the limit of `fetchRSS`; none
when it fails, times out, or the client of this visit is gone. `Kept` is the cut
at `Cap`. `FeedsFit` says of the constants what the code's are: all feeds but one
leave room for an article of the last (2 feeds, 8 of each, a list of 12). The clock
does not pass the time limit of a fetch that is under way:
`fetchRSS` puts eight seconds on it (`Tick`).

### Handlers

AdminActions, Crontab and NewsCache share no state. `Handlers` puts them beside each
other; a behaviour follows one (`group`), as in `Panel` below.

### Streams

`terminal.Run` and `terminal.Stream` with their handlers, the loop of
`handleSystemStream` and the end of `main`. `pc` is the stage of a handler. A
command is `bash` and, possibly, a child it left in the background that inherits
the pipe; the pipe is at its end (`AtEnd`) when neither holds it and all is read.
`Run` reaps `bash` first and then waits for the goroutine that copies into its
buffer (`work`, `drain`, `reply`); `Stream` reads and sends line by line, and reaps
at the end of the output (`work`/`send`, `wait`, `reply`). The two closing events,
or the JSON reply, are `Reply`. `Kill` is the goroutine of os/exec that watches the
context: it kills `bash` and only `bash`. A client is `here`, `stalled` (connected,
but takes nothing, so that `Send` waits: the server has no write timeout) or
`gone` (its context is over, writes return at once). Deadlines, the ticker and the
ten seconds of `Shutdown` are events without a clock. `Exit` is the return of
`main`, which cuts off what is still under way; orphans of a cut request are no
longer followed. A listener that fails for good ends the process at once
(`log.Fatalf`, `src/main.go:49`) and is left out.

### Gather, Snapshot, Diagnostics

`system.Collect`, `services.AllStatus` and `diagnostics.Run` share one shape: a
goroutine per command, a channel with room for all, a caller that receives as often
as it has started one. `Gather` is that shape; a call is `Ask`, then for each job
`Answer` and `Send`, and for the caller `Receive` and `Return`. The machine changes
meanwhile (`Change`, external). A command may fail at any time, which covers the
error, the time limit and the client that is gone; `Failed` is what that reads as:
"N/A", or inactive. Jobs are not names: `HCKPT_SERVICES` may repeat one.

`Snapshot` is the promise: one answer for every name, each given by the machine
between the question and the reply, and no claim that they belong to one instant.
The mapping hides workers, channel and counter; `seen` is a history variable of
`Gather`.

`Diagnostics` is the report `diagnostics.Run` makes of the map. A measured value
stands for how it compares with its threshold; a job that failed reads as 0 and so
as OK, as in the code. `PingOutput` is what the ping job writes, by words.

### Firewall

`firewall.go`, its handlers and the firewall page. The rules are ufw's (external):
`v4` and `v6`, listed one after the other, an allowed port in both. A page shows
`rows` and a button; a request is one of `req`, sent by a click (`ClickAdd`,
`ClickDelete`, `ClickToggle`, `LoadFirewall`), carried out (`Get`, `AddRule`,
`DeleteRule`, `SetEnabled`, or `NoEffect` when the command failed or was refused)
and received (`ReceiveLoad`, `ReceiveChange`), or `Lost`. A change is followed by a
load of its own, which may be overtaken. History: `fresh` says that ufw was not
changed since a list was made, `shows` whether a list has what its own page did.

### Explorer, Preview

`Explorer` is `loadFiles` and `previewFile` with `files.List`: each function up to
its `await` is one step (`LoadFiles`, `ClickFile`), the rest another (`ReceiveList`,
`ReceivePreview`). The tree has two levels, and contents are stood for by the path
they were read from. `late` marks a reply that came after the one to a later click.

`Preview` is one call of `ReadPreview`: `Stat`, then `Open` and one `Read`, while
other programs change the file. A file is a sequence of bytes of four sorts, enough
to cut a character in two. `sizeless` files are those of `/proc`, whose size is 0.

### AuditFile

The file under the audit log: `Log` writes a line with one write, `LogFails` some of
it, `Rotate` is the operator who moves the file away, `SplitLines` the loop of
`splitLines` (`Scan`) and the rest after it, `Tail300` what the page gets. `Details`
are any texts; what precedes the detail on a line is one character of `Marks`.
`AdminActions` has the same log as a list of entries.

### Text, Search, Settings, Listings, Readers

`Text` is the part of Go's `strings` that the readers use, over sequences of
characters. `Search` pairs titles and snippets and unwraps links, `Settings` is
`config.go`, `Listings` has the readers of command output and of logs. Each reader is
an operator next to the printing of its input (external) and a statement that the
one undoes the other. What a command prints around a column, `1:` or `scope` or a
`---`, is one character each (`Marking`). `Glyphs` are the characters of the columns and
items themselves, `Phrases` texts of them with blanks inside only, `Words` the phrases
without a blank. `Readers` takes up one input after another; `ReInv` says of each that it
is of its kind, of any length.

Two readers do not always give back what was written, and the statements say where.
`TargetsMatch` speaks of every target: one without `%` and `+` comes out as it is, any
other decoded once more, or it stays wrapped. `InterfacesRead` speaks of every
interface: one that hangs on no other has its own addresses, and of the addresses of
one that does nothing is required; one whose link is up is up, and so may be one with
`UP` in its name. The code's comments promise the rest: `TargetsUnwrapped` and
`InterfacesWithAddresses`, which `MCReaders` shows to be violated.

### Panel

Firewall, Explorer, Preview, AuditFile and Readers share no state. `Panel` puts them
beside each other; a behaviour follows one (`part`), since an interleaving of two that
share nothing shows nothing new.

## What the runs show

| Run | Instance | Shows |
|---|---|---|
| `sessions` | 2 connections, 2 tokens, lifetime 2, clock to 4 | `IInv` (below), `ImplementsContract`, `LogoutKnowsActor`: a logout that ends a usable session knows whose it is; and `ExpiredCollected`: an expired session leaves memory |
| `login_throttle` | 2 connections, 2 attempts per window of 2, clock to 4 | `ThrottleInv` (below); `WindowBound`: no window holds more recorded attempts than allowed; `CountExact`: the list is exactly the window, so refusals do not prolong the wait |
| `login_throttle_per_ip` | both connections from one host | violation of `PerSourceIP` |
| `login` | 2 changes at once, 1 login, 3 passwords | `ImplementsAccount`: to a client, change and login are single instants; in `IInv` `AckedIsOnDisk`, `MemoryIsDisk` and that a torn store never means an empty password; `OnlyValidLogsIn`, `StoredPasswordAccepted`, `LoginAnswered`, and in `LoginInv` that no crash brings an old password back |
| `handlers` | actions: 3 requests; crontab: 2 clients, 2 different lines, tables of up to 2; news: 2 visitors, 2 feeds, 2 articles of 3, lifetime 2, limit 1, clock to 4 | `IInv`, `Accounted`, `RealTimeOrder` of the audit log; `CtInv`, `UnracedAddAppends`, `UnracedRemoveExact`: a change of the table nobody overtakes does exactly what was asked; `NewsInv` (below), `FreshPages`, `MissingMeansFailed`: a gap on a page is never older than a lifetime and a limit, and never due to the cut |
| `crontab_add_appends` | its crontab part | violation of `AddAppends` |
| `streams` | 1 terminal request of either kind, 1 dashboard, 2 lines | `OutputComplete`; `TerminalEnds`, `DashboardEnds`, `ShutdownEnds`: what must end does |
| `gather` | 3 jobs, 2 of one name, 2 answers | `NothingLeft`, `CallEnds`, `ImplementsSnapshot`, and in `IInv` that a send never finds the channel full |
| `panel` | firewall: 1 page, 2 requests, 1 port, 1 subnet, numbers to 2; explorer: 2 directories of 1 name, 2 requests; preview: cap 2, files to 3; audit: 4 entries, 2 shown; readers: below | `PanelInv` (below), `UnracedDeleteExact`, `QuietPageShowsOwn`, `RowsOfCrumb`, `PreviewUnderItsName`, `PreviewExact`, `TailIsRecent`, `SearchMatches`, `ReadsWhatWasWritten` |
| `diagnostics_network` | 3 different jobs | violation of `NetworkTellsPing` |
| `search_targets` | targets of up to 3 characters | violation of `TargetsUnwrapped` |
| `interfaces_addresses` | 1 address, 1 link, names of 1 character | violation of `InterfacesWithAddresses` |

**Why the bounds are enough.** Every race in this code is between two actors (two
requests, a request and the janitor, a request and the operator, two visits), so two
of each show it; the audit order needs a third request that is unrelated to the other
two. Each clock runs past one whole lifetime or window and into the next, so that an
entry can be fresh, at its last instant, over, and renewed while another is still in
force; longer clocks repeat these cases. Two tokens are enough for a session to end
and be followed by another one. Tables of two different lines let an index name the
job that was meant, another or none. Cap 3 with 2 articles per feed keeps the
relation of 12 and 8: either feed fits, both do not. Two long requests share nothing
before `Shutdown`, which only asks whether any is under way, so one of each sort
shows none, one and both; with two lines one can be in hand while another is in the
pipe. One login is enough beside two changes, because logins only read the store. One
page with two requests shows every overtaking, of loads and of changes; other pages
are to it what the operator is, and the operator is there. One port and one subnet
make the three rules whose numbers shift between the families, and the number bound 2
refuses the third. Two requests of the explorer are what overtaking needs. Cap 2 and
files of 3 bytes put a character before, on and behind the cut. The readers take,
over two characters, one of which is `UP`, and four phrases, one of them empty and
one with a blank inside, every list of up to 3 items with or without blanks around
them, numbers up to 99 with a sign, words of up to 3 letters, tables of up to 2 rows
of which 1 is kept, 2 addresses and 2 links, logs of up to 5 characters of which 2
lines are shown, pages of up to 4 hits of which 2 are kept, and targets of up to 3
characters: a row can be first, last or cut, and any column empty that can be. What
the small instances cannot say for larger ones the theorems say, as far as they go.
Bounds in the models are `MaxTime`, `MaxJobs`, `MaxLines`, `MaxSize`, `MaxEntries`,
`MaxHits`, `TargetLength`, `ListLength`, `TableLength` and `LogLength`, and the sets
`Requests` and `Slots`, which bound what is under way at once; the clock bound is in
the guard of `Tick`, the table bound in `Replace`, the bound on lines in `Write`.

**Fairness.** `Sessions`: `JanitorWake` and `JanitorSweep` are weakly fair, because
the ticker keeps firing, the goroutine loops for ever and `sm.mu` is only held for
short, loop-free sections. `ExpiredCollected` needs no more. `Streams`: the timers
(`Expire`, `GraceOver`), the killer, the readers and the handlers are weakly fair:
each is a goroutine of its own that nothing but its own guard holds up. `SelectDone`
is strongly fair, because Go's `select` is random among the cases that are ready: with
the tick due each time, the client's departure is ready again and again and is taken
some time. Weak fairness would not do, as the loop leaves `select` in between.
`Collect` ends because the commands of the collectors are the panel's own and have
time limits (`CallEnds` of `Gather`). Commands, background children, clients, the
clock of `Sessions` and the operator owe the program nothing; where an end depends on
them (`TerminalEnds`) the property says so. `Gather`: weakly fair for every worker and
for the caller, since each command has a time limit and nobody holds a goroutine up
but the channel, which has room. `Login`: the steps of a change that has the lock are
weakly fair, since file operations return, and so are the answers; `Verify` is
strongly fair, because the lock is free only between changes: `RWMutex.Unlock` lets
every waiting reader in before the next writer, so a waiting `Verify` is not passed
over for ever. The other modules state no liveness and assume no fairness.

### Findings

1. `PerSourceIP`: the comment at `…/httpserver/handlers_auth.go:16-17` and
   `src/README.md:201` speak of five attempts per source IP. The map is keyed by
   `RemoteAddr`, which holds the port: each connection has a limit of its own.
2. `AddAppends`: "Add appends a new line to the crontab" (`…/cron/cron.go:41`).
   It rewrites the table from an older list, without comments; after a failed
   `crontab -l` the new line is all that is left.
3. `NetworkTellsPing`: the diagnostics page shows `network_ok` as "Ping 8.8.8.8"
   (`src/web/templates/app.html:1277`). The job's output is the statistics of ping
   and then "ok"; `…/diagnostics/diagnostics.go:66` compares all of it with "ok". An
   answered ping is a failed network, and nothing makes the field true.
4. `TargetsUnwrapped`: "unwraps DuckDuckGo's … tracking redirect down to the real
   target URL" (`…/search/search.go:82-83`). `Query().Get` (line 93) decodes the value
   and line 94 decodes it again: a `+` of the target becomes a blank, an escape in it
   is decoded, and a `%` that begins none leaves the link wrapped.
5. `InterfacesWithAddresses`: "lists local network interfaces with their state and
   addresses" (`…/network/network.go:56`). `ip -o link` prints `eth0@if3` and
   `ip -o -4 addr` prints `eth0`; line 82 takes only the colon off, so that the lookup
   at line 90 misses, and such an interface is listed without its addresses.

**Known gaps** that the models show or had to be told of, and that no property claims
away:

- A generated password is stored before it is printed: a process that ends in between
  leaves one nobody has seen (`BootWrite`, then `Die`). A change of the password
  closes no session.
- A change made on a page other than the terminal's and the pentest tools' that did its
  work and then reported an error, or was killed at its deadline, leaves no audit entry
  (`RunFails`), although `src/README.md:202-204` speaks of every sensitive action.
- The pentest page answers success after a tool that failed, was killed or is not
  installed (`ToolFails`): `…/pentest/pentest.go:38-43` puts the error into the output
  and returns none. The comment at `…/httpserver/handlers_pentest.go:26-27` means that
  for tools that exit non-zero, "as long as we got usable output", which nothing checks.
  `Accounted` therefore ties "success" to an effect for the other pages only.
- The terminal's deadline kills `bash`; a child it left in the background keeps the
  pipe, and `ReadString` (`…/terminal/terminal.go:56`) or `CombinedOutput` (line 31)
  waits for it, although `src/README.md:195` promises a timeout on every long
  operation. `TerminalEnds` is what does hold.
- A diagnostics job that failed counts as OK (`Report`).
- A rule number, like a crontab index, may name another rule by the time it arrives; a
  second click on the same row deletes the next rule (`ClickDelete` while a
  `DeleteRule` is under way). A failed `ufw status` reads as an inactive firewall
  without rules. A fetch that fails leaves a firewall page that may not show what it
  did; a late reply does too (`spoilt`), and puts a content under another file's name in
  the preview (`late`).
- A text cut in the middle of a character is reported as binary; a file of `/proc` is
  never reported as cut; a `Read` that fails shows an empty file.
- A hit without a snippet gives its place to the snippet of the next. `ResultsMatch`
  says how far that goes: never to the snippet of an earlier hit.
- A firewall request that fails (`Lost`) is done with, while ufw may still finish before
  it is killed; that would be a change by the operator in the model, and the properties
  except a failed fetch. A `ufw status` that is killed half way prints no part of its
  table in the model.
- A setting other than a list is not trimmed: `HCKPT_AUTH=" true"` is the default. The
  `HCKPT_FEATURE_*` settings are read (`…/config/config.go:119-123`) and used nowhere.
- `/var/log/syslog` is shown for a file that is not listed even if it is not listed
  itself. An interface with `UP` in its name is always up (`InterfacesRead`). One
  whose name holds `---` would end the list of addresses: such names are left out.

## What is proved

TLAPS checks these for every value of the constants, under the named assumptions
of the modules only: that bounds are naturals and that special values are not ordinary
ones (`SessionAssumption`, `StoreAssumption`, `CrontabAssumption`, `NewsAssumption`,
`ThrottleAssumption`, `FirewallAssumption`, `ExplorerAssumption`, `PreviewAssumption`,
`SearchAssumption`),
that a request is of one sort (`StreamsAssumption`), that a call has finitely many jobs
(`GatherAssumption`), that all feeds but one leave room for the last (`FeedsFit`),
that the details of actions are texts and what stands before them on a line has no end
of line (`AuditFileAssumption`), that items and columns begin and end with no blank and
hold no separator (`SettingsAssumption`), and that they hold none of the marks a command
puts around them either, and that the page asks for at least one line of a log
(`ListingsAssumption`). The last two are about what others write: ids, names, homes and
addresses are such texts (an interface with `UP` in its name too), and a value that is
not, like a name with `---`, is a known gap above. TLC evaluates all of them on every run.

| Theorem | States |
|---|---|
| `SessionInvariant` | `Spec => []IInv` of Sessions |
| `SessionsImplementContract` | `Spec => ImplementsContract` |
| `LogoutNamesActor` | `LogoutKnowsActor` of Sessions |
| `StoreInvariant`, `AckedPasswordIsDurable`, `MemoryAgreesWithDisk` | the invariant of the store, `AckedIsOnDisk`, `MemoryIsDisk` |
| `LoginImplementsStore` | `LoginSpec => Spec`: the theorems of the store hold of the composition |
| `LoginImplementsAccount` | `LoginSpec => ImplementsAccount` |
| `LoginInvariant`, `SessionsFollowPassword`, `StoredPasswordLogsIn`, `NoOldPasswordComesBack` | `LoginInv`, `OnlyValidLogsIn`, `StoredPasswordAccepted`, `OnlyValidHeld` |
| `CrontabInvariant`, `AddIsExact`, `RemoveIsExact` | the fresh lists agree with the table, and the two action properties |
| `ActionsInvariant`, `ActionsAccounted`, `LogKeepsOrder` | the invariant and the two properties of the audit log |
| `HandlersFollowGroups` | `HandlersSpec` implies the specification of each group: the theorems about them hold of the composition |
| `NewsInvariant`, `PagesAreFresh`, `MissingFeedsFailed` | `NewsInv`; `FreshPages`, the age of a page; `MissingMeansFailed`, its gaps |
| `ThrottleInvariant`, `AtMostLimit`, `CountsExactly` | `ThrottleInv`, `WindowBound` and `CountExact` of LoginThrottle |
| `PanelInvariant` | `PanelInv`: `FwInv`, `ExInv`, `PvInv`, `AuInv` and `ReInv` of the parts |
| `DeleteIsExact`, `QuietPagesAreCurrent` | `UnracedDeleteExact` and `QuietPageShowsOwn` of Firewall |
| `RowsFollowCrumb`, `PreviewNamed`, `PreviewIsExact` | `RowsOfCrumb` and `PreviewUnderItsName` of Explorer, `PreviewExact` of Preview |
| `TailShowsRecent` | `TailIsRecent` of AuditFile |
| `SearchIsMatched`, `ReadersReadBack` | `SearchMatches` and `ReadsWhatWasWritten` of Readers |
| `GatherInvariant`, `GatherIsSnapshot`, `CallLeavesNothing` | `Gather` implements `Snapshot`; `NothingLeft` |
| `StreamsInvariant`, `NoOutputLost` | `IInv` and `OutputComplete` of Streams |

Each rests on an inductive invariant (`IInv`, or the name given in the table), which
the runs check too, and has the same shape: the initial states satisfy it, each action
keeps it, then a temporal step. The theorems about CredentialStore, Login and
LoginThrottle are in `Login_proofs`, those about AdminActions, Crontab and Handlers in
`AdminActions_proofs`, those about the parts of Panel in `Panel_proofs`, which cites
`Readers_proofs` for all that is read as text.

Several components compute with loops over a list (`Younger`, `Scan`, `Places`, `Results`,
`SplitN`, `Joined`, `Value`). What such a loop
leaves is proved by induction over naturals, which is got from a fact about sets: a
well-founded order has a minimum in every non-empty set (`WFMin`,
`NatLessThanWellFounded`), so a set of naturals with 0 and every successor is `Nat`
(`AllOfNat`). The loop is a recursive function; lemmas show that its equation has a
solution, that any solution agrees with it, and what a solution holds at each index.

- **Sessions.** The refinement needs that a token about to be inserted was never
  handed out and is nobody else's (`FreshInFlight`), that only handed-out tokens are
  in the map and in cookies (`OnlyHanded`, `CookiesHanded`), that a request being
  served names a token (`ServedUnderToken`), and that the janitor's clock is old
  (`JanitorClock`): `now > expires` under an old clock implies it under the current
  one, so the sweep takes nothing usable. `NextContract` then maps each action to an
  action of the contract or a stutter. `LogoutKnowsActor` is inductive because
  nothing between the lookup and the deletion makes the session usable again: a login
  inserts a token that was never handed out, a cookie names one that was.
- **CredentialStore.** `AckedIsOnDisk` alone is not inductive: one must know that only
  the holder of the lock is between its assignment and its reply and that memory holds
  what it asked for (`OneWriter`), that requests run only in a process that serves
  (`Armed`), and what the file holds at each stage (`WriteOrder`).
- **Login.** `OnlyValidLogsIn` needs that memory holds a valid password
  (`OnlyValidHeld`) and that what is valid now is among what a login under way may use
  (`AllowedKeepsUp`); `StoredPasswordAccepted` needs `AckedIsHeld` and, from the
  store, that the lock is free when `Verify` reads. Each step on the store is a step
  of `CredentialStore` (`StoreStep`), so its invariant is cited and not proved again.
- **Account.** `NextPromise` maps each action: the assignment under the lock is
  `Take`, the reply `Confirm` or `Fail`, the loading of the store `Restart`, which is
  allowed because what is on disk is valid (`OnlyValidHeld`); `Decide` needs the lock
  free. A process that starts or ends may drop everything because nobody is in it yet
  (`NobodyEarly`, from `Armed` and `OneWriter`).
- **Crontab.** `FreshAgrees` gives the history flags their meaning: until somebody
  replaces the table, the page, the click and the list agree with it. `Prepared` keeps
  the index inside the list. The action properties follow.
- **AdminActions.** `Progress` says, stage by stage, whether a request has had its
  effect and its entry; `EnteredOnce` makes the order well defined.
- **NewsCache.** `Gathered` bounds the distance between reading and storing; the age
  of a shown page is that plus the age of the entry. For the gaps, `RoomLeft` counts:
  a visit has used no more room than the feeds that answered it can fill, so by
  `FeedsFit` the next one gets some; `FailKnown` then carries the failure from the
  fetch through the store to the page.
- **LoginThrottle.** A request writes a list that it computed from the one before it,
  so the bound needs to know what no list forgets: `EndOf` says that a list is the end
  of the history and that all before it is too old, `OnRecord` that this holds of the
  map and of the list in hand. Clock readings are in order (`InOrder`) because one
  connection runs one request at a time. `Spaced` is the bound without counting: an
  attempt and the one `Limit` further on are a window apart; `WindowBound` follows
  since the attempts of a window lie between its smallest and largest index, and
  `CountExact` because the list and the window are the same interval of the history.
- **Firewall.** `FwFreshAgrees` gives `fresh` its meaning: until ufw changes, a page's
  list, or the one in a reply, is `Numbered`, so a click's number names its rule in
  it. `DeleteIsRemoveAt` turns the removal from one family into a removal from the
  listing of both. `QuietPageShowsOwn` is not inductive: `FwRequests` says what a
  request under way may be, and `FwRenewal` that whenever a page's screen, or a reply
  on its way to it, is old, another request of the page will still put it right
  (`Renews`).
- **Explorer, Preview.** `AskedFor`: the rows of a reply are of the directory that was
  asked for, and the latest preview is of the name shown. `SizeKnown`: at `Read` the
  size taken by `Stat` is that of the file, if nobody touched it.
- **AuditFile.** `LinesEndWithEntries`: the file has one complete line for each entry,
  and it ends with it; the last line is open exactly if the last write left one. `Log`
  then closes one line (`ScanEnd`), a failed write none (`ScanMore`), since neither
  mark nor detail has an end of line (`LineIs`).
- **Search.** `ResultsMatch` and `TargetsMatch` are proved of every page and every
  target, by induction on the length; the invariant only says that the input is one.
  Until `MaxResults` results are taken, a link is a result exactly if its hit has a
  title; the snippet at its place is its own as long as none before it is missing
  (`OwnSnippet`, from `PlacesAll`), and never one from further up (`PlacesAbove`: the
  k-th place is not before k). For targets, `UnescapeEncoded`: a decodable text followed
  by an encoded character, whichever it is, is decodable, and decodes to one character
  more; so `Query().Get` gives back the target and the second decoding is that of the
  target itself (`TargetDecodes`).
- **Readers.** The invariant only says that the input is of its kind, lists, tables,
  words and logs of any length and numbers of two digits; the work is in the lemmas
  about texts. `SplitMore` says what one character more does to the parts, and
  `SplitJoined` follows: parts without the separator, joined with it, split into
  themselves. `PrintedTrims` says that what trimming takes from a printed table is its
  last end of line and empty columns at its end, which a reader puts back as missing
  (`ColumnsAre`); `FieldsRead` and `LinesRead` are the same for blanks and for lines
  that are dropped when empty. Each listing then is a table of rows that split into
  their columns (`ContainersReadBack`, `AccountsReadBack`, `SocketsReadBack`,
  `FiguresReadBack`). For interfaces, `SectionsApart` finds the `---` that was echoed,
  `SectionRows` and `SectionLines` the rows on either side of it, and `AddressesRead`
  the addresses under their names; `UP` is found if the link is up or its name holds it.
  For logs, `LastBehind` turns the last lines of the file into the last of
  the lines that are shown (`TailReads`), however many empty ones lie between.
- **Gather.** `Balance` counts: the receives left are the results in the channel and
  the workers under way, so the last receive empties both, and `Covered` turns that
  into an answer for every name. `OnlySeen` gives each answer its origin.
  `NextSnapshot` maps `Answer` to `See`, `Return` to `Reply` and the rest to itself or
  a stutter.
- **Streams.** `OutputComplete` speaks of requests that returned; what carries it is
  `Stations` (past `wait` nobody holds the pipe any more, so nothing is written behind
  the reader's back) and `Delivered` (between the pipe and the response there is at
  most the line in hand).

**Only model-checked:** `ExpiredCollected`, `TerminalEnds`, `DashboardEnds`,
`ShutdownEnds`, `CallEnds` and `LoginAnswered` (liveness under fairness, out of this
prover's reach). Every safety property of a passing run is a theorem.

## What is not modelled, and the plan

The plan is done: every part in the table above is modelled and its safety properties
are proved, but for those named below.

**Left out for good.** `auth/hash.go` (a key derivation function: what it computes
is out of a model checker's reach); the floating-point figures of the dashboard
(percentages, megabytes) and `formatSize`; RSS parsing; the command lines of the
pentest tools; the pages that show the latest reply and send nothing made of it; the
regular expressions of `search` and of the validators; templates, static files,
version and build files. With authentication disabled the guards let everything
through and `Sessions`, `LoginThrottle`, `CredentialStore` and `Login` are not used.
