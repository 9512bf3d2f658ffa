--------------------------- MODULE CredentialStore ---------------------------
(***************************************************************************)
(* auth/store.go and the start-up in main.go and httpserver.New: the one   *)
(* administrator password, in memory and in auth.json.  Persisting is      *)
(* os.WriteFile, which truncates the file and then fills it; the process   *)
(* may die between any two steps.                                          *)
(*                                                                         *)
(* A password stands for itself and its hash.  Verify reads the password   *)
(* in memory under the read lock, never while a change holds the lock.     *)
(***************************************************************************)
CONSTANTS
    Changers,    \* concurrent POST /api/auth/password requests
    Passwords,   \* passwords an operator may choose or randomPassword may draw
    Absent,      \* auth.json: there is no such file
    Torn,        \* auth.json: truncated, or cut short; never valid JSON
    None         \* no password, nobody

ASSUME StoreAssumption ==
    /\ Absent \notin Passwords /\ Torn \notin Passwords /\ None \notin Passwords
    /\ Absent # Torn
    /\ None \notin Changers

VARIABLES
    disk,        \* contents of auth.json
    mem,         \* s.cred of the running process
    proc,        \* stage of the process
    pc,          \* stage of each change request
    want,        \* the password it asks for
    lock,        \* holder of s.mu
    acked,       \* history: the password last reported as stored, until
                 \* something is entitled to replace it
    failed       \* history: the last change of this process was not persisted

vars == <<disk, mem, proc, pc, want, lock, acked, failed>>

(* down; created, truncated and persisted: first start, before the password
   is printed; up: serving; refused: stopped by a corrupt store. *)
Stages == {"down", "created", "truncated", "persisted", "up", "refused"}
Booting == {"created", "truncated", "persisted"}
ChangeStages == {"idle", "hashed", "stored", "truncated"}

Init ==
    /\ disk = Absent
    /\ mem = None
    /\ proc = "down"
    /\ pc = [c \in Changers |-> "idle"]
    /\ want = [c \in Changers |-> None]
    /\ lock = None
    /\ acked = None
    /\ failed = FALSE

-----------------------------------------------------------------------------
(* NewStore and main. *)

(* Mutant: the error of json.Unmarshal is ignored. *)
LoadAnything ==
    /\ proc = "down"
    /\ disk # Absent
    /\ mem' = IF disk = Torn THEN None ELSE disk
    /\ proc' = "up"
    /\ failed' = FALSE
    /\ UNCHANGED <<disk, pc, want, lock, acked>>

Load ==
    /\ proc = "down"
    /\ disk \in Passwords
    /\ mem' = disk
    /\ proc' = "up"
    /\ failed' = FALSE
    /\ UNCHANGED <<disk, pc, want, lock, acked>>

RefuseCorrupt ==
    /\ proc = "down"
    /\ disk = Torn
    /\ proc' = "refused"
    /\ UNCHANGED <<disk, mem, pc, want, lock, acked, failed>>

Create ==
    /\ proc = "down"
    /\ proc' = "created"
    /\ mem' \in Passwords
    /\ failed' = FALSE
    /\ UNCHANGED <<disk, pc, want, lock>>

FirstStart ==
    /\ disk = Absent
    /\ Create
    /\ UNCHANGED acked

(* ReadFile fails for another reason: the start goes on as if there were no
   file.  The stored password is given up. *)
UnreadableStart ==
    /\ disk # Absent
    /\ Create
    /\ acked' = None

BootTruncate ==
    /\ proc = "created"
    /\ disk' = Torn
    /\ proc' = "truncated"
    /\ UNCHANGED <<mem, pc, want, lock, acked, failed>>

BootWrite ==
    /\ proc = "truncated"
    /\ disk' = mem
    /\ acked' = mem
    /\ proc' = "persisted"
    /\ UNCHANGED <<mem, pc, want, lock, failed>>

(* New has returned the password; main prints it and starts to serve. *)
PrintAndServe ==
    /\ proc = "persisted"
    /\ proc' = "up"
    /\ UNCHANGED <<disk, mem, pc, want, lock, acked, failed>>

(* The process ends: SIGTERM, a crash, or log.Fatalf when the first persist
   fails at its open or at its write. *)
Die ==
    /\ proc \in Booting \cup {"up"}
    /\ proc' = "down"
    /\ mem' = None
    /\ pc' = [c \in Changers |-> "idle"]
    /\ want' = [c \in Changers |-> None]
    /\ lock' = None
    /\ failed' = FALSE
    /\ UNCHANGED <<disk, acked>>

(* The operator removes a store the program refuses. *)
RemoveStore ==
    /\ proc = "refused"
    /\ disk' = Absent
    /\ proc' = "down"
    /\ acked' = None
    /\ UNCHANGED <<mem, pc, want, lock, failed>>

-----------------------------------------------------------------------------
(* handleAuthChangePassword and SetPassword. *)

(* The new password is long enough and HashPassword, outside the lock, is
   done with it. *)
BeginChange(c) ==
    /\ proc = "up"
    /\ pc[c] = "idle"
    /\ \E p \in Passwords : want' = [want EXCEPT ![c] = p]
    /\ pc' = [pc EXCEPT ![c] = "hashed"]
    /\ UNCHANGED <<disk, mem, proc, lock, acked, failed>>

(* Mutant: SetPassword does not take the lock. *)
SetInMemoryUnlocked(c) ==
    /\ pc[c] = "hashed"
    /\ mem' = want[c]
    /\ acked' = None
    /\ pc' = [pc EXCEPT ![c] = "stored"]
    /\ UNCHANGED <<disk, proc, want, lock, failed>>

SetInMemory(c) ==
    /\ pc[c] = "hashed"
    /\ lock = None
    /\ lock' = c
    /\ mem' = want[c]
    /\ acked' = None
    /\ pc' = [pc EXCEPT ![c] = "stored"]
    /\ UNCHANGED <<disk, proc, want, failed>>

Truncate(c) ==
    /\ pc[c] = "stored"
    /\ disk' = Torn
    /\ pc' = [pc EXCEPT ![c] = "truncated"]
    /\ UNCHANGED <<mem, proc, want, lock, acked, failed>>

Return(c) ==
    /\ lock' = None
    /\ pc' = [pc EXCEPT ![c] = "idle"]
    /\ want' = [want EXCEPT ![c] = None]

(* The bytes written were marshalled from s.cred before the open. *)
Write(c) ==
    /\ pc[c] = "truncated"
    /\ disk' = want[c]
    /\ acked' = want[c]
    /\ failed' = FALSE
    /\ Return(c)
    /\ UNCHANGED <<mem, proc>>

(* Mutant: SetPassword drops the error of persist. *)
PersistFailsSilently(c) ==
    /\ pc[c] \in {"stored", "truncated"}
    /\ failed' = TRUE
    /\ acked' = want[c]
    /\ Return(c)
    /\ UNCHANGED <<disk, mem, proc>>

(* Mutant: the lock is released on the path of success only. *)
PersistFailsLocked(c) ==
    /\ pc[c] \in {"stored", "truncated"}
    /\ disk' = disk \/ (pc[c] = "truncated" /\ disk' = want[c])
    /\ failed' = TRUE
    /\ pc' = [pc EXCEPT ![c] = "idle"]
    /\ want' = [want EXCEPT ![c] = None]
    /\ UNCHANGED <<lock, mem, proc, acked>>

(* The open, the write or the close fails.  The error is reported, the file is
   as it was, torn or complete, and the new password stays in memory. *)
PersistFails(c) ==
    /\ pc[c] \in {"stored", "truncated"}
    /\ disk' = disk \/ (pc[c] = "truncated" /\ disk' = want[c])
    /\ failed' = TRUE
    /\ Return(c)
    /\ UNCHANGED <<mem, proc, acked>>

Next ==
    \/ Load \/ RefuseCorrupt \/ FirstStart \/ UnreadableStart
    \/ BootTruncate \/ BootWrite \/ PrintAndServe
    \/ Die \/ RemoveStore
    \/ \E c \in Changers :
          BeginChange(c) \/ SetInMemory(c) \/ Truncate(c) \/ Write(c) \/ PersistFails(c)

Spec == Init /\ [][Next]_vars

-----------------------------------------------------------------------------
(* The shapes of the store, of the process and of a change in flight. *)
TypeOK ==
    /\ disk \in Passwords \cup {Absent, Torn}
    /\ mem \in Passwords \cup {None}
    /\ proc \in Stages
    /\ pc \in [Changers -> ChangeStages]
    /\ want \in [Changers -> Passwords \cup {None}]
    /\ lock \in Changers \cup {None}
    /\ acked \in Passwords \cup {None}
    /\ failed \in BOOLEAN

(* Only one change at a time is between its assignment and its reply, and
   while it is, memory holds the password it asked for. *)
OneWriter ==
    \A c \in Changers :
        /\ pc[c] \in {"stored", "truncated"} <=> lock = c
        /\ lock = c => mem = want[c]
        /\ pc[c] = "idle" <=> want[c] = None

(* Requests run only while the process serves, and it serves with a password
   in memory: a store that cannot be read never means an empty password. *)
Armed ==
    /\ proc \in Booting \cup {"up"} <=> mem # None
    /\ (\E c \in Changers : pc[c] # "idle") => proc = "up"

(* The password that was last reported as stored is the one the next start
   reads, whatever crashes in between, until a new change takes the lock, the
   store is found unreadable or the operator removes it (SetPassword). *)
AckedIsOnDisk == acked # None => disk = acked

(* While no change is under way, the running process and the file disagree
   only after a change whose persist failed (SetPassword, NewStore). *)
MemoryIsDisk == proc = "up" /\ lock = None /\ ~failed => disk = mem

(* What the file holds at each stage of a persist. *)
WriteOrder ==
    /\ lock # None => acked = None
    /\ proc = "persisted" => disk = mem
    /\ proc = "up" /\ (\E c \in Changers : pc[c] = "truncated") => disk = Torn
    /\ proc = "truncated" => disk = Torn
    /\ acked # None => ~(proc \in {"created", "truncated"})

IInv == TypeOK /\ OneWriter /\ Armed /\ AckedIsOnDisk /\ MemoryIsDisk /\ WriteOrder
=============================================================================
