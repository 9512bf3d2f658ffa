------------------------------- MODULE Preview -------------------------------
(***************************************************************************)
(* files.ReadPreview: Stat, then Open and one Read of at most Cap bytes,   *)
(* while other programs write, replace or remove the file.  A file is a    *)
(* sequence of bytes, of one-byte characters, of the first and second byte *)
(* of two-byte ones, and of bytes that are never text.                     *)
(***************************************************************************)
EXTENDS Naturals, SequencesExt

CONSTANTS
    Cap,         \* maxPreviewBytes, 200 KB
    MaxSize,     \* bound on the size of a file
    Missing, Directory

Byte == {"one", "first", "second", "never"}
Contents == BoundedSeq(Byte, MaxSize)

ASSUME PreviewAssumption == Cap \in Nat /\ MaxSize \in Nat /\ {Missing, Directory} \cap Contents = {}

VARIABLES
    file,        \* what the path names
    sizeless,    \* a file whose Stat says 0 whatever it holds, as in /proc
    step,        \* stage of the request
    size,        \* info.Size()
    reply,       \* its answer
    steady       \* history: nobody has changed the file since Stat, and Read worked

pvVars == <<file, sizeless, step, size, reply, steady>>

NoReply == [status |-> "none", content |-> <<>>, truncated |-> FALSE]
Failure(status) == [NoReply EXCEPT !.status = status]

PvInit ==
    /\ file \in Contents \cup {Missing, Directory}
    /\ sizeless \in BOOLEAN
    /\ step = "idle"
    /\ size = 0
    /\ reply = NoReply
    /\ steady = FALSE

(* utf8.Valid *)
Valid(bytes) ==
    \A i \in DOMAIN bytes :
        /\ bytes[i] # "never"
        /\ bytes[i] = "first" => i < Len(bytes) /\ bytes[i + 1] = "second"
        /\ bytes[i] = "second" => i > 1 /\ bytes[i - 1] = "first"

FirstBytes(bytes) == SubSeq(bytes, 1, IF Len(bytes) < Cap THEN Len(bytes) ELSE Cap)

-----------------------------------------------------------------------------
Answer(r) ==
    /\ step' = "answered"
    /\ reply' = r
    /\ UNCHANGED <<file, sizeless, size, steady>>

(* handleFilesRead calls ReadPreview, which calls Stat. *)
Stat ==
    /\ step = "idle"
    /\ file \in Contents
    /\ step' = "statted"
    /\ size' = IF sizeless THEN 0 ELSE Len(file)
    /\ steady' = TRUE
    /\ UNCHANGED <<file, sizeless, reply>>

(* No such file, no permission, or a directory. *)
StatRefuses == step = "idle" /\ Answer(Failure("error"))

OpenFails == step = "statted" /\ Answer(Failure("error"))

(* Mutant: the flag compares with the cap what was read. *)
ReadFlagsFull ==
    /\ step = "statted"
    /\ file \in Contents
    /\ IF Valid(FirstBytes(file))
       THEN Answer([status |-> "text", content |-> FirstBytes(file),
                    truncated |-> Len(FirstBytes(file)) = Cap])
       ELSE Answer(Failure("binary"))

(* The error of Read is dropped: what it returned is all there is. *)
Read ==
    /\ step = "statted"
    /\ file \in Contents
    /\ IF Valid(FirstBytes(file))
       THEN Answer([status |-> "text", content |-> FirstBytes(file),
                    truncated |-> size > Len(FirstBytes(file))])
       ELSE Answer(Failure("binary"))

(* Read fails, as it does on what has become a directory: nothing was read,
   which is valid text. *)
ReadFails ==
    /\ step = "statted"
    /\ file # Missing
    /\ step' = "answered"
    /\ reply' = [status |-> "text", content |-> <<>>, truncated |-> size > 0]
    /\ steady' = FALSE
    /\ UNCHANGED <<file, sizeless, size>>

Done ==
    /\ step = "answered"
    /\ step' = "idle"
    /\ size' = 0
    /\ reply' = NoReply
    /\ steady' = FALSE
    /\ UNCHANGED <<file, sizeless>>

(* Another program: appends, truncates, replaces, removes, makes a directory. *)
FileChanges ==
    /\ file' \in (Contents \cup {Missing, Directory}) \ {file}
    /\ step # "answered"
    /\ steady' = FALSE
    /\ UNCHANGED <<sizeless, step, size, reply>>

PvNext ==
    Stat \/ StatRefuses \/ OpenFails \/ Read \/ ReadFails \/ Done \/ FileChanges

-----------------------------------------------------------------------------
(* The shapes of the file, the request and its reply. *)
PvTypeOK ==
    /\ file \in Contents \cup {Missing, Directory}
    /\ sizeless \in BOOLEAN
    /\ step \in {"idle", "statted", "answered"}
    /\ size \in 0..MaxSize
    /\ reply.status \in {"none", "error", "binary", "text"}
    /\ reply.content \in Contents
    /\ reply.truncated \in BOOLEAN
    /\ steady \in BOOLEAN

(* A file that nobody touches meanwhile is shown up to the cap, and the flag
   the page turns into "file is larger than the 200KB preview cap" is set
   exactly when there is more.  Text that fits is never reported as binary, and
   what is shown is always text, whatever was written between the size and the
   bytes (ReadPreview). *)
PreviewExact ==
    /\ reply.status = "text" /\ steady /\ ~sizeless =>
          /\ reply.content = FirstBytes(file)
          /\ reply.truncated <=> Len(file) > Cap
    /\ reply.status = "binary" => ~(Valid(file) /\ Len(file) <= Cap)
    /\ reply.status = "text" => Valid(reply.content) /\ Len(reply.content) <= Cap

(* Between Stat and Read the size is that of the file, unless somebody changed
   it, and there is a reply only to a request that was answered. *)
SizeKnown ==
    /\ step = "statted" /\ steady /\ ~sizeless => file \in Contents /\ size = Len(file)
    /\ step # "answered" => reply = NoReply

PvInv == PvTypeOK /\ SizeKnown /\ PreviewExact
=============================================================================
