----------------------------- MODULE FsStorage -----------------------------
(***************************************************************************)
(* FsStorage (packages/cache/src/adapters/fs.ts): the cache, the journal   *)
(* and the write model on a filesystem.                                    *)
(*                                                                         *)
(* A put writes the body to a file of its own beside the key and renames   *)
(* it.  Opening a file, writing to it and renaming it are steps: a reader, *)
(* a list, another put of the key or a kill may come between any two.      *)
(* get and has read the file a key names when they open it, and change     *)
(* nothing; list is what the directory says at one moment.                 *)
(***************************************************************************)
CONSTANTS
  Clients,   \* calls that may be under way at once, in one process or several
  Keys, Values,
  Absent,    \* no file of that name
  Torn       \* a file begun and not yet written to its end

ASSUME StorageAssumption ==
  /\ Absent \notin Values /\ Torn \notin Values /\ Absent # Torn

VARIABLES
  file,      \* what is at the path of each key
  temp,      \* what is at the temporary path of each call
  litter,    \* keys beside which a killed put has left its temporary file
  fsCall     \* where each call is

storage == <<file, temp, litter, fsCall>>

AtRest == [at |-> "idle"]

FsInit ==
  /\ file = [k \in Keys |-> Absent]
  /\ temp = [c \in Clients |-> Absent]
  /\ litter = {}
  /\ fsCall = [c \in Clients |-> AtRest]

Goto(c, at) == fsCall' = [fsCall EXCEPT ![c].at = at]
Rest(c) == fsCall' = [fsCall EXCEPT ![c] = AtRest]

-----------------------------------------------------------------------------
(* put.                                                                    *)

FsPut(c, k, body) ==
  /\ fsCall[c] = AtRest
  /\ fsCall' = [fsCall EXCEPT ![c] = [at |-> "mkdir", key |-> k, body |-> body]]
  /\ UNCHANGED <<file, temp, litter>>

Mkdir(c) ==
  /\ fsCall[c].at = "mkdir"
  /\ Goto(c, "create")
  /\ UNCHANGED <<file, temp, litter>>

(* The directories are made outside the try: there is nothing to remove.   *)
MkdirFails(c) ==
  /\ fsCall[c].at = "mkdir"
  /\ Rest(c)
  /\ UNCHANGED <<file, temp, litter>>

(* writeFile creates the file, and fills it.                               *)
CreateTemp(c) ==
  /\ fsCall[c].at = "create"
  /\ temp' = [temp EXCEPT ![c] = Torn]
  /\ Goto(c, "write")
  /\ UNCHANGED <<file, litter>>

(* Mutant of WriteTemp: the file is renamed before its end is written.     *)
WriteTempLast(c) ==
  /\ fsCall[c].at = "write"
  /\ Goto(c, "rename")
  /\ UNCHANGED <<file, temp, litter>>

WriteTemp(c) ==
  /\ fsCall[c].at = "write"
  /\ temp' = [temp EXCEPT ![c] = fsCall[c].body]
  /\ Goto(c, "rename")
  /\ UNCHANGED <<file, litter>>

Rename(c) ==
  /\ fsCall[c].at = "rename"
  /\ file' = [file EXCEPT ![fsCall[c].key] = temp[c]]
  /\ temp' = [temp EXCEPT ![c] = Absent]
  /\ fsCall' = [fsCall EXCEPT ![c] = [at |-> "done"]]
  /\ UNCHANGED litter

(* A disk that is full, a directory that has gone.                         *)
PutFails(c) ==
  /\ fsCall[c].at \in {"create", "write", "rename"}
  /\ Goto(c, "undo")
  /\ UNCHANGED <<file, temp, litter>>

Undo(c) ==
  /\ fsCall[c].at = "undo"
  /\ temp' = [temp EXCEPT ![c] = Absent]
  /\ Rest(c)
  /\ UNCHANGED <<file, litter>>

-----------------------------------------------------------------------------
(* delete, and the end of both.                                            *)

FsDelete(c, k) ==
  /\ fsCall[c] = AtRest
  /\ fsCall' = [fsCall EXCEPT ![c] = [at |-> "rm", key |-> k, body |-> Absent]]
  /\ UNCHANGED <<file, temp, litter>>

Rm(c) ==
  /\ fsCall[c].at = "rm"
  /\ file' = [file EXCEPT ![fsCall[c].key] = Absent]
  /\ fsCall' = [fsCall EXCEPT ![c] = [at |-> "done"]]
  /\ UNCHANGED <<temp, litter>>

RmFails(c) ==
  /\ fsCall[c].at = "rm"
  /\ Rest(c)
  /\ UNCHANGED <<file, temp, litter>>

FsReturn(c) ==
  /\ fsCall[c].at = "done"
  /\ Rest(c)
  /\ UNCHANGED <<file, temp, litter>>

(* The process of a call is killed: its temporary file stays.              *)
FsKill(c) ==
  /\ fsCall[c] # AtRest
  /\ litter' = IF temp[c] # Absent THEN litter \union {fsCall[c].key} ELSE litter
  /\ temp' = [temp EXCEPT ![c] = Absent]
  /\ Rest(c)
  /\ UNCHANGED file

FsNext ==
  \E c \in Clients :
    \/ \E k \in Keys, body \in Values : FsPut(c, k, body)
    \/ Mkdir(c) \/ MkdirFails(c) \/ CreateTemp(c) \/ WriteTemp(c) \/ Rename(c)
    \/ PutFails(c) \/ Undo(c)
    \/ \E k \in Keys : FsDelete(c, k)
    \/ Rm(c) \/ RmFails(c) \/ FsReturn(c) \/ FsKill(c)

FsSpec == FsInit /\ [][FsNext]_storage

-----------------------------------------------------------------------------
(* list: the directory's entries, those of temporary files left out.       *)

Entry(k, temporary) == [key |-> k, temporary |-> temporary]

Directory ==
  {Entry(k, FALSE) : k \in {q \in Keys : file[q] # Absent}}
    \union {Entry(k, TRUE) : k \in litter}
    \union {Entry(fsCall[c].key, TRUE) : c \in {d \in Clients : temp[d] # Absent}}

Listed == {e.key : e \in {d \in Directory : ~d.temporary}}

(* What a client of the storage sees of a call.                            *)
SeenAs(step) ==
  CASE step.at = "idle" -> [at |-> "idle"]
    [] step.at = "done" -> [at |-> "took"]
    [] OTHER -> [at |-> "asked", key |-> step.key, body |-> step.body]

R == INSTANCE Register
       WITH value <- file, names <- Listed, call <- [c \in Clients |-> SeenAs(fsCall[c])]

(* fs.ts:24-34: write-then-rename is the register its callers may assume.  *)
(* Whatever calls overlap, fail or are killed, a key holds the previous    *)
(* whole value or the new one, an answer is not followed by a change, a    *)
(* refused put has changed nothing, and no temporary file is a key.        *)
IsARegister == R!RegisterSpec
=============================================================================
