---------------------------- MODULE SessionStore ----------------------------
(***************************************************************************)
(* transport/session/store.go: TLS sessions in memory, and their keys in a *)
(* file that Flush replaces by a rename.  Put is called by the TLS stack   *)
(* on any goroutine, Flush by Put and by Transport.Close.  The process may *)
(* end between any two steps of them, and be started again.                *)
(*                                                                         *)
(* Only the keys are modelled: the file holds no tickets.  What the        *)
(* operating system has accepted survives the end of the process.          *)
(***************************************************************************)
EXTENDS Naturals, FiniteSets

CONSTANTS
    Keys,           \* session keys
    Procs,          \* goroutines
    NoFile,         \* no file, or no temporary file
    Nobody,         \* mu is not held
    MaxTemps        \* bound: temporary files left behind

ASSUME NobodyAssumption == Nobody \notin Procs
ASSUME MaxTempsAssumption == MaxTemps \in Nat

VARIABLES
    entries,        \* keys of s.entries
    dirty,          \* s.dirty
    recent,         \* the last save is at most five seconds ago
    mu,             \* who holds s.mu
    pc,             \* per goroutine, where it is in Put or Flush
    temp,           \* content of the temporary file of the Flush that runs
    file,           \* content of the file at path
    litter          \* temporary files that nothing will remove

memory == <<entries, dirty, recent, mu, pc>>
disk == <<temp, file, litter>>
vars == <<memory, disk>>

Steps == {"idle", "flush", "check", "create", "encode", "rename", "clean"}

Init ==
    /\ entries = {}
    /\ dirty = FALSE
    /\ recent = FALSE
    /\ mu = Nobody
    /\ pc = [p \in Procs |-> "idle"]
    /\ temp = NoFile
    /\ file = NoFile
    /\ litter = 0

Goto(p, step) == pc' = [pc EXCEPT ![p] = step]

\* The deferred Unlock.
Return(p) == mu' = Nobody /\ Goto(p, "idle")

-----------------------------------------------------------------------------
(* Put: one critical section, and a Flush after it *)

Put(p, k, present) ==
    /\ pc[p] = "idle"
    /\ mu = Nobody
    /\ entries' = IF present THEN entries \cup {k} ELSE entries \ {k}
    /\ dirty' = TRUE
    /\ Goto(p, IF recent THEN "idle" ELSE "flush")
    /\ UNCHANGED <<recent, mu, disk>>

\* Transport.Close flushes whatever the time of the last save.
Close(p) ==
    /\ pc[p] = "idle"
    /\ Goto(p, "flush")
    /\ UNCHANGED <<entries, dirty, recent, mu, disk>>

-----------------------------------------------------------------------------
(* Flush *)

\* Mutant: the lock is not held while the file is written.
LockBriefly(p) ==
    /\ pc[p] = "flush"
    /\ mu = Nobody
    /\ Goto(p, "check")
    /\ UNCHANGED <<entries, dirty, recent, mu, disk>>

Lock(p) ==
    /\ pc[p] = "flush"
    /\ mu = Nobody
    /\ mu' = p
    /\ Goto(p, "check")
    /\ UNCHANGED <<entries, dirty, recent, disk>>

\* Nothing to save, or the directory cannot be made.
FlushReturns(p) ==
    /\ pc[p] = "check"
    /\ Return(p)
    /\ UNCHANGED <<entries, dirty, recent, disk>>

NeedsFile(p) ==
    /\ pc[p] = "check"
    /\ dirty
    /\ Goto(p, "create")
    /\ UNCHANGED <<entries, dirty, recent, mu, disk>>

CreateTemp(p) ==
    /\ pc[p] = "create"
    /\ litter < MaxTemps
    /\ temp' = {}
    /\ Goto(p, "encode")
    /\ UNCHANGED <<entries, dirty, recent, mu, file, litter>>

CreateFails(p) ==
    /\ pc[p] = "create"
    /\ Return(p)
    /\ UNCHANGED <<entries, dirty, recent, disk>>

Encode(p) ==
    /\ pc[p] = "encode"
    /\ temp' = entries
    /\ Goto(p, "rename")
    /\ UNCHANGED <<entries, dirty, recent, mu, file, litter>>

\* Mutant: the temporary file stays.
EncodeFailsLeaves(p) ==
    /\ pc[p] = "encode"
    /\ Return(p)
    /\ UNCHANGED <<entries, dirty, recent, disk>>

\* The temporary file is removed.
EncodeFails(p) ==
    /\ pc[p] = "encode"
    /\ temp' = NoFile
    /\ Return(p)
    /\ UNCHANGED <<entries, dirty, recent, file, litter>>

Rename(p) ==
    /\ pc[p] = "rename"
    /\ file' = temp
    /\ temp' = NoFile
    /\ Goto(p, "clean")
    /\ UNCHANGED <<entries, dirty, recent, mu, litter>>

\* Mutant: the flag is cleared whatever came of the rename.
RenameFailsClean(p) ==
    /\ pc[p] = "rename"
    /\ temp' = NoFile
    /\ litter' = litter + 1
    /\ Goto(p, "clean")
    /\ UNCHANGED <<entries, dirty, recent, mu, file>>

\* The temporary file stays.
RenameFails(p) ==
    /\ pc[p] = "rename"
    /\ temp' = NoFile
    /\ litter' = litter + 1
    /\ Return(p)
    /\ UNCHANGED <<entries, dirty, recent, file>>

Clean(p) ==
    /\ pc[p] = "clean"
    /\ dirty' = FALSE
    /\ recent' = TRUE
    /\ Return(p)
    /\ UNCHANGED <<entries, disk>>

-----------------------------------------------------------------------------
FiveSeconds ==
    /\ recent
    /\ recent' = FALSE
    /\ UNCHANGED <<entries, dirty, mu, pc, disk>>

\* The process ends, and another one calls NewStore: load decodes the file and
\* drops the keys, so the new process starts with no entries.
Restart ==
    /\ entries' = {}
    /\ dirty' = FALSE
    /\ recent' = FALSE
    /\ mu' = Nobody
    /\ pc' = [p \in Procs |-> "idle"]
    /\ temp' = NoFile
    /\ litter' = IF temp = NoFile THEN litter ELSE litter + 1
    /\ UNCHANGED file

PutStep(p) == \E k \in Keys, present \in BOOLEAN : Put(p, k, present)

FlushStep(p) ==
    \/ Lock(p) \/ FlushReturns(p) \/ NeedsFile(p)
    \/ CreateTemp(p) \/ CreateFails(p) \/ Encode(p) \/ EncodeFails(p)
    \/ Rename(p) \/ RenameFails(p) \/ Clean(p)

Next ==
    \/ \E p \in Procs : PutStep(p) \/ Close(p) \/ FlushStep(p)
    \/ FiveSeconds
    \/ Restart

Spec == Init /\ [][Next]_vars

-----------------------------------------------------------------------------
(* Properties *)

\* Every variable stays within its type.
TypeOK ==
    /\ entries \in SUBSET Keys
    /\ dirty \in BOOLEAN
    /\ recent \in BOOLEAN
    /\ mu \in Procs \cup {Nobody}
    /\ pc \in [Procs -> Steps]
    /\ temp \in {NoFile} \cup SUBSET Keys
    /\ file \in {NoFile} \cup SUBSET Keys
    /\ litter \in 0..MaxTemps

\* A store that believes itself saved is: after failing creations, encodings
\* and renames, in any order with the Puts of other goroutines, either the file
\* holds what is in memory, or this process has put nothing yet.
CleanMeansSaved == ~dirty => file = entries \/ entries = {}

\* A temporary file belongs to the Flush that holds the lock: no two are
\* written at a time, and one left behind is counted as such.
TempOwned == temp # NoFile => mu \in Procs /\ pc[mu] \in {"encode", "rename"}

\* The store implements SnapshotFile: the file changes from one whole snapshot
\* of the memory to another, whenever the process ends.
Snapshot == INSTANCE SnapshotFile WITH held <- entries, saved <- file
ImplementsSnapshot == Snapshot!SnapshotSpec
=============================================================================
