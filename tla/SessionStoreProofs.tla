------------------------- MODULE SessionStoreProofs -------------------------
(***************************************************************************)
(* Theorems about SessionStore for any keys and goroutines: a clean store  *)
(* is saved, and the file is always one whole snapshot of the memory.      *)
(***************************************************************************)
EXTENDS SessionStore, TLAPS

Locked == {"check", "create", "encode", "rename", "clean"}

\* The lock is held by the goroutine inside Flush, and by no other.
HolderFlushes == \A p \in Procs : mu = p <=> pc[p] \in Locked

\* How far the Flush has come, and what the disk holds of it.
Progress ==
    \A p \in Procs :
        /\ pc[p] \in {"create", "encode", "rename", "clean"} => dirty
        /\ pc[p] \in {"encode", "rename"} => litter < MaxTemps
        /\ pc[p] = "rename" => temp = entries
        /\ pc[p] = "clean" => file = entries

IInv == TypeOK /\ HolderFlushes /\ Progress /\ CleanMeansSaved /\ TempOwned

USE NobodyAssumption, MaxTempsAssumption

\* A new store satisfies the invariant.
LEMMA InitIInv == Init => IInv
<1>. SUFFICES ASSUME Init PROVE IInv
    OBVIOUS
<1>1. TypeOK
    <2>1. pc \in [Procs -> Steps] /\ litter \in 0..MaxTemps
        BY DEF Init, Steps
    <2>2. entries \in SUBSET Keys /\ temp \in {NoFile} \cup SUBSET Keys
          /\ file \in {NoFile} \cup SUBSET Keys
        BY DEF Init
    <2>3. dirty \in BOOLEAN /\ recent \in BOOLEAN /\ mu \in Procs \cup {Nobody}
        BY DEF Init
    <2>. QED BY <2>1, <2>2, <2>3 DEF TypeOK
<1>2. HolderFlushes /\ Progress
    BY DEF Init, HolderFlushes, Locked, Progress
<1>3. CleanMeansSaved /\ TempOwned
    BY DEF Init, CleanMeansSaved, TempOwned
<1>. QED BY <1>1, <1>2, <1>3 DEF IInv

\* Put and Close, which take no part in a Flush that runs.
LEMMA CallsKeep ==
    ASSUME IInv, NEW p \in Procs, PutStep(p) \/ Close(p) PROVE IInv'
<1>1. ASSUME NEW k \in Keys, NEW present \in BOOLEAN, Put(p, k, present) PROVE IInv'
    BY <1>1 DEF Put, Goto, disk, IInv, TypeOK, Steps, HolderFlushes, Locked, Progress,
        CleanMeansSaved, TempOwned
<1>2. CASE Close(p)
    BY <1>2 DEF Close, Goto, disk, IInv, TypeOK, Steps, HolderFlushes, Locked, Progress,
        CleanMeansSaved, TempOwned
<1>. QED BY <1>1, <1>2 DEF PutStep

\* The steps of a Flush, those that fail included.
LEMMA FlushKeeps ==
    ASSUME IInv, NEW p \in Procs, FlushStep(p) PROVE IInv'
<1>. USE DEF Goto, Return, disk, IInv, TypeOK, Steps, HolderFlushes, Locked, Progress,
        CleanMeansSaved, TempOwned
<1>1. CASE Lock(p) BY <1>1 DEF Lock
<1>2. CASE FlushReturns(p) BY <1>2 DEF FlushReturns
<1>3. CASE NeedsFile(p) BY <1>3 DEF NeedsFile
<1>4. CASE CreateTemp(p) BY <1>4 DEF CreateTemp
<1>5. CASE CreateFails(p) BY <1>5 DEF CreateFails
<1>6. CASE Encode(p) BY <1>6 DEF Encode
<1>7. CASE EncodeFails(p) BY <1>7 DEF EncodeFails
<1>8. CASE Rename(p) BY <1>8 DEF Rename
<1>9. CASE RenameFails(p) BY <1>9 DEF RenameFails
<1>10. CASE Clean(p) BY <1>10 DEF Clean
<1>. QED BY <1>1, <1>2, <1>3, <1>4, <1>5, <1>6, <1>7, <1>8, <1>9, <1>10 DEF FlushStep

\* The clock, and the end of the process at any point.
LEMMA OutsideKeeps == ASSUME IInv, FiveSeconds \/ Restart PROVE IInv'
<1>1. CASE FiveSeconds
    BY <1>1 DEF FiveSeconds, disk, IInv, Locked, TypeOK, HolderFlushes, Progress, CleanMeansSaved, TempOwned
<1>2. CASE Restart
    <2>1. litter' \in 0..MaxTemps
        BY <1>2 DEF Restart, IInv, TypeOK, Progress, TempOwned
    <2>2. entries' \in SUBSET Keys /\ temp' \in {NoFile} \cup SUBSET Keys
          /\ file' \in {NoFile} \cup SUBSET Keys
        BY <1>2 DEF Restart, IInv, TypeOK
    <2>3. pc' \in [Procs -> Steps] /\ mu' \in Procs \cup {Nobody}
          /\ dirty' \in BOOLEAN /\ recent' \in BOOLEAN
        BY <1>2 DEF Restart, Steps
    <2>4. HolderFlushes' /\ Progress' /\ CleanMeansSaved' /\ TempOwned'
        BY <1>2 DEF Restart, HolderFlushes, Locked, Progress, CleanMeansSaved, TempOwned
    <2>. QED BY <2>1, <2>2, <2>3, <2>4 DEF IInv, TypeOK
<1>. QED BY <1>1, <1>2

\* Every step keeps the invariant.
LEMMA IInvStep == IInv /\ [Next]_vars => IInv'
<1>1. ASSUME IInv, UNCHANGED vars PROVE IInv'
    BY <1>1 DEF vars, memory, disk, IInv, TypeOK, HolderFlushes, Progress, CleanMeansSaved, TempOwned
<1>. QED BY <1>1, CallsKeep, FlushKeeps, OutsideKeeps DEF Next

-----------------------------------------------------------------------------
\* The inductive invariant holds in every behaviour of the store.
THEOREM Invariant == Spec => []IInv
BY InitIInv, IInvStep, PTL DEF Spec

\* Every variable of the store keeps its type.
THEOREM TypeCorrect == Spec => []TypeOK
<1>1. IInv => TypeOK BY DEF IInv
<1>. QED BY <1>1, Invariant, PTL

\* Whatever fails, and in whatever order, a store that is not dirty is saved.
THEOREM CleanIsSaved == Spec => []CleanMeansSaved
<1>1. IInv => CleanMeansSaved BY DEF IInv
<1>. QED BY <1>1, Invariant, PTL

\* A temporary file is written by the holder of the lock only.
THEOREM TempsOwned == Spec => []TempOwned
<1>1. IInv => TempOwned BY DEF IInv
<1>. QED BY <1>1, Invariant, PTL

\* Every step of the store is a step of SnapshotFile, or leaves it alone.
LEMMA StepSnapshot ==
    IInv /\ IInv' /\ [Next]_vars => [Snapshot!Next]_<<entries, file>>
<1>. SUFFICES ASSUME IInv, IInv', [Next]_vars PROVE [Snapshot!Next]_<<entries, file>>
    OBVIOUS
<1>. USE DEF Snapshot!Next
<1>1. CASE UNCHANGED vars
    BY <1>1 DEF vars, memory, disk
<1>2. ASSUME NEW p \in Procs, PutStep(p) PROVE [Snapshot!Next]_<<entries, file>>
    BY <1>2 DEF PutStep, Put, disk, IInv, TypeOK, Snapshot!Change
<1>3. ASSUME NEW p \in Procs, Close(p) PROVE [Snapshot!Next]_<<entries, file>>
    BY <1>3 DEF Close, disk
<1>4. ASSUME NEW p \in Procs, Rename(p) PROVE [Snapshot!Next]_<<entries, file>>
    BY <1>4 DEF Rename, IInv, Progress, Snapshot!Save
<1>5. ASSUME NEW p \in Procs, FlushStep(p), ~Rename(p) PROVE [Snapshot!Next]_<<entries, file>>
    BY <1>5 DEF FlushStep, Lock, FlushReturns, NeedsFile, CreateTemp, CreateFails, Encode,
        EncodeFails, RenameFails, Clean, disk
<1>6. CASE FiveSeconds
    BY <1>6 DEF FiveSeconds, disk
<1>7. CASE Restart
    BY <1>7 DEF Restart, Snapshot!Restart
<1>. QED BY <1>1, <1>2, <1>3, <1>4, <1>5, <1>6, <1>7 DEF Next

\* The store implements SnapshotFile: what a restart finds is one whole set of
\* keys that was in memory, however the process before it ended.
THEOREM StoreImplementsSnapshot == Spec => ImplementsSnapshot
<1>1. Init => Snapshot!Init BY DEF Init, Snapshot!Init
<1>. QED BY <1>1, StepSnapshot, Invariant, PTL
        DEF Spec, ImplementsSnapshot, Snapshot!SnapshotSpec
=============================================================================
