---------------------------- MODULE SnapshotFile ----------------------------
(***************************************************************************)
(* What a file that keeps a set of keys across restarts promises: at any   *)
(* moment it holds one whole set, the one in memory when it was last       *)
(* saved, however the process ends.                                        *)
(***************************************************************************)
CONSTANTS
    Keys,
    NoFile          \* nothing has been saved

VARIABLES
    held,           \* the set in memory
    saved           \* the set in the file

Init == held = {} /\ saved = NoFile

Change ==
    /\ held' \in SUBSET Keys
    /\ UNCHANGED saved

Save ==
    /\ saved' = held
    /\ UNCHANGED held

Restart ==
    /\ held' = {}
    /\ UNCHANGED saved

Next == Change \/ Save \/ Restart

SnapshotSpec == Init /\ [][Next]_<<held, saved>>
=============================================================================
