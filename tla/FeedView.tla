------------------------------ MODULE FeedView ------------------------------
(***************************************************************************)
(* What the websocket loop promises the code that uses it, with no         *)
(* connections, goroutines or timers.  The owner is told of a session, is  *)
(* handed the frames of that session one at a time and in order, none but  *)
(* keepalives left out, and is told that it is over.  A session may be     *)
(* over at any moment: then the frames that still wait are lost together,  *)
(* and nothing is handed over before the next session.                     *)
(***************************************************************************)
EXTENDS Sequences

CONSTANTS
    Data,           \* frames for the owner
    Noise,          \* frames that only keep the session alive
    NoFrame         \* the owner is not handling a frame

VARIABLES
    phase,          \* "down", "up", or "over": ended, the owner not yet told
    pending,        \* frames of the session that wait
    handling        \* the frame the owner is handling

Init == phase = "down" /\ pending = <<>> /\ handling = NoFrame

Send ==
    /\ phase # "over"
    /\ \E f \in Data \cup Noise : pending' = Append(pending, f)
    /\ UNCHANGED <<phase, handling>>

TellUp ==
    /\ phase = "down"
    /\ phase' = "up"
    /\ UNCHANGED <<pending, handling>>

Take ==
    /\ phase = "up"
    /\ handling = NoFrame
    /\ pending # <<>> /\ Head(pending) \in Data
    /\ handling' = Head(pending)
    /\ pending' = Tail(pending)
    /\ UNCHANGED phase

Skip ==
    /\ phase = "up"
    /\ handling = NoFrame
    /\ pending # <<>> /\ Head(pending) \in Noise
    /\ pending' = Tail(pending)
    /\ UNCHANGED <<phase, handling>>

Handle ==
    /\ phase = "up"
    /\ handling' = NoFrame
    /\ UNCHANGED <<phase, pending>>

\* The session ends between two frames, or before the owner was told of it.
SessionEnds ==
    /\ phase # "over"
    /\ handling = NoFrame
    /\ phase' = IF phase = "up" THEN "over" ELSE "down"
    /\ pending' = <<>>
    /\ UNCHANGED handling

TellDown ==
    /\ phase = "over"
    /\ phase' = "down"
    /\ UNCHANGED <<pending, handling>>

Next == Send \/ TellUp \/ Take \/ Skip \/ Handle \/ SessionEnds \/ TellDown

FeedSpec == Init /\ [][Next]_<<phase, pending, handling>>
=============================================================================
