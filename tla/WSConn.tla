------------------------------- MODULE WSConn -------------------------------
(***************************************************************************)
(* The reconnecting websocket loop of polymarket/wsconn.go: wsLoop dials,  *)
(* runs a session and backs off; wsSession runs the hooks of its owner,    *)
(* starts a pinger and (optionally) a deadman goroutine and reads frames   *)
(* until an error; the deadman closes the connection it was started with   *)
(* when no frame has been read for Timeout ticks.                          *)
(*                                                                         *)
(* One action is one step of one goroutine between two points where        *)
(* another goroutine can observe it.  Connections are members of a finite  *)
(* set and are reused once nothing refers to them any more, so no counter  *)
(* bounds the number of reconnections.                                     *)
(***************************************************************************)
EXTENDS Naturals, Sequences

CONSTANTS
    Conns,          \* connection objects (*websocket.Conn)
    NoConn,         \* the nil connection
    Data,           \* frames that are handed to onMessage
    Pong,           \* the frame "PONG"
    NoFrame,        \* no frame is being handed over
    HasDeadman,     \* deadmanSec > 0
    HasReconnect,   \* onReconnect # nil
    Timeout,        \* deadmanSec, in ticks
    MaxInbox        \* bound: frames sent by the peer and not yet read

ASSUME ConnsAssumption == NoConn \notin Conns
ASSUME FlagsAssumption == HasDeadman \in BOOLEAN /\ HasReconnect \in BOOLEAN
ASSUME TimeoutAssumption == Timeout \in Nat \ {0}
ASSUME DataAssumption == Pong \notin Data /\ NoFrame \notin Data
ASSUME InboxAssumption == MaxInbox \in Nat

MaxBackoff == 30
Frames == Data \cup {Pong}

VARIABLES
    ctxDone,    \* the context given to Run is cancelled
    loop,       \* where the goroutine that called Run is
    cur,        \* conn of the running wsSession
    backoff,    \* seconds
    first,      \* firstConnect
    up,         \* onUp has run and onDown has not: the owner's view
    raw,        \* the frame being handed to onMessage
    open,       \* conn.Close has not been called
    peer,       \* "up", or "gone": closed by the server or lost
    inbox,      \* frames the peer has sent that ReadMessage has not returned
    inner,      \* the session's child context is not cancelled by cancel()
    pinger,     \* wsPinger: "off", "idle" in its select, "writing" a PING
    deadman,    \* wsDeadman: "off", "waiting" in its select, "firing"
    touch,      \* the one-place channel lastMsg is full
    age,        \* ticks since the deadman's timer was armed
    quiet       \* ticks since ReadMessage last returned a frame

loopVars == <<ctxDone, loop, cur, backoff, first, up, raw>>
netVars == <<open, peer, inbox>>
goVars == <<inner, pinger, deadman, touch, age, quiet>>
connVars == <<loopVars, netVars, goVars>>

LoopStates == {"top", "dial", "onConnect", "onUp", "onReconnect", "spawn",
               "check", "recv", "onMessage", "cancel", "close", "onDown",
               "backoff", "stopped"}

\* wsSession has a connection: between a successful dial and the deferred Close.
SessionStates == {"onConnect", "onUp", "onReconnect", "spawn", "check", "recv",
                  "onMessage", "cancel", "close"}

ConnInit ==
    /\ ctxDone = FALSE
    /\ loop = "top"
    /\ cur = NoConn
    /\ backoff = 1
    /\ first = TRUE
    /\ up = FALSE
    /\ raw = NoFrame
    /\ open = [c \in Conns |-> FALSE]
    /\ peer = [c \in Conns |-> "gone"]
    /\ inbox = [c \in Conns |-> <<>>]
    /\ inner = [c \in Conns |-> FALSE]
    /\ pinger = [c \in Conns |-> "off"]
    /\ deadman = [c \in Conns |-> "off"]
    /\ touch = [c \in Conns |-> FALSE]
    /\ age = [c \in Conns |-> 0]
    /\ quiet = [c \in Conns |-> 0]

-----------------------------------------------------------------------------
(* wsLoop *)

\* The caller of Run cancels its context, at any time.
CtxCancel ==
    /\ ~ctxDone
    /\ ctxDone' = TRUE
    /\ UNCHANGED <<loop, cur, backoff, first, up, raw, netVars, goVars>>

LoopTop ==
    /\ loop = "top"
    /\ loop' = IF ctxDone THEN "stopped" ELSE "dial"
    /\ UNCHANGED <<ctxDone, cur, backoff, first, up, raw, netVars, goVars>>

\* firstConnect = false, cb.onDown(), and the test of the context after it.
OnDown ==
    /\ loop = "onDown"
    /\ first' = FALSE
    /\ up' = FALSE
    /\ loop' = IF ctxDone THEN "stopped" ELSE "backoff"
    /\ UNCHANGED <<ctxDone, cur, backoff, raw, netVars, goVars>>

\* Mutant: the doubling has no cap.
DoubledUncapped == 2 * backoff
Doubled == IF 2 * backoff > MaxBackoff THEN MaxBackoff ELSE 2 * backoff

BackoffElapsed ==
    /\ loop = "backoff"
    /\ backoff' = Doubled
    /\ loop' = "top"
    /\ UNCHANGED <<ctxDone, cur, first, up, raw, netVars, goVars>>

BackoffCancelled ==
    /\ loop = "backoff"
    /\ ctxDone
    /\ loop' = "stopped"
    /\ UNCHANGED <<ctxDone, cur, backoff, first, up, raw, netVars, goVars>>

-----------------------------------------------------------------------------
(* wsSession *)

\* No goroutine refers to c any more: its object may stand for a new one.
Free(c) == c # cur /\ ~open[c] /\ pinger[c] = "off" /\ deadman[c] = "off"

\* A cancel that comes too late does not stop a dial that has succeeded.
DialOk(c) ==
    /\ loop = "dial"
    /\ Free(c)
    /\ cur' = c
    /\ open' = [open EXCEPT ![c] = TRUE]
    /\ peer' = [peer EXCEPT ![c] = "up"]
    /\ loop' = "onConnect"
    /\ UNCHANGED <<ctxDone, backoff, first, up, raw, inbox, goVars>>

DialErr ==
    /\ loop = "dial"
    /\ loop' = "onDown"
    /\ UNCHANGED <<ctxDone, cur, backoff, first, up, raw, netVars, goVars>>

OnConnectOk ==
    /\ loop = "onConnect"
    /\ backoff' = 1
    /\ loop' = "onUp"
    /\ UNCHANGED <<ctxDone, cur, first, up, raw, netVars, goVars>>

\* Mutant: the connection is not closed when the hook fails.
OnConnectErrLeaks ==
    /\ loop = "onConnect"
    /\ peer[cur] = "gone"
    /\ loop' = "onDown"
    /\ UNCHANGED <<ctxDone, cur, backoff, first, up, raw, netVars, goVars>>

\* A write of the subscription fails; only the deferred Close is pending.
OnConnectErr ==
    /\ loop = "onConnect"
    /\ peer[cur] = "gone"
    /\ loop' = "close"
    /\ UNCHANGED <<ctxDone, cur, backoff, first, up, raw, netVars, goVars>>

OnUp ==
    /\ loop = "onUp"
    /\ up' = TRUE
    /\ loop' = IF ~first /\ HasReconnect THEN "onReconnect" ELSE "spawn"
    /\ UNCHANGED <<ctxDone, cur, backoff, first, raw, netVars, goVars>>

OnReconnect ==
    /\ loop = "onReconnect"
    /\ loop' = "spawn"
    /\ UNCHANGED <<ctxDone, cur, backoff, first, up, raw, netVars, goVars>>

\* The child context and the session's goroutines.
Spawn ==
    /\ loop = "spawn"
    /\ inner' = [inner EXCEPT ![cur] = TRUE]
    /\ pinger' = [pinger EXCEPT ![cur] = "idle"]
    /\ deadman' = [deadman EXCEPT ![cur] = IF HasDeadman THEN "waiting" ELSE "off"]
    /\ touch' = [touch EXCEPT ![cur] = FALSE]
    /\ age' = [age EXCEPT ![cur] = 0]
    /\ quiet' = [quiet EXCEPT ![cur] = 0]
    /\ loop' = "check"
    /\ UNCHANGED <<ctxDone, cur, backoff, first, up, raw, netVars>>

\* Mutant: no defer cancel().
CancelForgotten ==
    /\ loop = "cancel"
    /\ loop' = "close"
    /\ UNCHANGED <<ctxDone, cur, backoff, first, up, raw, netVars, goVars>>

\* The deferred cancel() runs before the deferred conn.Close().
CancelInner ==
    /\ loop = "cancel"
    /\ inner' = [inner EXCEPT ![cur] = FALSE]
    /\ loop' = "close"
    /\ UNCHANGED <<ctxDone, cur, backoff, first, up, raw, netVars,
                   pinger, deadman, touch, age, quiet>>

\* Frames that were not read are lost with the connection.
CloseConn ==
    /\ loop = "close"
    /\ open' = [open EXCEPT ![cur] = FALSE]
    /\ peer' = [peer EXCEPT ![cur] = "gone"]
    /\ inbox' = [inbox EXCEPT ![cur] = <<>>]
    /\ cur' = NoConn
    /\ loop' = "onDown"
    /\ UNCHANGED <<ctxDone, backoff, first, up, raw, goVars>>

-----------------------------------------------------------------------------
(* wsReadLoop *)

\* Mutant: the loop reads on without looking at its context.
ReadUnchecked ==
    /\ loop = "check"
    /\ loop' = "recv"
    /\ UNCHANGED <<ctxDone, cur, backoff, first, up, raw, netVars, goVars>>

ReadCheck ==
    /\ loop = "check"
    /\ loop' = IF ctxDone THEN "cancel" ELSE "recv"
    /\ UNCHANGED <<ctxDone, cur, backoff, first, up, raw, netVars, goVars>>

\* What lastMsg holds after frame f has been read: every frame counts.
TouchByData(f) == HasDeadman /\ f # Pong
TouchBy(f) == HasDeadman

\* A PONG goes no further; everything else is handed to onMessage.
HandedUnlessBusy(f) == f # Pong /\ ~touch[cur]
Handed(f) == f # Pong

\* ReadMessage returns a frame, after a Close too when it is buffered.
ReadFrame ==
    /\ loop = "recv"
    /\ inbox[cur] # <<>>
    /\ LET f == Head(inbox[cur]) IN
        /\ touch' = [touch EXCEPT ![cur] = @ \/ TouchBy(f)]
        /\ raw' = IF Handed(f) THEN f ELSE raw
        /\ loop' = IF Handed(f) THEN "onMessage" ELSE "check"
    /\ inbox' = [inbox EXCEPT ![cur] = Tail(@)]
    /\ quiet' = [quiet EXCEPT ![cur] = 0]
    /\ UNCHANGED <<ctxDone, cur, backoff, first, up, open, peer,
                   inner, pinger, deadman, age>>

\* ReadMessage fails: the context plays no part in it.
ReadErr ==
    /\ loop = "recv"
    /\ ~open[cur] \/ peer[cur] = "gone"
    /\ loop' = "cancel"
    /\ UNCHANGED <<ctxDone, cur, backoff, first, up, raw, netVars, goVars>>

OnMessage ==
    /\ loop = "onMessage"
    /\ raw' = NoFrame
    /\ loop' = "check"
    /\ UNCHANGED <<ctxDone, cur, backoff, first, up, netVars, goVars>>

-----------------------------------------------------------------------------
(* wsPinger and wsDeadman: a select takes any of its ready branches *)

InnerDone(c) == ctxDone \/ ~inner[c]

PingStart(c) ==
    /\ pinger[c] = "idle"
    /\ pinger' = [pinger EXCEPT ![c] = "writing"]
    /\ UNCHANGED <<loopVars, netVars, inner, deadman, touch, age, quiet>>

\* The error of the write is ignored.
PingEnd(c) ==
    /\ pinger[c] = "writing"
    /\ pinger' = [pinger EXCEPT ![c] = "idle"]
    /\ UNCHANGED <<loopVars, netVars, inner, deadman, touch, age, quiet>>

PingExit(c) ==
    /\ pinger[c] = "idle"
    /\ InnerDone(c)
    /\ pinger' = [pinger EXCEPT ![c] = "off"]
    /\ UNCHANGED <<loopVars, netVars, inner, deadman, touch, age, quiet>>

\* Stop, drain and Reset of the timer.
DeadmanTouch(c) ==
    /\ deadman[c] = "waiting"
    /\ touch[c]
    /\ touch' = [touch EXCEPT ![c] = FALSE]
    /\ age' = [age EXCEPT ![c] = 0]
    /\ UNCHANGED <<loopVars, netVars, inner, pinger, deadman, quiet>>

DeadmanFire(c) ==
    /\ deadman[c] = "waiting"
    /\ age[c] = Timeout
    /\ deadman' = [deadman EXCEPT ![c] = "firing"]
    /\ UNCHANGED <<loopVars, netVars, inner, pinger, touch, age, quiet>>

\* wsDeadman returns; its timer is stopped.
DeadmanOff(c) ==
    /\ deadman' = [deadman EXCEPT ![c] = "off"]
    /\ age' = [age EXCEPT ![c] = 0]
    /\ quiet' = [quiet EXCEPT ![c] = 0]

\* Mutants: the deadman closes the connection of the day, or only warns.
DeadmanClosesCurrent(c) ==
    /\ deadman[c] = "firing"
    /\ DeadmanOff(c)
    /\ open' = [d \in Conns |-> open[d] /\ d # cur]
    /\ UNCHANGED <<loopVars, peer, inbox, inner, pinger, touch>>

DeadmanWarns(c) ==
    /\ deadman[c] = "firing"
    /\ DeadmanOff(c)
    /\ UNCHANGED <<loopVars, netVars, inner, pinger, touch>>

DeadmanClose(c) ==
    /\ deadman[c] = "firing"
    /\ DeadmanOff(c)
    /\ open' = [open EXCEPT ![c] = FALSE]
    /\ UNCHANGED <<loopVars, peer, inbox, inner, pinger, touch>>

DeadmanExit(c) ==
    /\ deadman[c] = "waiting"
    /\ InnerDone(c)
    /\ DeadmanOff(c)
    /\ UNCHANGED <<loopVars, netVars, inner, pinger, touch>>

\* One tick of the clock; the timers stop counting once they have expired.
Sooner(n) == IF n < Timeout THEN n + 1 ELSE Timeout

Tick ==
    /\ \E c \in Conns : deadman[c] = "waiting" /\ (age[c] < Timeout \/ quiet[c] < Timeout)
    /\ age' = [c \in Conns |-> IF deadman[c] = "waiting" THEN Sooner(age[c]) ELSE age[c]]
    /\ quiet' = [c \in Conns |-> IF deadman[c] = "waiting" THEN Sooner(quiet[c]) ELSE quiet[c]]
    /\ UNCHANGED <<loopVars, netVars, inner, pinger, deadman, touch>>

-----------------------------------------------------------------------------
(* The server and the network *)

PeerSend(c, f) ==
    /\ open[c]
    /\ peer[c] = "up"
    /\ Len(inbox[c]) < MaxInbox
    /\ inbox' = [inbox EXCEPT ![c] = Append(@, f)]
    /\ UNCHANGED <<loopVars, open, peer, goVars>>

PeerGone(c) ==
    /\ peer[c] = "up"
    /\ peer' = [peer EXCEPT ![c] = "gone"]
    /\ UNCHANGED <<loopVars, open, inbox, goVars>>

-----------------------------------------------------------------------------
\* The steps of the goroutine in Run whose hooks change nothing but this state.
LoopPlain ==
    \/ LoopTop \/ BackoffElapsed \/ BackoffCancelled \/ DialErr
    \/ Spawn \/ CancelInner \/ CloseConn
    \/ ReadCheck \/ ReadFrame \/ ReadErr

LoopHooks ==
    \/ OnConnectOk \/ OnConnectErr \/ OnUp \/ OnReconnect \/ OnMessage \/ OnDown

PingerStep(c) == PingStart(c) \/ PingEnd(c) \/ PingExit(c)
DeadmanStep(c) == DeadmanTouch(c) \/ DeadmanFire(c) \/ DeadmanClose(c) \/ DeadmanExit(c)
PeerStep(c) == PeerGone(c) \/ \E f \in Frames : PeerSend(c, f)

ConnNext ==
    \/ CtxCancel
    \/ LoopPlain
    \/ LoopHooks
    \/ \E c \in Conns : DialOk(c) \/ PingerStep(c) \/ DeadmanStep(c) \/ PeerStep(c)
    \/ Tick

ConnSpec == ConnInit /\ [][ConnNext]_connVars

\* The Go scheduler runs every runnable goroutine, the clock advances, a dial
\* returns (the dialer has a handshake timeout) and the hooks return.  A PING
\* that has begun ends, and a pinger whose context is cancelled leaves its
\* select although a tick of its ticker may win once.  Nothing is assumed of
\* the peer or of the caller that cancels.
ConnFairness ==
    /\ WF_connVars(LoopPlain \/ LoopHooks \/ \E c \in Conns : DialOk(c))
    /\ WF_connVars(Tick)
    /\ \A c \in Conns :
        /\ WF_connVars(PingEnd(c))
        /\ SF_connVars(PingExit(c))
        /\ WF_connVars(DeadmanStep(c))

FairConnSpec == ConnSpec /\ ConnFairness

-----------------------------------------------------------------------------
(* Properties *)

\* Every variable of the loop stays within its type; the backoff within its cap.
ConnTypeOK ==
    /\ ctxDone \in BOOLEAN
    /\ loop \in LoopStates
    /\ cur \in Conns \cup {NoConn}
    /\ backoff \in 1..MaxBackoff
    /\ first \in BOOLEAN
    /\ up \in BOOLEAN
    /\ raw \in Data \cup {NoFrame}
    /\ open \in [Conns -> BOOLEAN]
    /\ peer \in [Conns -> {"up", "gone"}]
    /\ inbox \in [Conns -> Seq(Frames)]
    /\ inner \in [Conns -> BOOLEAN]
    /\ pinger \in [Conns -> {"off", "idle", "writing"}]
    /\ deadman \in [Conns -> {"off", "waiting", "firing"}]
    /\ touch \in [Conns -> BOOLEAN]
    /\ age \in [Conns -> 0..Timeout]
    /\ quiet \in [Conns -> 0..Timeout]

\* No socket outlives its session: what is open is the running session's
\* connection, on every path out of wsSession.
NoSocketLeak == \A c \in Conns : open[c] => c = cur /\ loop \in SessionStates

\* The one-place channel with its dropped sends loses no sign of life: the
\* deadman gives up on a connection only after Timeout ticks without a frame,
\* or when a frame came in the very moment its timer expired (the select of
\* wsDeadman may then take either branch).
KillsOnlySilent ==
    [][\A c \in Conns : deadman[c] = "waiting" /\ deadman'[c] = "firing"
            => quiet[c] = Timeout \/ touch[c]]_connVars

\* A deadman or pinger left over from an earlier session never ends a later
\* one: a connection is closed by the session's own return or its own deadman.
OwnDeadmanOnly ==
    [][\A c \in Conns : open[c] /\ ~open'[c]
            => loop = "close" \/ deadman[c] = "firing"]_connVars

\* A session blocked in ReadMessage on a silent peer does not stay blocked
\* (with a deadman, and until the context is cancelled).
SilenceDetected == HasDeadman => (loop = "recv" ~> (loop # "recv" \/ ctxDone))

\* After a cancel Run returns, or stays in one ReadMessage that nothing
\* interrupts: wsReadLoop tests its context between frames only, and the
\* deadman has left with the context.
CancelStops == ctxDone ~> [](loop \in {"stopped", "recv"})

\* The goroutines of a session that is over end, so reconnecting for ever
\* does not collect them.
GoroutinesEnd == \A c \in Conns : c # cur ~> (pinger[c] = "off" /\ deadman[c] = "off")

\* The loop implements FeedView: frames reach the owner in order and without
\* gaps, only between its onUp and its onDown, whatever the goroutines do.
Phase == IF ~up THEN "down" ELSE IF cur = NoConn THEN "over" ELSE "up"
Pending == IF cur = NoConn THEN <<>> ELSE inbox[cur]
Feed == INSTANCE FeedView WITH
    phase <- Phase, pending <- Pending, handling <- raw, Noise <- {Pong}
ImplementsFeed == Feed!FeedSpec
=============================================================================
