---------------------------- MODULE WSConnProofs ----------------------------
(***************************************************************************)
(* Theorems about WSConn for any set of connections, any timeout and any   *)
(* frames: the inductive invariant ConnIInv, and what follows from it.     *)
(***************************************************************************)
EXTENDS WSConn, SequenceTheorems, TLAPS

\* A connection is current exactly while wsSession has one.
CurInSession == loop \in SessionStates <=> cur \in Conns

\* The session's goroutines do not run before Spawn, nor does anything
\* older hold the connection a dial returned.
NotYetSpawned ==
    loop \in {"onConnect", "onUp", "onReconnect", "spawn"}
        => pinger[cur] = "off" /\ deadman[cur] = "off"

\* A timer that no touch is about to re-arm has not run longer than the
\* connection has been silent.
NoLostTouch ==
    \A c \in Conns : deadman[c] = "waiting" /\ ~touch[c] => age[c] <= quiet[c]

\* Only a configured deadman runs.
DeadmanConfigured == \A c \in Conns : deadman[c] # "off" => HasDeadman

ConnIInv ==
    /\ ConnTypeOK
    /\ CurInSession
    /\ NoSocketLeak
    /\ NotYetSpawned
    /\ NoLostTouch
    /\ DeadmanConfigured

USE ConnsAssumption, FlagsAssumption, TimeoutAssumption, DataAssumption

\* Run starts in a state of the inductive invariant.
LEMMA ConnInitIInv == ConnInit => ConnIInv
<1>. SUFFICES ASSUME ConnInit PROVE ConnIInv
    OBVIOUS
<1>. USE DEF ConnInit
<1>1. ConnTypeOK
    <2>1. inbox \in [Conns -> Seq(Frames)]
        BY EmptySeq
    <2>2. age \in [Conns -> 0..Timeout] /\ quiet \in [Conns -> 0..Timeout]
        OBVIOUS
    <2>3. backoff \in 1..MaxBackoff
        BY DEF MaxBackoff
    <2>4. loop \in LoopStates
        BY DEF LoopStates
    <2>. QED BY <2>1, <2>2, <2>3, <2>4 DEF ConnTypeOK
<1>2. CurInSession BY DEF CurInSession, SessionStates
<1>3. NoSocketLeak BY DEF NoSocketLeak
<1>4. NotYetSpawned BY DEF NotYetSpawned
<1>5. NoLostTouch BY DEF NoLostTouch
<1>6. DeadmanConfigured BY DEF DeadmanConfigured
<1>. QED BY <1>1, <1>2, <1>3, <1>4, <1>5, <1>6 DEF ConnIInv

\* The goroutine in Run keeps the types: dialling, hooks, reading, backoff.
LEMMA LoopTypes ==
    ASSUME ConnTypeOK, CurInSession, LoopPlain \/ LoopHooks
    PROVE  ConnTypeOK'
<1>. USE DEF ConnTypeOK, CurInSession, LoopStates, SessionStates, MaxBackoff, Frames,
        netVars, goVars
<1>1. CASE LoopTop BY <1>1 DEF LoopTop
<1>2. CASE BackoffElapsed BY <1>2 DEF BackoffElapsed, Doubled
<1>3. CASE BackoffCancelled BY <1>3 DEF BackoffCancelled
<1>4. CASE DialErr BY <1>4 DEF DialErr
<1>5. CASE Spawn BY <1>5 DEF Spawn
<1>6. CASE CancelInner BY <1>6 DEF CancelInner
<1>7. CASE CloseConn BY <1>7 DEF CloseConn
<1>8. CASE ReadCheck BY <1>8 DEF ReadCheck
<1>9. CASE ReadFrame BY <1>9 DEF ReadFrame, TouchBy, Handed
<1>10. CASE ReadErr BY <1>10 DEF ReadErr
<1>11. CASE OnConnectOk BY <1>11 DEF OnConnectOk
<1>12. CASE OnConnectErr BY <1>12 DEF OnConnectErr
<1>13. CASE OnUp BY <1>13 DEF OnUp
<1>14. CASE OnReconnect BY <1>14 DEF OnReconnect
<1>15. CASE OnMessage BY <1>15 DEF OnMessage
<1>16. CASE OnDown BY <1>16 DEF OnDown
<1>. QED BY <1>1, <1>2, <1>3, <1>4, <1>5, <1>6, <1>7, <1>8, <1>9, <1>10, <1>11,
            <1>12, <1>13, <1>14, <1>15, <1>16 DEF LoopPlain, LoopHooks

\* A tick moves a timer within its range and keeps the order of two timers.
LEMMA SoonerBounds ==
    ASSUME NEW m \in 0..Timeout, NEW n \in 0..Timeout
    PROVE  /\ Sooner(m) \in 0..Timeout
           /\ m <= n => Sooner(m) <= Sooner(n)
BY DEF Sooner

\* The steps of the other goroutines, of the peer, the clock and the caller.
LEMMA ConnTypes ==
    ASSUME ConnTypeOK,
           \/ CtxCancel \/ Tick
           \/ \E c \in Conns : DialOk(c) \/ PingerStep(c) \/ DeadmanStep(c) \/ PeerStep(c)
    PROVE  ConnTypeOK'
<1>. USE DEF ConnTypeOK, loopVars, netVars, goVars
<1>1. CASE CtxCancel BY <1>1 DEF CtxCancel
<1>2. CASE Tick
    <2>1. age' \in [Conns -> 0..Timeout] /\ quiet' \in [Conns -> 0..Timeout]
        BY <1>2, SoonerBounds DEF Tick
    <2>. QED BY <1>2, <2>1 DEF Tick
<1>3. ASSUME NEW c \in Conns, DialOk(c) PROVE ConnTypeOK'
    BY <1>3 DEF DialOk, LoopStates
<1>4. ASSUME NEW c \in Conns, PingerStep(c) PROVE ConnTypeOK'
    BY <1>4 DEF PingerStep, PingStart, PingEnd, PingExit
<1>5. ASSUME NEW c \in Conns, DeadmanStep(c) PROVE ConnTypeOK'
    <2>1. CASE DeadmanTouch(c) BY <2>1 DEF DeadmanTouch
    <2>2. CASE DeadmanFire(c) BY <2>2 DEF DeadmanFire
    <2>3. CASE DeadmanClose(c) BY <2>3 DEF DeadmanClose, DeadmanOff
    <2>4. CASE DeadmanExit(c) BY <2>4 DEF DeadmanExit, DeadmanOff
    <2>. QED BY <1>5, <2>1, <2>2, <2>3, <2>4 DEF DeadmanStep
<1>6. ASSUME NEW c \in Conns, PeerGone(c) PROVE ConnTypeOK'
    BY <1>6 DEF PeerGone
<1>7. ASSUME NEW c \in Conns, NEW f \in Frames, PeerSend(c, f) PROVE ConnTypeOK'
    <2>1. Append(inbox[c], f) \in Seq(Frames)
        BY AppendProperties
    <2>. QED BY <1>7, <2>1 DEF PeerSend
<1>. QED BY <1>1, <1>2, <1>3, <1>4, <1>5, <1>6, <1>7 DEF PeerStep

\* No step of the loop, of a goroutine or of the peer leaves the types.
LEMMA ConnTypeStep == ConnTypeOK /\ CurInSession /\ [ConnNext]_connVars => ConnTypeOK'
<1>. SUFFICES ASSUME ConnTypeOK, CurInSession, [ConnNext]_connVars PROVE ConnTypeOK'
    OBVIOUS
<1>1. CASE UNCHANGED connVars
    BY <1>1 DEF ConnTypeOK, connVars, loopVars, netVars, goVars
<1>. QED BY <1>1, LoopTypes, ConnTypes DEF ConnNext

-----------------------------------------------------------------------------
\* The conjuncts of ConnIInv other than the type, by the goroutine that moves.
ConnRest ==
    CurInSession /\ NoSocketLeak /\ NotYetSpawned /\ NoLostTouch /\ DeadmanConfigured

\* The goroutine in Run keeps the other conjuncts of the invariant.
LEMMA LoopRest ==
    ASSUME ConnIInv, LoopPlain \/ LoopHooks
    PROVE  ConnRest'
<1>. USE DEF ConnIInv, ConnRest, ConnTypeOK, CurInSession, NoSocketLeak, NotYetSpawned,
        NoLostTouch, DeadmanConfigured, SessionStates, netVars, goVars
<1>1. CASE LoopTop BY <1>1 DEF LoopTop
<1>2. CASE BackoffElapsed BY <1>2 DEF BackoffElapsed
<1>3. CASE BackoffCancelled BY <1>3 DEF BackoffCancelled
<1>4. CASE DialErr BY <1>4 DEF DialErr
<1>5. CASE Spawn BY <1>5 DEF Spawn
<1>6. CASE CancelInner BY <1>6 DEF CancelInner
<1>7. CASE CloseConn BY <1>7 DEF CloseConn
<1>8. CASE ReadCheck BY <1>8 DEF ReadCheck
<1>9. CASE ReadFrame BY <1>9 DEF ReadFrame, TouchBy, Handed
<1>10. CASE ReadErr BY <1>10 DEF ReadErr
<1>11. CASE OnConnectOk BY <1>11 DEF OnConnectOk
<1>12. CASE OnConnectErr BY <1>12 DEF OnConnectErr
<1>13. CASE OnUp BY <1>13 DEF OnUp
<1>14. CASE OnReconnect BY <1>14 DEF OnReconnect
<1>15. CASE OnMessage BY <1>15 DEF OnMessage
<1>16. CASE OnDown BY <1>16 DEF OnDown
<1>. QED BY <1>1, <1>2, <1>3, <1>4, <1>5, <1>6, <1>7, <1>8, <1>9, <1>10, <1>11,
            <1>12, <1>13, <1>14, <1>15, <1>16 DEF LoopPlain, LoopHooks

\* So do the pinger, the deadman, the peer, the clock and a cancel.
LEMMA ConnsRest ==
    ASSUME ConnIInv,
           \/ CtxCancel \/ Tick
           \/ \E c \in Conns : DialOk(c) \/ PingerStep(c) \/ DeadmanStep(c) \/ PeerStep(c)
    PROVE  ConnRest'
<1>. USE DEF ConnIInv, ConnRest, ConnTypeOK, CurInSession, NoSocketLeak, NotYetSpawned,
        NoLostTouch, DeadmanConfigured, SessionStates, loopVars, netVars, goVars
<1>1. CASE CtxCancel BY <1>1 DEF CtxCancel
<1>2. CASE Tick
    <2>1. NoLostTouch'
        <3>. SUFFICES ASSUME NEW c \in Conns, deadman[c] = "waiting", ~touch[c]
                      PROVE  age'[c] <= quiet'[c]
            BY <1>2 DEF Tick
        <3>1. age'[c] = Sooner(age[c]) /\ quiet'[c] = Sooner(quiet[c])
            BY <1>2 DEF Tick
        <3>. QED BY <3>1, SoonerBounds
    <2>. QED BY <1>2, <2>1 DEF Tick
<1>3. ASSUME NEW c \in Conns, DialOk(c) PROVE ConnRest'
    BY <1>3 DEF DialOk, Free
<1>4. ASSUME NEW c \in Conns, PingerStep(c) PROVE ConnRest'
    BY <1>4 DEF PingerStep, PingStart, PingEnd, PingExit
<1>5. ASSUME NEW c \in Conns, DeadmanTouch(c) PROVE ConnRest'
    BY <1>5 DEF DeadmanTouch
<1>6. ASSUME NEW c \in Conns, DeadmanFire(c) PROVE ConnRest'
    BY <1>6 DEF DeadmanFire
<1>7. ASSUME NEW c \in Conns, DeadmanClose(c) PROVE ConnRest'
    BY <1>7 DEF DeadmanClose, DeadmanOff
<1>9. ASSUME NEW c \in Conns, DeadmanExit(c) PROVE ConnRest'
    BY <1>9 DEF DeadmanExit, DeadmanOff
<1>8. ASSUME NEW c \in Conns, PeerStep(c) PROVE ConnRest'
    BY <1>8 DEF PeerStep, PeerGone, PeerSend
<1>. QED BY <1>1, <1>2, <1>3, <1>4, <1>5, <1>6, <1>7, <1>8, <1>9 DEF DeadmanStep

\* Every step of wsLoop and of its goroutines keeps the invariant.
LEMMA ConnIInvStep == ConnIInv /\ [ConnNext]_connVars => ConnIInv'
<1>. SUFFICES ASSUME ConnIInv, [ConnNext]_connVars PROVE ConnIInv'
    OBVIOUS
<1>1. ConnTypeOK'
    BY ConnTypeStep DEF ConnIInv
<1>2. CASE UNCHANGED connVars
    BY <1>2 DEF ConnIInv, ConnTypeOK, CurInSession, NoSocketLeak, NotYetSpawned,
        NoLostTouch, DeadmanConfigured, connVars, loopVars, netVars, goVars
<1>. QED BY <1>1, <1>2, LoopRest, ConnsRest DEF ConnNext, ConnRest, ConnIInv

-----------------------------------------------------------------------------
\* The inductive invariant holds in every behaviour of wsLoop.
THEOREM ConnInvariant == ConnSpec => []ConnIInv
BY ConnInitIInv, ConnIInvStep, PTL DEF ConnSpec

\* Every variable of the loop keeps its type in every behaviour of wsLoop.
THEOREM ConnTypeCorrect == ConnSpec => []ConnTypeOK
<1>1. ConnIInv => ConnTypeOK
    BY DEF ConnIInv
<1>. QED BY <1>1, ConnInvariant, PTL

\* No path out of wsSession, and no reconnection, leaves a socket open.
THEOREM SocketsClosed == ConnSpec => []NoSocketLeak
<1>1. ConnIInv => NoSocketLeak
    BY DEF ConnIInv
<1>. QED BY <1>1, ConnInvariant, PTL

\* The deadman of wsDeadman fires after Timeout ticks of silence, or in the
\* race of a frame with its expired timer.
THEOREM SilenceKills == ConnSpec => KillsOnlySilent
<1>. DEFINE Kill(c) == deadman[c] = "waiting" /\ deadman'[c] = "firing"
                        => quiet[c] = Timeout \/ touch[c]
<1>1. ASSUME ConnIInv, ConnNext, NEW c \in Conns PROVE Kill(c)
    <2>. SUFFICES ASSUME deadman[c] = "waiting", deadman'[c] = "firing", ~touch[c]
                  PROVE  quiet[c] = Timeout
        OBVIOUS
    <2>1. age[c] = Timeout
        BY <1>1 DEF ConnIInv, ConnTypeOK, ConnNext, LoopPlain, LoopHooks, goVars, LoopTop,
            BackoffElapsed, BackoffCancelled, DialErr, Spawn, CancelInner, CloseConn,
            ReadCheck, ReadFrame, ReadErr, OnConnectOk, OnConnectErr, OnUp, OnReconnect,
            OnMessage, OnDown, CtxCancel, Tick, DialOk, PingerStep, PingStart, PingEnd,
            PingExit, DeadmanStep, DeadmanTouch, DeadmanFire, DeadmanClose, DeadmanExit,
            DeadmanOff, PeerStep, PeerGone, PeerSend
    <2>. QED BY <1>1, <2>1 DEF ConnIInv, ConnTypeOK, NoLostTouch
<1>2. ConnIInv /\ [ConnNext]_connVars => [\A c \in Conns : Kill(c)]_connVars
    BY <1>1
<1>. QED BY <1>2, ConnInvariant, PTL DEF ConnSpec, KillsOnlySilent

\* A connection is closed by its own session or its own deadman, never by the
\* goroutines of another session.
THEOREM ClosedByItsOwn == ConnSpec => OwnDeadmanOnly
<1>. DEFINE Closed(c) == open[c] /\ ~open'[c] => loop = "close" \/ deadman[c] = "firing"
<1>1. ASSUME ConnIInv, ConnNext, NEW c \in Conns PROVE Closed(c)
    BY <1>1 DEF ConnIInv, ConnTypeOK, ConnNext, LoopPlain, LoopHooks, netVars, LoopTop,
        BackoffElapsed, BackoffCancelled, DialErr, Spawn, CancelInner, CloseConn,
        ReadCheck, ReadFrame, ReadErr, OnConnectOk, OnConnectErr, OnUp, OnReconnect,
        OnMessage, OnDown, CtxCancel, Tick, DialOk, PingerStep, PingStart, PingEnd,
        PingExit, DeadmanStep, DeadmanTouch, DeadmanFire, DeadmanClose, DeadmanExit,
        PeerStep, PeerGone, PeerSend
<1>2. ConnIInv /\ [ConnNext]_connVars => [\A c \in Conns : Closed(c)]_connVars
    BY <1>1
<1>. QED BY <1>2, ConnInvariant, PTL DEF ConnSpec, OwnDeadmanOnly

-----------------------------------------------------------------------------
(* The loop implements FeedView *)

\* The owner's view of the session follows the loop; the deferred Close and
\* onDown are reached with and without a session that was up.
UpWithSession ==
    /\ loop \in {"onReconnect", "spawn", "check", "recv", "onMessage", "cancel"} => up
    /\ loop \in {"top", "dial", "backoff", "stopped", "onConnect", "onUp"} => ~up

\* A frame is with the owner exactly while onMessage runs.
FrameInHand == raw # NoFrame <=> loop = "onMessage"

\* What the peer has sent waits at the session's connection and nowhere else: a
\* connection that is dialled starts with no frames of an earlier session.
InboxOfSession == \A c \in Conns : c # cur => inbox[c] = <<>>

FeedInv == UpWithSession /\ FrameInHand /\ InboxOfSession

\* Run starts in a state of FeedInv.
LEMMA ConnInitFeed == ConnInit => FeedInv
BY DEF ConnInit, FeedInv, UpWithSession, FrameInHand, InboxOfSession

\* The goroutine in Run keeps FeedInv.
LEMMA LoopFeed ==
    ASSUME ConnIInv, FeedInv, LoopPlain \/ LoopHooks
    PROVE  FeedInv'
<1>. USE DEF ConnIInv, ConnTypeOK, FeedInv, UpWithSession, FrameInHand, InboxOfSession,
        CurInSession, SessionStates, netVars, goVars
<1>1. CASE LoopTop BY <1>1 DEF LoopTop
<1>2. CASE BackoffElapsed BY <1>2 DEF BackoffElapsed
<1>3. CASE BackoffCancelled BY <1>3 DEF BackoffCancelled
<1>4. CASE DialErr BY <1>4 DEF DialErr
<1>5. CASE Spawn BY <1>5 DEF Spawn
<1>6. CASE CancelInner BY <1>6 DEF CancelInner
<1>7. CASE CloseConn BY <1>7 DEF CloseConn
<1>8. CASE ReadCheck BY <1>8 DEF ReadCheck
<1>9. CASE ReadFrame
    <2>1. Head(inbox[cur]) \in Frames
        BY <1>9 DEF ReadFrame
    <2>. QED BY <1>9, <2>1 DEF ReadFrame, Handed, Frames
<1>10. CASE ReadErr BY <1>10 DEF ReadErr
<1>11. CASE OnConnectOk BY <1>11 DEF OnConnectOk
<1>12. CASE OnConnectErr BY <1>12 DEF OnConnectErr
<1>13. CASE OnUp BY <1>13 DEF OnUp
<1>14. CASE OnReconnect BY <1>14 DEF OnReconnect
<1>15. CASE OnMessage BY <1>15 DEF OnMessage
<1>16. CASE OnDown BY <1>16 DEF OnDown
<1>. QED BY <1>1, <1>2, <1>3, <1>4, <1>5, <1>6, <1>7, <1>8, <1>9, <1>10, <1>11,
            <1>12, <1>13, <1>14, <1>15, <1>16 DEF LoopPlain, LoopHooks

\* So does every other step: a peer sends on an open connection only.
LEMMA FeedInvStep == ConnIInv /\ FeedInv /\ [ConnNext]_connVars => FeedInv'
<1>. SUFFICES ASSUME ConnIInv, FeedInv, [ConnNext]_connVars PROVE FeedInv'
    OBVIOUS
<1>. USE DEF ConnIInv, ConnTypeOK, NoSocketLeak, FeedInv, UpWithSession, FrameInHand,
        InboxOfSession, loopVars, netVars, goVars
<1>1. CASE CtxCancel BY <1>1 DEF CtxCancel
<1>2. CASE Tick BY <1>2 DEF Tick
<1>3. ASSUME NEW c \in Conns, DialOk(c) PROVE FeedInv'
    BY <1>3, ConnsAssumption DEF DialOk, CurInSession, SessionStates
<1>4. ASSUME NEW c \in Conns, PingerStep(c) PROVE FeedInv'
    BY <1>4 DEF PingerStep, PingStart, PingEnd, PingExit
<1>5. ASSUME NEW c \in Conns, DeadmanStep(c) PROVE FeedInv'
    BY <1>5 DEF DeadmanStep, DeadmanTouch, DeadmanFire, DeadmanClose, DeadmanExit, DeadmanOff
<1>6. ASSUME NEW c \in Conns, PeerStep(c) PROVE FeedInv'
    BY <1>6 DEF PeerStep, PeerGone, PeerSend
<1>7. CASE UNCHANGED connVars
    BY <1>7 DEF connVars
<1>. QED BY <1>1, <1>2, <1>3, <1>4, <1>5, <1>6, <1>7, LoopFeed DEF ConnNext

\* A step of the goroutine in Run is a step of FeedView or none: OnUp tells the
\* owner, ReadFrame takes or skips a frame, CloseConn ends the session.
LEMMA LoopFeedStep ==
    ASSUME ConnIInv, FeedInv, LoopPlain \/ LoopHooks
    PROVE  [Feed!Next]_<<Phase, Pending, raw>>
<1>. USE DEF ConnIInv, ConnTypeOK, FeedInv, UpWithSession, FrameInHand, InboxOfSession,
        CurInSession, SessionStates, netVars, Phase, Pending
<1>1. CASE LoopTop BY <1>1 DEF LoopTop
<1>2. CASE BackoffElapsed BY <1>2 DEF BackoffElapsed
<1>3. CASE BackoffCancelled BY <1>3 DEF BackoffCancelled
<1>4. CASE DialErr BY <1>4 DEF DialErr
<1>5. CASE Spawn BY <1>5 DEF Spawn
<1>6. CASE CancelInner BY <1>6 DEF CancelInner
<1>7. CASE CloseConn
    <2>1. Feed!SessionEnds
        BY <1>7 DEF CloseConn, Feed!SessionEnds
    <2>. QED BY <2>1 DEF Feed!Next
<1>8. CASE ReadCheck BY <1>8 DEF ReadCheck
<1>9. CASE ReadFrame
    <2>1. Head(inbox[cur]) \in Data \cup {Pong}
        BY <1>9 DEF ReadFrame, Frames
    <2>2. cur \in Conns /\ cur # NoConn /\ up /\ inbox'[cur] = Tail(inbox[cur])
        BY <1>9 DEF ReadFrame
    <2>3. CASE Head(inbox[cur]) = Pong
        BY <1>9, <2>2, <2>3 DEF ReadFrame, Handed, Feed!Skip, Feed!Next
    <2>4. CASE Head(inbox[cur]) \in Data
        BY <1>9, <2>2, <2>4 DEF ReadFrame, Handed, Feed!Take, Feed!Next
    <2>. QED BY <2>1, <2>3, <2>4
<1>10. CASE ReadErr BY <1>10 DEF ReadErr
<1>11. CASE OnConnectOk BY <1>11 DEF OnConnectOk
<1>12. CASE OnConnectErr BY <1>12 DEF OnConnectErr
<1>13. CASE OnUp
    <2>1. Feed!TellUp
        BY <1>13 DEF OnUp, Feed!TellUp
    <2>. QED BY <2>1 DEF Feed!Next
<1>14. CASE OnReconnect BY <1>14 DEF OnReconnect
<1>15. CASE OnMessage
    <2>1. Feed!Handle
        BY <1>15 DEF OnMessage, Feed!Handle
    <2>. QED BY <2>1 DEF Feed!Next
<1>16. CASE OnDown
    BY <1>16 DEF OnDown, Feed!TellDown, Feed!Next
<1>. QED BY <1>1, <1>2, <1>3, <1>4, <1>5, <1>6, <1>7, <1>8, <1>9, <1>10, <1>11,
            <1>12, <1>13, <1>14, <1>15, <1>16 DEF LoopPlain, LoopHooks

\* Of the other steps only a frame that the peer sends shows in FeedView.
LEMMA FeedStep ==
    ConnIInv /\ FeedInv /\ [ConnNext]_connVars => [Feed!Next]_<<Phase, Pending, raw>>
<1>. SUFFICES ASSUME ConnIInv, FeedInv, [ConnNext]_connVars
              PROVE  [Feed!Next]_<<Phase, Pending, raw>>
    OBVIOUS
<1>. USE DEF ConnIInv, ConnTypeOK, FeedInv, InboxOfSession, loopVars, netVars, Phase, Pending
<1>1. CASE CtxCancel BY <1>1 DEF CtxCancel
<1>2. CASE Tick BY <1>2 DEF Tick
<1>3. ASSUME NEW c \in Conns, DialOk(c) PROVE UNCHANGED <<Phase, Pending, raw>>
    <2>1. ~up /\ cur = NoConn
        BY <1>3 DEF DialOk, UpWithSession, CurInSession, SessionStates
    <2>. QED BY <1>3, <2>1, ConnsAssumption DEF DialOk
<1>4. ASSUME NEW c \in Conns, PingerStep(c) PROVE UNCHANGED <<Phase, Pending, raw>>
    BY <1>4 DEF PingerStep, PingStart, PingEnd, PingExit
<1>5. ASSUME NEW c \in Conns, DeadmanStep(c) PROVE UNCHANGED <<Phase, Pending, raw>>
    BY <1>5 DEF DeadmanStep, DeadmanTouch, DeadmanFire, DeadmanClose, DeadmanExit, DeadmanOff
<1>6. ASSUME NEW c \in Conns, PeerGone(c) PROVE UNCHANGED <<Phase, Pending, raw>>
    BY <1>6 DEF PeerGone
<1>7. ASSUME NEW c \in Conns, NEW f \in Frames, PeerSend(c, f) PROVE Feed!Send
    <2>1. c = cur /\ cur # NoConn
        BY <1>7, ConnsAssumption DEF PeerSend, NoSocketLeak
    <2>2. inbox'[cur] = Append(inbox[cur], f)
        BY <1>7, <2>1 DEF PeerSend
    <2>. QED BY <1>7, <2>1, <2>2 DEF PeerSend, Frames, Feed!Send
<1>8. CASE UNCHANGED connVars
    BY <1>8 DEF connVars
<1>. QED BY <1>1, <1>2, <1>3, <1>4, <1>5, <1>6, <1>7, <1>8, LoopFeedStep
        DEF ConnNext, PeerStep, Feed!Next

\* wsLoop implements FeedView: in every behaviour, with any connections, frames and
\* timeout, frames reach onMessage in order and without gaps, between onUp and onDown.
THEOREM ConnImplementsFeed == ConnSpec => ImplementsFeed
<1>1. ConnInit => Feed!Init
    BY DEF ConnInit, Feed!Init, Phase, Pending
<1>. QED BY <1>1, FeedStep, ConnInvariant, ConnInitFeed, FeedInvStep, PTL
        DEF ConnSpec, ImplementsFeed, Feed!FeedSpec
=============================================================================
