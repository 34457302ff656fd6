---------------------------- MODULE UserWSProofs ----------------------------
(***************************************************************************)
(* For any fills, orders, connections and any length of the buffers: the   *)
(* user feed implements the loop of WSConn, its flag follows the session,  *)
(* and a program that resyncs in onReconnect misses no fill but those made *)
(* in the one window the code leaves open.                                 *)
(***************************************************************************)
EXTENDS UserWS, WSConnProofs

USE UserAssumption, DataAssumption


\* The exchange makes fills that there are.
LEMMA FillsExecuted == UserSpec => [](executed \subseteq Fills)
<1>1. UserInit => executed \subseteq Fills
    BY DEF UserInit
<1>2. ASSUME UserNext PROVE executed' = executed \/ \E f \in Fills : executed' = executed \cup {f}
    <2>1. CASE UserLoop
        BY <2>1 DEF userVars, UserLoop, UserDialled, Subscribe, SubscribeFails, UserOnConnect,
            Resync, DispatchRaw, UserOnDown
    <2>2. CASE UserEnvironment
        BY <2>2 DEF userVars, UserEnvironment, ServerSubscribes, ServerReports, ExecuteStreamed,
            ExecuteUnseen
    <2>. QED BY <1>2, <2>1, <2>2 DEF UserNext
<1>3. executed \subseteq Fills /\ [UserNext]_uvars => (executed \subseteq Fills)'
    BY <1>2 DEF uvars, userVars
<1>. QED BY <1>1, <1>3, PTL DEF UserSpec

\* What the server streams is a frame of the loop.
LEMMA FramesSent ==
    ASSUME NEW c \in Conns, NEW f \in UserFrames, PeerSend(c, f) PROVE PeerStep(c)
BY DEF PeerStep, Frames

LEMMA FramesAre ==
    /\ \A f \in Fills, s \in FillStatus : Trade(f, s) \in UserFrames
    /\ \A o \in Orders : OrderEvent(o) \in UserFrames
BY DEF UserFrames

\* Every step of the feed is a step of the loop, or leaves the loop alone.
LEMMA UserStep == executed \subseteq Fills /\ [UserNext]_uvars => [ConnNext]_connVars
<1>. SUFFICES ASSUME executed \subseteq Fills, [UserNext]_uvars PROVE [ConnNext]_connVars
    OBVIOUS
<1>1. CASE UNCHANGED uvars
    BY <1>1 DEF uvars
<1>2. CASE UserLoop
    BY <1>2 DEF UserLoop, UserDialled, Subscribe, SubscribeFails, UserOnConnect, Resync,
        DispatchRaw, UserOnDown, ConnNext, LoopHooks
<1>3. ASSUME NEW c \in Conns, NEW f \in Fills, ExecuteStreamed(c, f) PROVE PeerStep(c)
    <2>1. Trade(f, "MATCHED") \in UserFrames
        BY FramesAre DEF FillStatus
    <2>. QED BY <1>3, <2>1, FramesSent DEF ExecuteStreamed
<1>4. ASSUME NEW c \in Conns, ServerReports(c) PROVE PeerStep(c)
    BY <1>4, FramesAre, FramesSent DEF ServerReports
<1>5. CASE UserEnvironment
    BY <1>3, <1>4, <1>5 DEF UserEnvironment, ServerSubscribes, ExecuteUnseen, ConnNext, PeerStep
<1>. QED BY <1>1, <1>2, <1>5 DEF UserNext

\* UserWS.Run implements the reconnecting loop.
LEMMA UserImplementsConn == UserSpec => ConnSpec
<1>1. UserInit => ConnInit
    BY DEF UserInit
<1>. QED BY <1>1, UserStep, FillsExecuted, PTL DEF UserSpec, ConnSpec

-----------------------------------------------------------------------------
(* The inductive invariant *)

\* Frames that speak of fills that were made.
Honest ==
    {Trade(f, s) : f \in executed, s \in FillStatus} \cup {OrderEvent(o) : o \in Orders} \cup {Pong}

FramesHonest ==
    /\ inbox \in [Conns -> Seq(Honest)]
    /\ raw \in (Honest \ {Pong}) \cup {NoFrame}
    /\ raw # NoFrame <=> loop = "onMessage"

\* The first session has what the stream did not show in the gap; a later one
\* begins with a resync.
Accounted ==
    /\ Reading \/ (first /\ loop \in {"onConnect", "onUp"}) =>
        executed \subseteq known \cup InFlight \cup gap
    /\ first /\ loop \in {"top", "dial"} => executed \subseteq known \cup gap
    /\ loop = "backoff" => ~first

UserInv == UserTypeOK /\ ConnectedInSession /\ FramesHonest /\ Accounted

LEMMA InitUser == UserInit => UserInv
<1>. SUFFICES ASSUME UserInit PROVE UserInv
    OBVIOUS
<1>. USE DEF UserInit, ConnInit
<1>1. inbox \in [Conns -> Seq(Honest)]
    BY EmptySeq
<1>. QED BY <1>1 DEF UserInv, UserTypeOK, ConnectedInSession, FramesHonest, Accounted, Reading

\* Steps that move the loop and hand over, buffer or lose no frame.
Calm == UNCHANGED <<inbox, raw, cur, executed, known, orders, gap>>

LEMMA CalmKeeps ==
    ASSUME UserInv, Calm
    PROVE  /\ Honest' = Honest /\ InFlight' = InFlight
           /\ inbox' \in [Conns -> Seq(Honest')]
BY DEF UserInv, FramesHonest, Calm, Honest, InFlight

\* The loop's plain steps other than reading and closing.
LEMMA LoopKeeps ==
    ASSUME UserInv, UNCHANGED userVars,
           \/ LoopTop \/ BackoffElapsed \/ BackoffCancelled \/ DialErr \/ Spawn \/ CancelInner
           \/ ReadCheck \/ ReadErr \/ OnConnectErr
    PROVE  UserInv'
<1>. USE DEF UserInv, userVars
<1>1. Calm
    BY DEF Calm, LoopTop, BackoffElapsed, BackoffCancelled, DialErr, Spawn, CancelInner,
        ReadCheck, ReadErr, OnConnectErr, netVars, goVars
<1>2. Honest' = Honest /\ InFlight' = InFlight /\ inbox' \in [Conns -> Seq(Honest')]
    BY <1>1, CalmKeeps
<1>3. UserTypeOK'
    BY DEF UserTypeOK
<1>4. (ConnectedInSession /\ FramesHonest /\ Accounted)'
    <2>. USE <1>1, <1>2 DEF Calm, ConnectedInSession, FramesHonest, Accounted, Reading
    <2>1. CASE LoopTop BY <2>1 DEF LoopTop
    <2>2. CASE BackoffElapsed BY <2>2 DEF BackoffElapsed
    <2>3. CASE BackoffCancelled BY <2>3 DEF BackoffCancelled
    <2>4. CASE DialErr BY <2>4 DEF DialErr
    <2>5. CASE Spawn BY <2>5 DEF Spawn
    <2>6. CASE CancelInner BY <2>6 DEF CancelInner
    <2>7. CASE ReadCheck BY <2>7 DEF ReadCheck
    <2>8. CASE ReadErr BY <2>8 DEF ReadErr
    <2>9. CASE OnConnectErr BY <2>9 DEF OnConnectErr
    <2>. QED BY <2>1, <2>2, <2>3, <2>4, <2>5, <2>6, <2>7, <2>8, <2>9
<1>. QED BY <1>3, <1>4

\* The hooks of a session, up to the resync.
LEMMA HooksKeep ==
    ASSUME UserInv, ConnIInv,
           Subscribe \/ UserOnConnect \/ Resync \/ UserOnDown \/ \E c \in Conns : UserDialled(c)
    PROVE  UserInv'
<1>. USE DEF UserInv, UserTypeOK, ConnectedInSession, FramesHonest, Accounted, Reading
<1>1. CASE Subscribe \/ UserOnConnect
    <2>1. Calm
        BY <1>1 DEF Calm, Subscribe, UserOnConnect, OnConnectOk, OnUp, netVars, goVars, userVars
    <2>2. Honest' = Honest /\ InFlight' = InFlight /\ inbox' \in [Conns -> Seq(Honest')]
        BY <2>1, CalmKeeps
    <2>3. CASE Subscribe
        BY <2>1, <2>2, <2>3 DEF Calm, Subscribe, OnConnectOk
    <2>4. CASE UserOnConnect
        BY <2>1, <2>2, <2>4 DEF Calm, UserOnConnect, OnUp, userVars
    <2>. QED BY <1>1, <2>3, <2>4
<1>2. CASE Resync
    BY <1>2 DEF Resync, OnReconnect, Honest, netVars
<1>3. CASE UserOnDown
    <2>1. Calm
        BY <1>3 DEF Calm, UserOnDown, OnDown, netVars
    <2>2. Honest' = Honest /\ InFlight' = InFlight /\ inbox' \in [Conns -> Seq(Honest')]
        BY <2>1, CalmKeeps
    <2>. QED BY <1>3, <2>1, <2>2 DEF Calm, UserOnDown, OnDown
<1>4. ASSUME NEW c \in Conns, UserDialled(c) PROVE UserInv'
    <2>1. executed \subseteq known \cup gap \/ ~first
        BY <1>4 DEF UserDialled, DialOk
    <2>. QED BY <1>4, <2>1 DEF UserDialled, DialOk, Honest
<1>. QED BY <1>1, <1>2, <1>3, <1>4

\* The frames of a session that is over are gone; a resync will follow.
LEMMA CloseKeeps == ASSUME UserInv, CloseConn, UNCHANGED userVars PROVE UserInv'
<1>1. inbox' \in [Conns -> Seq(Honest')]
    <2>1. Honest' = Honest
        BY DEF userVars, Honest
    <2>2. <<>> \in Seq(Honest)
        BY EmptySeq
    <2>. QED BY <2>1, <2>2 DEF CloseConn, UserInv, FramesHonest
<1>. QED BY <1>1 DEF CloseConn, userVars, UserInv, UserTypeOK, ConnectedInSession, FramesHonest,
        Accounted, Reading, Honest

\* A frame that is read is in hand; no fill falls between buffer and hand.
LEMMA ReadKeeps == ASSUME UserInv, ConnIInv, ReadFrame, UNCHANGED userVars PROVE UserInv'
<1>. DEFINE box == inbox[cur]
<1>0. cur \in Conns /\ inbox \in [Conns -> Seq(Honest)] /\ loop = "recv" /\ raw = NoFrame
    BY DEF ReadFrame, ConnIInv, CurInSession, SessionStates, UserInv, FramesHonest
<1>1. box \in Seq(Honest) /\ box # <<>>
    BY <1>0 DEF ReadFrame
<1>2. /\ Head(box) \in Honest /\ Tail(box) \in Seq(Honest)
      /\ \A i \in DOMAIN box : i = 1 \/ (i - 1 \in DOMAIN Tail(box) /\ Tail(box)[i - 1] = box[i])
      /\ box[1] = Head(box)
    BY <1>1, HeadTailProperties
<1>3. /\ inbox' = [inbox EXCEPT ![cur] = Tail(box)]
      /\ raw' = IF Head(box) # Pong THEN Head(box) ELSE raw
      /\ loop' = IF Head(box) # Pong THEN "onMessage" ELSE "check"
      /\ cur' = cur /\ first' = first
    BY DEF ReadFrame, Handed
<1>4. UNCHANGED <<connected, asked, streaming, executed, known, orders, gap>> /\ Honest' = Honest
    BY DEF userVars, Honest
<1>5. InFlight \subseteq InFlight'
    <2>. SUFFICES ASSUME NEW f \in InFlight PROVE f \in InFlight'
        OBVIOUS
    <2>1. Trade(f, "MATCHED") \in Data /\ Trade(f, "MATCHED") \notin {Pong, NoFrame}
        BY FramesAre DEF InFlight, FillStatus
    <2>2. PICK i \in DOMAIN box : box[i] = Trade(f, "MATCHED")
        BY <1>0, <2>1 DEF InFlight
    <2>3. inbox'[cur'] = Tail(box)
        BY <1>0, <1>3
    <2>4. CASE i = 1
        BY <1>2, <1>3, <2>1, <2>2, <2>4 DEF InFlight
    <2>5. CASE i # 1
        BY <1>2, <2>2, <2>3, <2>5 DEF InFlight
    <2>. QED BY <2>4, <2>5
<1>6. FramesHonest'
    <2>1. NoFrame \notin Honest \ {Pong}
        BY FramesAre DEF Honest, UserInv, UserTypeOK
    <2>. QED BY <1>0, <1>2, <1>3, <1>4, <2>1 DEF FramesHonest
<1>7. (ConnectedInSession /\ Accounted)'
    BY <1>0, <1>3, <1>4, <1>5 DEF UserInv, ConnectedInSession, Accounted, Reading
<1>. QED BY <1>4, <1>6, <1>7 DEF UserInv, UserTypeOK

\* What leaves the hand is known.
LEMMA DispatchKeeps == ASSUME UserInv, DispatchRaw PROVE UserInv'
<1>. USE DEF UserInv, DispatchRaw, OnMessage
<1>1. /\ inbox' = inbox /\ cur' = cur /\ first' = first /\ raw' = NoFrame /\ loop' = "check"
      /\ loop = "onMessage"
      /\ UNCHANGED <<connected, asked, streaming, executed, gap>> /\ Honest' = Honest
    BY DEF netVars, Honest
<1>2. InFlight \subseteq InFlight' \cup known'
    BY <1>1 DEF InFlight, Trade, ReportsFill
<1>3. known \subseteq known' /\ known' \subseteq executed
    <2>. SUFFICES ASSUME NEW f \in Fills, raw.id = f, ReportsFill(raw) PROVE f \in executed
        BY DEF UserTypeOK
    <2>1. CASE raw = NoFrame
        BY <1>1, <2>1 DEF FramesHonest
    <2>2. CASE raw # NoFrame
        BY <2>2 DEF FramesHonest, Honest, ReportsFill, Trade, OrderEvent
    <2>. QED BY <2>1, <2>2
<1>4. UserTypeOK'
    BY <1>1, <1>3 DEF UserTypeOK
<1>. QED BY <1>1, <1>2, <1>3, <1>4 DEF ConnectedInSession, FramesHonest, Accounted, Reading

\* A session that is not over has the only open connection.
LEMMA StreamedOnCurrent ==
    ASSUME ConnIInv, NEW c \in Conns, NEW f, PeerSend(c, f)
    PROVE  /\ c = cur /\ loop \in SessionStates
           /\ inbox' = [inbox EXCEPT ![c] = Append(@, f)]
           /\ UNCHANGED <<loop, first, cur, raw>>
BY DEF ConnIInv, NoSocketLeak, PeerSend, loopVars

\* A frame that is buffered takes none away.
LEMMA SendGrows ==
    ASSUME UserInv, ConnIInv, NEW c \in Conns, NEW f, PeerSend(c, f), f \in Honest'
    PROVE  /\ Honest \subseteq Honest' => inbox' \in [Conns -> Seq(Honest')]
           /\ InFlight \subseteq InFlight'
           /\ \A g \in Fills : f = Trade(g, "MATCHED") => g \in InFlight'
<1>1. /\ c = cur /\ raw' = raw /\ cur' = cur
      /\ inbox' = [inbox EXCEPT ![c] = Append(@, f)]
      /\ inbox \in [Conns -> Seq(Honest)]
    BY StreamedOnCurrent DEF UserInv, FramesHonest
<1>. DEFINE old == inbox[c]
            new == inbox'[c]
<1>2. old \in Seq(Honest) /\ new = Append(old, f) /\ \A d \in Conns : d # c => inbox'[d] = inbox[d]
    BY <1>1
<1>3. /\ \A i \in DOMAIN old : i \in DOMAIN new /\ new[i] = old[i]
      /\ Len(old) + 1 \in DOMAIN new /\ new[Len(old) + 1] = f
    BY <1>2, AppendProperties
<1>4. ASSUME Honest \subseteq Honest' PROVE inbox' \in [Conns -> Seq(Honest')]
    <2>1. \A d \in Conns : inbox[d] \in Seq(Honest')
        <3>. SUFFICES ASSUME NEW d \in Conns PROVE inbox[d] \in Seq(Honest')
            OBVIOUS
        <3>. QED BY <1>1, <1>4
    <2>2. new \in Seq(Honest')
        BY <1>2, <2>1, AppendProperties
    <2>. QED BY <1>1, <1>2, <2>1, <2>2
<1>. QED BY <1>1, <1>3, <1>4 DEF InFlight

\* The exchange makes and reports fills.
LEMMA ExchangeKeeps ==
    ASSUME UserInv, ConnIInv,
           \/ \E c \in Conns, f \in Fills : ExecuteStreamed(c, f)
           \/ \E c \in Conns : ServerReports(c)
           \/ \E f \in Fills : ExecuteUnseen(f)
    PROVE  UserInv'
<1>1. ASSUME NEW c \in Conns, NEW f \in Fills, ExecuteStreamed(c, f) PROVE UserInv'
    <2>1. executed' = executed \cup {f} /\ UNCHANGED <<connected, asked, streaming, known, orders, gap>>
        BY <1>1 DEF ExecuteStreamed
    <2>2. PeerSend(c, Trade(f, "MATCHED"))
        BY <1>1 DEF ExecuteStreamed
    <2>3. Honest \subseteq Honest' /\ Trade(f, "MATCHED") \in Honest'
        BY <2>1 DEF Honest, FillStatus
    <2>4. /\ loop' = loop /\ first' = first /\ raw' = raw /\ loop \in SessionStates
        BY <2>2, StreamedOnCurrent
    <2>5. inbox' \in [Conns -> Seq(Honest')] /\ InFlight \cup {f} \subseteq InFlight'
        BY <2>2, <2>3, SendGrows
    <2>6. UserTypeOK'
        BY <2>1 DEF UserInv, UserTypeOK
    <2>7. (ConnectedInSession /\ FramesHonest)'
        BY <2>1, <2>3, <2>4, <2>5 DEF UserInv, ConnectedInSession, FramesHonest
    <2>8. Accounted'
        BY <2>1, <2>4, <2>5 DEF UserInv, Accounted, Reading, SessionStates
    <2>. QED BY <2>6, <2>7, <2>8 DEF UserInv
<1>2. ASSUME NEW c \in Conns, ServerReports(c) PROVE UserInv'
    <2>1. UNCHANGED userVars
        BY <1>2 DEF ServerReports
    <2>2. Honest' = Honest
        BY <2>1 DEF userVars, Honest
    <2>3. PICK f \in Honest : PeerSend(c, f)
        BY <1>2 DEF ServerReports, Honest
    <2>4. /\ loop' = loop /\ first' = first /\ raw' = raw
        BY <2>3, StreamedOnCurrent
    <2>5. inbox' \in [Conns -> Seq(Honest')] /\ InFlight \subseteq InFlight'
        BY <2>2, <2>3, SendGrows
    <2>. QED BY <2>1, <2>2, <2>4, <2>5
         DEF userVars, UserInv, UserTypeOK, ConnectedInSession, FramesHonest, Accounted, Reading
<1>3. ASSUME NEW f \in Fills, ExecuteUnseen(f) PROVE UserInv'
    <2>1. /\ executed' = executed \cup {f}
          /\ gap' = IF first \/ Reading THEN gap \cup {f} ELSE gap
          /\ UNCHANGED <<connected, asked, streaming, known, orders>>
          /\ UNCHANGED <<loop, first, cur, raw, inbox>>
        BY <1>3 DEF ExecuteUnseen, connVars, loopVars, netVars
    <2>2. Honest \subseteq Honest' /\ InFlight' = InFlight
        BY <2>1 DEF Honest, InFlight
    <2>3. inbox' \in [Conns -> Seq(Honest')]
        <3>1. ASSUME NEW d \in Conns PROVE inbox[d] \in Seq(Honest')
            BY <2>2 DEF UserInv, FramesHonest
        <3>. QED BY <2>1, <3>1 DEF UserInv, FramesHonest
    <2>4. UserTypeOK'
        BY <2>1 DEF UserInv, UserTypeOK
    <2>5. (ConnectedInSession /\ FramesHonest)'
        BY <2>1, <2>2, <2>3 DEF UserInv, ConnectedInSession, FramesHonest
    <2>6. Accounted'
        BY <2>1, <2>2 DEF UserInv, Accounted, Reading
    <2>. QED BY <2>4, <2>5, <2>6 DEF UserInv
<1>. QED BY <1>1, <1>2, <1>3

\* The pinger, the network, the caller and the server's start of the stream.
LEMMA OthersKeep ==
    ASSUME UserInv, UNCHANGED <<loop, first, cur, raw, inbox>>,
           UNCHANGED <<connected, asked, executed, known, orders, gap>>,
           streaming' \in [Conns -> BOOLEAN]
    PROVE  UserInv'
<1>1. Honest' = Honest /\ InFlight' = InFlight
    BY DEF Honest, InFlight
<1>. QED BY <1>1 DEF UserInv, UserTypeOK, ConnectedInSession, FramesHonest, Accounted, Reading

LEMMA NextUser == UserInv /\ ConnIInv /\ [UserNext]_uvars => UserInv'
<1>. SUFFICES ASSUME UserInv, ConnIInv, [UserNext]_uvars PROVE UserInv'
    OBVIOUS
<1>0. streaming \in [Conns -> BOOLEAN]
    BY DEF UserInv, UserTypeOK
<1>1. CASE UNCHANGED uvars
    BY <1>0, <1>1, OthersKeep DEF uvars, connVars, loopVars, netVars, userVars
<1>2. CASE UserLoop
    BY <1>2, LoopKeeps, HooksKeep, CloseKeeps, ReadKeeps, DispatchKeeps
    DEF UserLoop, LoopPlain, SubscribeFails
<1>3. ASSUME UNCHANGED userVars,
             CtxCancel \/ \E c \in Conns : PingerStep(c) \/ PeerGone(c)
      PROVE  UserInv'
    BY <1>0, <1>3, OthersKeep DEF userVars, CtxCancel, PingerStep, PingStart, PingEnd, PingExit,
        PeerGone, loopVars, netVars
<1>4. ASSUME NEW c \in Conns, ServerSubscribes(c) PROVE UserInv'
    BY <1>0, <1>4, OthersKeep DEF ServerSubscribes, connVars, loopVars, netVars
<1>. QED BY <1>1, <1>2, <1>3, <1>4, ExchangeKeeps DEF UserNext, UserEnvironment

LEMMA UserInvariant == UserSpec => []UserInv
<1>1. UserSpec => []ConnIInv
    BY UserImplementsConn, ConnInvariant
<1>. QED BY <1>1, InitUser, NextUser, PTL DEF UserSpec

-----------------------------------------------------------------------------
(* The theorems *)

\* Every variable of the feed keeps its type; nothing is known that was not made.
THEOREM UserTypeCorrect == UserSpec => []UserTypeOK
<1>1. UserInv => UserTypeOK
    BY DEF UserInv
<1>. QED BY <1>1, UserInvariant, PTL

\* Connected() follows the session, whatever the network does.
THEOREM UserConnected == UserSpec => []ConnectedInSession
<1>1. UserInv => ConnectedInSession
    BY DEF UserInv
<1>. QED BY <1>1, UserInvariant, PTL

\* A program that resyncs in onReconnect misses no fill, for any number of fills,
\* lost connections and failed dials, but those of the window before the stream.
THEOREM NoneLost == UserSpec => []NoFillLost
<1>1. UserInv => NoFillLost
    BY DEF UserInv, Accounted, NoFillLost
<1>. QED BY <1>1, UserInvariant, PTL

\* What is proved of the loop holds of UserWS: no socket leaks, and dispatchRaw
\* sees the frames of a session in order, each of them, and inside the session.
THEOREM UserLoopSafe == UserSpec => []NoSocketLeak /\ ImplementsFeed
BY UserImplementsConn, SocketsClosed, ConnImplementsFeed, PTL
=============================================================================
