--------------------------- MODULE MarketWSProofs ---------------------------
(***************************************************************************)
(* Theorems about MarketWS for any tokens, batch size, goroutines and      *)
(* connections: it implements the loop of WSConn, a connection has one     *)
(* writer besides its pinger, and the program's view agrees with the       *)
(* session.                                                                *)
(***************************************************************************)
EXTENDS MarketWS, WSConnProofs

USE BatchAssumption, TokensAssumption, NoReconnectAssumption, CallersAssumption

\* Every step of the feed is a step of the loop, or leaves the loop alone:
\* what is proved of ConnSpec holds of the feed.
LEMMA MarketStep == [Next]_vars => [ConnNext]_connVars
<1>. SUFFICES ASSUME [Next]_vars PROVE [ConnNext]_connVars
    OBVIOUS
<1>1. CASE UNCHANGED vars
    BY <1>1 DEF vars
<1>2. CASE RunStep
    BY <1>2 DEF RunStep, LoopStep, Dialled, SendBatch, SendBatchFails, Publish,
        StoreConnected, AppOnConnect, Dispatch, ClearConn, StoreDisconnected,
        AppOnDisconnect, ConnNext, LoopHooks
<1>3. CASE ConnStep
    BY <1>3 DEF ConnStep, ConnNext
<1>4. ASSUME NEW a \in Callers, NEW op \in Ops, NEW toks \in AppTokens, Call(a, op, toks)
      PROVE  [ConnNext]_connVars
    BY <1>4 DEF Call
<1>5. ASSUME NEW a \in Callers, CallStep(a) \/ Panic(a) PROVE [ConnNext]_connVars
    BY <1>5 DEF CallStep, LockNil, LockConn, WriteOk, WriteLost, Panic
<1>. QED BY <1>1, <1>2, <1>3, <1>4, <1>5 DEF Next

\* MarketWS.Run implements the reconnecting loop.
LEMMA MarketImplementsConn == Spec => ConnSpec
<1>1. Init => ConnInit
    BY DEF Init
<1>. QED BY <1>1, MarketStep, PTL DEF Spec, ConnSpec

-----------------------------------------------------------------------------
(* The inductive invariant *)

\* The position inside the hooks follows the loop.
HookMatches ==
    /\ loop = "onConnect" => hook \in {"subscribe", "publish", "store"}
    /\ loop = "onDown" => hook \in {"clear", "unflag", "notify"}
    /\ loop \notin {"onConnect", "onDown"} => hook = "none"

\* Where ws.conn and ws.connected stand at each point of the loop.
ConnMatches ==
    /\ conn \in Conns \cup {NoConn}
    /\ connected \in BOOLEAN
    /\ hook = "store" => conn = cur
    /\ loop \in {"onUp", "onReconnect", "spawn", "check", "recv", "onMessage", "cancel"}
            => conn = cur /\ connected
    /\ loop = "close" => conn \in {cur, NoConn}
    /\ hook \in {"subscribe", "publish", "unflag", "notify"} => conn = NoConn
    /\ loop \in {"top", "dial", "backoff", "stopped", "onConnect"} \/ hook = "notify"
            => ~connected
    /\ loop \in {"top", "dial", "backoff", "stopped"} => conn = NoConn

\* connMu is held by the goroutine that writes, and by no other, and what it
\* writes to is what is published.
LockMatches ==
    /\ connMu \in Callers \cup {Nobody}
    /\ \A a \in Callers : call[a].pc = "write" <=> connMu = a
    /\ \A a \in Callers : call[a].pc = "write" => call[a].on = conn /\ conn # NoConn

\* While the handshake runs, the tokens of the batches sent are what is written.
HandshakeProgress ==
    /\ hook = "subscribe" => sent < NBatches
    /\ hook = "publish" => sent = NBatches
    /\ hook \in {"subscribe", "publish"} =>
            written[cur] = {tokenIDs[j] : j \in {j \in DOMAIN tokenIDs : j <= sent * BatchSize}}

IInv ==
    ConnIInv /\ TypeOK /\ HookMatches /\ ConnMatches /\ LockMatches /\ HandshakeProgress

\* batchStrings makes a natural number of batches.
LEMMA NBatchesNat == NBatches \in Nat
BY DEF NBatches

\* MarketWS starts in a state of the inductive invariant.
LEMMA InitIInv == Init => IInv
<1>. SUFFICES ASSUME Init PROVE IInv
    OBVIOUS
<1>. USE DEF Init, ConnInit
<1>1. ConnIInv BY ConnInitIInv
<1>2. TypeOK
    <2>1. NoCall \in CallRecords
        BY DEF NoCall, CallRecords, Ops
    <2>2. sent \in 0..NBatches
        BY NBatchesNat
    <2>3. written \in [Conns -> SUBSET (Configured \cup UNION AppTokens)]
        OBVIOUS
    <2>4. call \in [Callers -> CallRecords]
        BY <2>1
    <2>5. hook \in HookStates
        BY DEF HookStates
    <2>. QED BY <2>2, <2>3, <2>4, <2>5 DEF TypeOK
<1>3. HookMatches BY DEF HookMatches
<1>4. ConnMatches BY DEF ConnMatches
<1>5. LockMatches BY DEF LockMatches, NoCall
<1>6. HandshakeProgress BY DEF HandshakeProgress
<1>. QED BY <1>1, <1>2, <1>3, <1>4, <1>5, <1>6 DEF IInv

\* Every token is in one of the NBatches batches.
LEMMA BatchesCover == Len(tokenIDs) <= NBatches * BatchSize
BY DEF NBatches

Rest == HookMatches /\ ConnMatches /\ LockMatches /\ HandshakeProgress

\* The loop outside the hooks.
LEMMA LoopStepRest ==
    ASSUME IInv, LoopStep
    PROVE  TypeOK' /\ Rest'
<1>. USE DEF IInv, Rest, ConnIInv, ConnTypeOK, CurInSession, SessionStates,
        HookMatches, ConnMatches, LockMatches, HandshakeProgress
<1>1. TypeOK'
    BY DEF LoopStep, TypeOK, HookStates
<1>2. CASE LoopTop BY <1>1, <1>2 DEF LoopStep, LoopTop
<1>3. CASE BackoffElapsed BY <1>1, <1>3 DEF LoopStep, BackoffElapsed
<1>4. CASE BackoffCancelled BY <1>1, <1>4 DEF LoopStep, BackoffCancelled
<1>5. CASE DialErr BY <1>1, <1>5 DEF LoopStep, DialErr
<1>6. CASE Spawn BY <1>1, <1>6 DEF LoopStep, Spawn
<1>7. CASE CancelInner BY <1>1, <1>7 DEF LoopStep, CancelInner
<1>8. CASE CloseConn BY <1>1, <1>8 DEF LoopStep, CloseConn
<1>9. CASE ReadCheck BY <1>1, <1>9 DEF LoopStep, ReadCheck
<1>10. CASE ReadFrame BY <1>1, <1>10 DEF LoopStep, ReadFrame, Handed
<1>11. CASE ReadErr BY <1>1, <1>11 DEF LoopStep, ReadErr
<1>. QED BY <1>1, <1>2, <1>3, <1>4, <1>5, <1>6, <1>7, <1>8, <1>9, <1>10, <1>11
        DEF LoopStep, LoopPlain

\* The hooks of Run: a batch of the handshake, its failure, the publication.
LEMMA HandshakeRest ==
    ASSUME IInv,
           \/ \E c \in Conns : Dialled(c)
           \/ SendBatch \/ SendBatchFails \/ Publish \/ StoreConnected
    PROVE  TypeOK' /\ Rest'
<1>. USE NBatchesNat DEF IInv, Rest, ConnIInv, ConnTypeOK, CurInSession, SessionStates,
        TypeOK, HookStates, HookMatches, ConnMatches, LockMatches, HandshakeProgress
<1>1. ASSUME NEW c \in Conns, Dialled(c) PROVE TypeOK' /\ Rest'
    BY <1>1 DEF Dialled, DialOk
<1>2. CASE SendBatch
    <2>1. cur \in Conns /\ loop = "onConnect"
        BY <1>2 DEF SendBatch
    <2>2. Batch(sent + 1) \subseteq Configured
        BY DEF Batch, Configured
    <2>3. TypeOK'
        BY <1>2, <2>1, <2>2 DEF SendBatch, connVars
    <2>4. ASSUME NEW j \in DOMAIN tokenIDs, j <= (sent + 1) * BatchSize
          PROVE  tokenIDs[j] \in written'[cur]
        <3>1. CASE j <= sent * BatchSize
            BY <1>2, <2>1, <3>1 DEF SendBatch
        <3>2. CASE sent * BatchSize < j
            BY <1>2, <2>1, <2>4, <3>2 DEF SendBatch, Batch
        <3>3. sent * BatchSize \in Int /\ j \in Int
            OBVIOUS
        <3>. QED BY <3>1, <3>2, <3>3
    <2>5. ASSUME NEW t \in written'[cur]
          PROVE  \E j \in DOMAIN tokenIDs : j <= (sent + 1) * BatchSize /\ t = tokenIDs[j]
        <3>1. sent * BatchSize <= (sent + 1) * BatchSize /\ sent * BatchSize \in Int
            OBVIOUS
        <3>2. t \in written[cur] \/ t \in Batch(sent + 1)
            BY <1>2, <2>1, <2>5 DEF SendBatch
        <3>3. CASE t \in written[cur]
            BY <1>2, <3>1, <3>3 DEF SendBatch
        <3>4. CASE t \in Batch(sent + 1)
            BY <3>4 DEF Batch
        <3>. QED BY <3>2, <3>3, <3>4
    <2>6. written'[cur] = {tokenIDs[j] : j \in {j \in DOMAIN tokenIDs : j <= sent' * BatchSize}}
        BY <1>2, <2>4, <2>5 DEF SendBatch
    <2>. QED BY <1>2, <2>1, <2>3, <2>6 DEF SendBatch, connVars, loopVars
<1>3. CASE SendBatchFails BY <1>3 DEF SendBatchFails, OnConnectErr
<1>4. CASE Publish BY <1>4 DEF Publish, connVars, loopVars
<1>5. CASE StoreConnected BY <1>5 DEF StoreConnected, OnConnectOk
<1>. QED BY <1>1, <1>2, <1>3, <1>4, <1>5

\* The callbacks of the program and the hook onDown.
LEMMA CallbackRest ==
    ASSUME IInv,
           AppOnConnect \/ Dispatch \/ ClearConn \/ StoreDisconnected \/ AppOnDisconnect
    PROVE  TypeOK' /\ Rest'
<1>. USE DEF IInv, Rest, ConnIInv, ConnTypeOK, CurInSession, SessionStates,
        TypeOK, HookStates, HookMatches, ConnMatches, LockMatches, HandshakeProgress
<1>1. CASE AppOnConnect BY <1>1 DEF AppOnConnect, OnUp, marketVars
<1>2. CASE Dispatch BY <1>2 DEF Dispatch, OnMessage, marketVars
<1>3. CASE ClearConn BY <1>3 DEF ClearConn, connVars, loopVars
<1>4. CASE StoreDisconnected BY <1>4 DEF StoreDisconnected, connVars, loopVars
<1>5. CASE AppOnDisconnect BY <1>5 DEF AppOnDisconnect, OnDown
<1>. QED BY <1>1, <1>2, <1>3, <1>4, <1>5

\* The pinger, the deadman, the peer, the clock, a cancel.
LEMMA ConnStepRest ==
    ASSUME IInv, ConnStep
    PROVE  TypeOK' /\ Rest'
<1>1. loop' = loop /\ cur' = cur /\ UNCHANGED marketVars
    BY DEF ConnStep, CtxCancel, Tick, PingerStep, PingStart, PingEnd, PingExit, DeadmanStep,
        DeadmanTouch, DeadmanFire, DeadmanClose, DeadmanExit, PeerStep, PeerGone, PeerSend,
        loopVars
<1>. QED BY <1>1 DEF IInv, Rest, TypeOK, HookMatches, ConnMatches, LockMatches,
        HandshakeProgress, marketVars

\* SubscribeTokens and UnsubscribeTokens.
LEMMA CallRest ==
    ASSUME IInv, NEW a \in Callers,
           \/ \E op \in Ops, toks \in AppTokens : Call(a, op, toks)
           \/ CallStep(a) \/ Panic(a)
    PROVE  TypeOK' /\ Rest'
<1>. USE DEF IInv, Rest, HookMatches, ConnMatches, LockMatches, HandshakeProgress,
        connVars, loopVars
<1>0. NoCall \in CallRecords /\ NoCall.pc = "idle"
    BY DEF NoCall, CallRecords, Ops
<1>1. ASSUME NEW op \in Ops, NEW toks \in AppTokens, Call(a, op, toks)
      PROVE  TypeOK' /\ Rest'
    <2>. DEFINE r == [pc |-> "lock", op |-> op, toks |-> toks, on |-> NoConn]
    <2>1. r \in CallRecords /\ r.pc = "lock"
        BY DEF CallRecords
    <2>. HIDE DEF r
    <2>2. call' = [call EXCEPT ![a] = r]
        BY <1>1 DEF Call, r
    <2>3. TypeOK'
        BY <1>1, <2>1, <2>2 DEF Call, TypeOK
    <2>. QED BY <1>0, <1>1, <2>1, <2>2, <2>3 DEF Call, TypeOK
<1>2. CASE LockNil(a) BY <1>0, <1>2 DEF LockNil, TypeOK
<1>3. CASE LockConn(a)
    <2>. DEFINE r == [call[a] EXCEPT !.pc = "write", !.on = conn]
    <2>1. r \in CallRecords /\ r.pc = "write" /\ r.on = conn
        <3>1. call[a] \in CallRecords /\ conn \in Conns \cup {NoConn}
            BY DEF TypeOK
        <3>. QED BY ONLY <3>1 DEF CallRecords, r
    <2>. HIDE DEF r
    <2>2. /\ call' = [call EXCEPT ![a] = r]
          /\ connMu = Nobody /\ connMu' = a /\ conn # NoConn
          /\ UNCHANGED <<connVars, conn, connected, hook, sent, written, crashed>>
        BY <1>3 DEF LockConn, r
    <2>3. TypeOK'
        BY <2>1, <2>2 DEF TypeOK
    <2>. QED BY <2>1, <2>2, <2>3 DEF TypeOK
<1>4. CASE WriteOk(a)
    <2>1. call[a].on = conn /\ conn \in Conns /\ hook \notin {"subscribe", "publish"}
        BY <1>4 DEF WriteOk
    <2>2. call[a].toks \subseteq UNION AppTokens
        BY DEF TypeOK, CallRecords
    <2>3. TypeOK'
        BY <1>0, <1>4, <2>1, <2>2 DEF WriteOk, Unlock, TypeOK
    <2>. QED BY <1>0, <1>4, <2>1, <2>3 DEF WriteOk, Unlock, TypeOK
<1>5. CASE WriteLost(a) BY <1>0, <1>5 DEF WriteLost, Unlock, TypeOK
<1>6. CASE Panic(a) BY <1>6 DEF Panic, TypeOK
<1>. QED BY <1>1, <1>2, <1>3, <1>4, <1>5, <1>6 DEF CallStep

\* Every step of the feed and of its callers keeps the invariant.
LEMMA IInvStep == IInv /\ [Next]_vars => IInv'
<1>. SUFFICES ASSUME IInv, [Next]_vars PROVE IInv'
    OBVIOUS
<1>1. ConnIInv'
    BY MarketStep, ConnIInvStep DEF IInv
<1>2. CASE UNCHANGED vars
    BY <1>1, <1>2 DEF IInv, TypeOK, HookMatches, ConnMatches, LockMatches,
        HandshakeProgress, vars, marketVars, connVars, loopVars
<1>. QED BY <1>1, <1>2, LoopStepRest, HandshakeRest, CallbackRest, ConnStepRest, CallRest
        DEF Next, RunStep, IInv, Rest

\* The inductive invariant holds in every behaviour of MarketWS.
THEOREM Invariant == Spec => []IInv
BY InitIInv, IInvStep, PTL DEF Spec

-----------------------------------------------------------------------------
\* Every variable of MarketWS keeps its type.
THEOREM TypeCorrect == Spec => []TypeOK
<1>1. IInv => TypeOK
    BY DEF IInv
<1>. QED BY <1>1, Invariant, PTL

\* SubscribeTokens and UnsubscribeTokens exclude each other and the handshake,
\* and write to the connection of the running session only; the pinger is not
\* running while onConnect writes the subscription.
THEOREM WritersExclude == Spec => []OneWriter
<1>1. IInv => OneWriter
    BY DEF IInv, ConnMatches, LockMatches, ConnIInv, NotYetSpawned, HookMatches, OneWriter
<1>. QED BY <1>1, Invariant, PTL

\* From onConnect to the end of the session the program reaches the session's
\* connection; from onDisconnect to the next handshake it reaches none.
THEOREM ViewIsRight == Spec => []ViewAgrees
<1>1. IInv => ViewAgrees
    BY DEF IInv, ConnIInv, ConnTypeOK, CurInSession, SessionStates, LoopStates,
        HookMatches, ConnMatches, ViewAgrees
<1>. QED BY <1>1, Invariant, PTL

\* What Run publishes has every configured token subscribed, whatever the
\* number of tokens and the size of a batch.
THEOREM SubscribedWhenPublished == Spec => PublishedSubscribed
<1>. DEFINE Published == conn' # conn /\ conn' # NoConn => Configured \subseteq written[conn']
<1>1. ASSUME IInv, Next PROVE Published
    <2>. SUFFICES ASSUME conn' # conn, conn' # NoConn PROVE Configured \subseteq written[conn']
        OBVIOUS
    <2>1. Publish
        BY <1>1 DEF Next, RunStep, LoopStep, Dialled, SendBatch, SendBatchFails,
            StoreConnected, AppOnConnect, Dispatch, ClearConn, StoreDisconnected,
            AppOnDisconnect, ConnStep, CallStep, Call, LockNil, LockConn, WriteOk, WriteLost,
            Panic, marketVars
    <2>2. conn' = cur /\ sent = NBatches
        BY <1>1, <2>1 DEF Publish, IInv, HandshakeProgress
    <2>3. ASSUME NEW j \in DOMAIN tokenIDs PROVE tokenIDs[j] \in written[cur]
        <3>1. j <= sent * BatchSize
            BY <2>2, BatchesCover, NBatchesNat
        <3>. QED BY <1>1, <2>1, <3>1 DEF Publish, IInv, HandshakeProgress
    <2>. QED BY <2>2, <2>3 DEF Configured
<1>2. IInv /\ [Next]_vars => [Published]_vars
    BY <1>1
<1>. QED BY <1>2, Invariant, PTL DEF Spec, PublishedSubscribed

\* No batch is without tokens.
LEMMA BatchesFilled == \A i \in 0..(NBatches - 1) : i * BatchSize < Len(tokenIDs)
<1>. SUFFICES ASSUME NEW i \in 0..(NBatches - 1) PROVE i * BatchSize < Len(tokenIDs)
    OBVIOUS
<1>1. NBatches * BatchSize <= Len(tokenIDs) + BatchSize - 1
    BY DEF NBatches
<1>2. (i + 1) * BatchSize <= NBatches * BatchSize
    BY NBatchesNat
<1>3. (i + 1) * BatchSize = i * BatchSize + BatchSize
    BY NBatchesNat
<1>. QED BY <1>1, <1>2, <1>3, NBatchesNat

\* The handshake of every session subscribes a token once, whatever the number of
\* tokens, the size of a batch and the calls beside it.
THEOREM SubscribedOnce == Spec => EachTokenOnce
<1>. DEFINE Once == Batch(sent + 1) # {} /\ Batch(sent + 1) \cap written[cur] = {}
<1>1. ASSUME IInv, ConfiguredOnce, SendBatch PROVE Once
    <2>1. sent \in 0..(NBatches - 1) /\ sent + 1 \in Nat
        BY <1>1, NBatchesNat DEF SendBatch, IInv, TypeOK, HandshakeProgress
    <2>2. sent * BatchSize \in Nat /\ (sent + 1) * BatchSize = sent * BatchSize + BatchSize
        BY <2>1, NBatchesNat
    <2>3. Batch(sent + 1) # {}
        <3>1. sent * BatchSize < Len(tokenIDs)
            BY <2>1, BatchesFilled
        <3>2. sent * BatchSize + 1 \in DOMAIN tokenIDs
            BY <2>2, <3>1
        <3>3. /\ (sent + 1) - 1 = sent
              /\ sent * BatchSize < sent * BatchSize + 1
              /\ sent * BatchSize + 1 <= (sent + 1) * BatchSize
            BY <2>1, <2>2
        <3>4. tokenIDs[sent * BatchSize + 1] \in Batch(sent + 1)
            BY <3>2, <3>3 DEF Batch
        <3>. QED BY <3>4
    <2>4. ASSUME NEW t \in Batch(sent + 1) PROVE t \notin written[cur]
        <3>1. PICK j \in DOMAIN tokenIDs : t = tokenIDs[j] /\ sent * BatchSize < j
            BY <2>1, <2>4 DEF Batch
        <3>2. ASSUME NEW k \in DOMAIN tokenIDs, k <= sent * BatchSize PROVE t # tokenIDs[k]
            BY <1>1, <2>2, <3>1, <3>2 DEF ConfiguredOnce
        <3>. QED BY <1>1, <3>2 DEF SendBatch, IInv, HandshakeProgress
    <2>. QED BY <2>3, <2>4
<1>2. IInv /\ [Next]_vars => [ConfiguredOnce /\ SendBatch => Once]_vars
    BY <1>1
<1>. QED BY <1>2, Invariant, PTL DEF Spec, EachTokenOnce

\* What is proved of the loop holds of the feed: no socket of MarketWS leaks,
\* only silence makes its deadman fire, and dispatchRaw sees the frames in order.
THEOREM MarketLoopSafe == Spec => []NoSocketLeak /\ KillsOnlySilent /\ ImplementsFeed
BY MarketImplementsConn, SocketsClosed, SilenceKills, ConnImplementsFeed, PTL
=============================================================================
