------------------------------ MODULE MarketWS ------------------------------
(***************************************************************************)
(* The market feed of polymarket/ws.go on top of the loop of WSConn: the   *)
(* hooks Run gives to wsLoop, and SubscribeTokens / UnsubscribeTokens,     *)
(* which any goroutine of the program may call, the callbacks of Run's own *)
(* goroutine included.                                                     *)
(*                                                                         *)
(* gorilla/websocket allows one writer at a time on a connection.  The     *)
(* subscription of the handshake is written without a lock, later          *)
(* subscriptions under connMu, and wsPinger writes without a lock: what    *)
(* two overlapping writes do is the library's choice (a lost or garbled    *)
(* frame, or a panic that ends the program).                               *)
(***************************************************************************)
EXTENDS WSConn, Integers, FiniteSets

CONSTANTS
    tokenIDs,       \* sequence of the tokens NewMarketWS was given
    BatchSize,      \* tokens per subscription frame, 100 in the code
    AppTokens,      \* sets of tokens the program (un)subscribes later
    Apps,           \* goroutines of the program that call the feed
    Run,            \* the goroutine in Run, when a callback calls the feed
    Nobody          \* connMu is not held

Callers == Apps \cup {Run}
Ops == {"subscribe", "unsubscribe"}

ASSUME BatchAssumption == BatchSize \in Nat \ {0}
ASSUME TokensAssumption ==
    Len(tokenIDs) \in Nat /\ DOMAIN tokenIDs = 1..Len(tokenIDs)
ASSUME NoReconnectAssumption == HasReconnect = FALSE
ASSUME CallersAssumption == Run \notin Apps /\ Nobody \notin Callers

VARIABLES
    connMu,         \* who holds ws.connMu
    conn,           \* ws.conn
    connected,      \* ws.connected
    hook,           \* position inside the hooks onConnect and onDown
    sent,           \* batches the handshake has written
    written,        \* tokens subscribed by what was written on a connection
    call,           \* the (Un)SubscribeTokens call each goroutine is in
    crashed         \* a concurrent write has panicked

marketVars == <<connMu, conn, connected, hook, sent, written, call, crashed>>
vars == <<connVars, marketVars>>

HookStates == {"none", "subscribe", "publish", "store", "clear", "unflag", "notify"}

NoCall == [pc |-> "idle", op |-> "subscribe", toks |-> {}, on |-> NoConn]

Init ==
    /\ ConnInit
    /\ connMu = Nobody
    /\ conn = NoConn
    /\ connected = FALSE
    /\ hook = "none"
    /\ sent = 0
    /\ written = [c \in Conns |-> {}]
    /\ call = [a \in Callers |-> NoCall]
    /\ crashed = FALSE

-----------------------------------------------------------------------------
(* onConnect: subscribe in batches, then publish the connection *)

NBatches == (Len(tokenIDs) + BatchSize - 1) \div BatchSize

\* Mutant: the last batch loses its last token.
BatchShort(i) ==
    {tokenIDs[j] : j \in {j \in DOMAIN tokenIDs :
        (i - 1) * BatchSize < j /\ j <= i * BatchSize /\ j # Len(tokenIDs)}}

\* Mutant: a batch begins with the last token of the one before it.
BatchOverlaps(i) ==
    {tokenIDs[j] : j \in {j \in DOMAIN tokenIDs :
        (i - 1) * BatchSize <= j /\ j <= i * BatchSize}}

\* The tokens of batchStrings(tokenIDs, BatchSize)[i - 1].
Batch(i) ==
    {tokenIDs[j] : j \in {j \in DOMAIN tokenIDs :
        (i - 1) * BatchSize < j /\ j <= i * BatchSize}}

Dialled(c) ==
    /\ DialOk(c)
    /\ hook' = IF NBatches = 0 THEN "publish" ELSE "subscribe"
    /\ sent' = 0
    /\ written' = [written EXCEPT ![c] = {}]
    /\ UNCHANGED <<connMu, conn, connected, call, crashed>>

\* A write that is only buffered may succeed although the peer is gone.
SendBatch ==
    /\ hook = "subscribe"
    /\ sent' = sent + 1
    /\ written' = [written EXCEPT ![cur] = @ \cup Batch(sent + 1)]
    /\ hook' = IF sent + 1 = NBatches THEN "publish" ELSE "subscribe"
    /\ UNCHANGED <<connVars, connMu, conn, connected, call, crashed>>

SendBatchFails ==
    /\ hook = "subscribe"
    /\ OnConnectErr
    /\ hook' = "none"
    /\ UNCHANGED <<connMu, conn, connected, sent, written, call, crashed>>

\* ws.connMu.Lock(); ws.conn = conn; ws.connMu.Unlock()
Publish ==
    /\ hook = "publish"
    /\ connMu = Nobody
    /\ conn' = cur
    /\ hook' = "store"
    /\ UNCHANGED <<connVars, connMu, connected, sent, written, call, crashed>>

StoreConnected ==
    /\ hook = "store"
    /\ OnConnectOk
    /\ connected' = TRUE
    /\ hook' = "none"
    /\ UNCHANGED <<connMu, conn, sent, written, call, crashed>>

-----------------------------------------------------------------------------
(* The callbacks of the program: they return before the loop goes on *)

AppOnConnect ==
    /\ call[Run] = NoCall
    /\ OnUp
    /\ UNCHANGED marketVars

\* dispatch, down to the last callback it makes.
Dispatch ==
    /\ call[Run] = NoCall
    /\ OnMessage
    /\ UNCHANGED marketVars

-----------------------------------------------------------------------------
(* onDown: clear the connection, then the flag, then tell the program *)

\* Mutants: onDown leaves ws.conn as it is, or keeps connMu to its end.
ClearNothing ==
    /\ hook = "clear"
    /\ connMu = Nobody
    /\ hook' = "unflag"
    /\ UNCHANGED <<connVars, connMu, conn, connected, sent, written, call, crashed>>

ClearLocked ==
    /\ hook = "clear"
    /\ connMu = Nobody
    /\ connMu' = Run
    /\ conn' = NoConn
    /\ hook' = "unflag"
    /\ UNCHANGED <<connVars, connected, sent, written, call, crashed>>

ClearConn ==
    /\ hook = "clear"
    /\ connMu = Nobody
    /\ conn' = NoConn
    /\ hook' = "unflag"
    /\ UNCHANGED <<connVars, connMu, connected, sent, written, call, crashed>>

StoreDisconnected ==
    /\ hook = "unflag"
    /\ connected' = FALSE
    /\ hook' = "notify"
    /\ UNCHANGED <<connVars, connMu, conn, sent, written, call, crashed>>

AppOnDisconnect ==
    /\ hook = "notify"
    /\ call[Run] = NoCall
    /\ OnDown
    /\ hook' = "none"
    /\ UNCHANGED <<connMu, conn, connected, sent, written, call, crashed>>

\* The steps of the loop outside the hooks; some of them lead to onDown.
LoopStep ==
    /\ LoopPlain
    /\ hook' = IF loop' = "onDown" THEN "clear" ELSE hook
    /\ UNCHANGED <<connMu, conn, connected, sent, written, call, crashed>>

-----------------------------------------------------------------------------
(* SubscribeTokens and UnsubscribeTokens *)

InCallback == loop \in {"onUp", "onMessage"} \/ hook = "notify"

Call(a, op, toks) ==
    /\ call[a] = NoCall
    /\ a = Run => InCallback
    /\ call' = [call EXCEPT ![a] = [pc |-> "lock", op |-> op, toks |-> toks, on |-> NoConn]]
    /\ UNCHANGED <<connVars, connMu, conn, connected, hook, sent, written, crashed>>

\* connMu.Lock(), and the early return when there is no connection.
LockNil(a) ==
    /\ call[a].pc = "lock"
    /\ connMu = Nobody
    /\ conn = NoConn
    /\ call' = [call EXCEPT ![a] = NoCall]
    /\ UNCHANGED <<connVars, connMu, conn, connected, hook, sent, written, crashed>>

\* Mutant: UnsubscribeTokens does not take the lock.
LockToSubscribe(a) ==
    /\ call[a].pc = "lock"
    /\ call[a].op = "subscribe" => connMu = Nobody
    /\ conn # NoConn
    /\ connMu' = a
    /\ call' = [call EXCEPT ![a].pc = "write", ![a].on = conn]
    /\ UNCHANGED <<connVars, conn, connected, hook, sent, written, crashed>>

LockConn(a) ==
    /\ call[a].pc = "lock"
    /\ connMu = Nobody
    /\ conn # NoConn
    /\ connMu' = a
    /\ call' = [call EXCEPT ![a].pc = "write", ![a].on = conn]
    /\ UNCHANGED <<connVars, conn, connected, hook, sent, written, crashed>>

Unlock(a) ==
    /\ connMu' = Nobody
    /\ call' = [call EXCEPT ![a] = NoCall]

WriteOk(a) ==
    /\ call[a].pc = "write"
    /\ LET c == call[a].on IN
        /\ open[c]
        /\ written' = [written EXCEPT ![c] = IF call[a].op = "subscribe"
                                             THEN @ \cup call[a].toks
                                             ELSE @ \ call[a].toks]
    /\ Unlock(a)
    /\ UNCHANGED <<connVars, conn, connected, hook, sent, crashed>>

\* The error of WriteJSON is dropped, and with it the subscription.
WriteLost(a) ==
    /\ call[a].pc = "write"
    /\ LET c == call[a].on IN ~open[c] \/ peer[c] = "gone" \/ pinger[c] = "writing"
    /\ Unlock(a)
    /\ UNCHANGED <<connVars, conn, connected, hook, sent, written, crashed>>

\* gorilla's "concurrent write to websocket connection".
Panic(a) ==
    /\ call[a].pc = "write"
    /\ pinger[call[a].on] = "writing"
    /\ crashed' = TRUE
    /\ UNCHANGED <<connVars, connMu, conn, connected, hook, sent, written, call>>

CallStep(a) == LockNil(a) \/ LockConn(a) \/ WriteOk(a) \/ WriteLost(a)

-----------------------------------------------------------------------------
\* What the loop's goroutine does; it is busy while a callback is in a call.
RunStep ==
    \/ LoopStep
    \/ \E c \in Conns : Dialled(c)
    \/ SendBatch \/ SendBatchFails \/ Publish \/ StoreConnected
    \/ AppOnConnect \/ Dispatch
    \/ ClearConn \/ StoreDisconnected \/ AppOnDisconnect

\* Steps of the connection that leave the feed alone.
ConnStep ==
    /\ \/ CtxCancel
       \/ Tick
       \/ \E c \in Conns : PingerStep(c) \/ DeadmanStep(c) \/ PeerStep(c)
    /\ UNCHANGED marketVars

Next ==
    /\ ~crashed
    /\ \/ RunStep
       \/ ConnStep
       \/ \E a \in Callers :
            \/ \E op \in Ops, toks \in AppTokens : Call(a, op, toks)
            \/ CallStep(a)
            \/ Panic(a)

Spec == Init /\ [][Next]_vars

\* A write on a connection returns: the peer reads, or it is gone or closed.
Fairness ==
    /\ WF_vars(~crashed /\ RunStep)
    /\ WF_vars(~crashed /\ Tick /\ UNCHANGED marketVars)
    /\ \A a \in Callers : SF_vars(~crashed /\ CallStep(a))
    /\ \A c \in Conns :
        /\ WF_vars(~crashed /\ PingEnd(c) /\ UNCHANGED marketVars)
        /\ SF_vars(~crashed /\ PingExit(c) /\ UNCHANGED marketVars)
        /\ WF_vars(~crashed /\ DeadmanStep(c) /\ UNCHANGED marketVars)

FairSpec == Spec /\ Fairness

-----------------------------------------------------------------------------
(* Properties *)

CallRecords ==
    [pc : {"idle", "lock", "write"}, op : Ops,
     toks : SUBSET UNION AppTokens, on : Conns \cup {NoConn}]

Configured == {tokenIDs[j] : j \in DOMAIN tokenIDs}

\* Every variable of the feed stays within its type.
TypeOK ==
    /\ connMu \in Callers \cup {Nobody}
    /\ conn \in Conns \cup {NoConn}
    /\ connected \in BOOLEAN
    /\ hook \in HookStates
    /\ sent \in 0..NBatches
    /\ written \in [Conns -> SUBSET (Configured \cup UNION AppTokens)]
    /\ call \in [Callers -> CallRecords]
    /\ crashed \in BOOLEAN

\* Pings beside calls aside, a connection has one writer: two calls never write
\* at once, neither a call nor the pinger writes while the handshake does, and a
\* call never writes to anything but the running session's connection,
\* reconnections included.
OneWriter ==
    /\ \A a, b \in Callers : call[a].pc = "write" /\ call[b].pc = "write" => a = b
    /\ \A a \in Callers : call[a].pc = "write" =>
            call[a].on = conn /\ conn \in Conns /\ hook \notin {"subscribe", "publish"}
    /\ hook \in {"subscribe", "publish", "store"} => pinger[cur] = "off"

\* What the program sees agrees with the session: from the onConnect callback
\* on, and in every message callback, SubscribeTokens reaches the session's
\* connection and Connected() says so; once onDisconnect is called, and until
\* the next handshake, there is neither a connection nor the flag.
ViewAgrees ==
    /\ loop \in {"onUp", "spawn", "check", "recv", "onMessage", "cancel"}
            => conn = cur /\ connected
    /\ hook = "notify" \/ loop \in {"top", "dial", "backoff", "stopped"}
            => conn = NoConn /\ ~connected
    /\ conn # NoConn /\ cur # NoConn => conn = cur

\* A connection is published only when every configured token has been
\* subscribed on it, across all batches and after every reconnection.
PublishedSubscribed ==
    [][conn' # conn /\ conn' # NoConn
            => Configured \subseteq written[conn']]_vars

ConfiguredOnce == \A i, j \in DOMAIN tokenIDs : tokenIDs[i] = tokenIDs[j] => i = j

\* A frame of the handshake is not empty, and subscribes no token that another frame
\* or a call has subscribed on the same connection: the server sends a token's book
\* once for each subscription (ws.go:205-212, batchStrings).
EachTokenOnce ==
    [][ConfiguredOnce /\ SendBatch
            => Batch(sent + 1) # {} /\ Batch(sent + 1) \cap written[cur] = {}]_vars

\* Every SubscribeTokens and UnsubscribeTokens returns, in particular when
\* the callbacks of the feed make the call and when the session ends under it.
CallsReturn == \A a \in Callers : call[a] # NoCall ~> (call[a] = NoCall \/ crashed)
=============================================================================
