------------------------------- MODULE UserWS -------------------------------
(***************************************************************************)
(* The user feed of polymarket/userws.go on top of the loop of WSConn, and *)
(* the exchange as far as the feed can tell: orders are filled at any      *)
(* time, and the fills are streamed on a connection once the server has    *)
(* acted on its subscription.  The program learns of fills from onFill,    *)
(* and from what it fetches in onReconnect.                                *)
(*                                                                         *)
(* The feed has no deadman (deadmanSec is left 0), and the program sets    *)
(* onReconnect: without it nothing fetches what was missed.                *)
(***************************************************************************)
EXTENDS WSConn, FiniteSets

CONSTANTS
    Fills,          \* identities of the trades of this account
    Orders          \* identities of its orders

FillStatus == {"MATCHED", "MINED", "CONFIRMED", "RETRYING", "FAILED"}

Trade(f, status) == [event_type |-> "trade", id |-> f, status |-> status]
OrderEvent(o) == [event_type |-> "order", id |-> o]

UserFrames ==
    {Trade(f, s) : f \in Fills, s \in FillStatus} \cup {OrderEvent(o) : o \in Orders}

ASSUME UserAssumption == Data = UserFrames /\ ~HasDeadman /\ HasReconnect

VARIABLES
    connected,      \* u.connected
    asked,          \* the subscription has been written on a connection
    streaming,      \* the server has acted on it
    executed,       \* fills the exchange has made
    known,          \* fills the program has learnt of
    orders,         \* orders the program has heard of
    gap             \* fills made while neither a resync nor the stream could show them

userVars == <<connected, asked, streaming, executed, known, orders, gap>>
uvars == <<connVars, userVars>>

UserInit ==
    /\ ConnInit
    /\ connected = FALSE
    /\ asked = [c \in Conns |-> FALSE]
    /\ streaming = [c \in Conns |-> FALSE]
    /\ executed = {}
    /\ known = {}
    /\ orders = {}
    /\ gap = {}

-----------------------------------------------------------------------------
(* The hooks of Run *)

UserDialled(c) ==
    /\ DialOk(c)
    /\ asked' = [asked EXCEPT ![c] = FALSE]
    /\ streaming' = [streaming EXCEPT ![c] = FALSE]
    /\ UNCHANGED <<connected, executed, known, orders, gap>>

\* The subscription is written; no answer is awaited.
Subscribe ==
    /\ OnConnectOk
    /\ asked' = [asked EXCEPT ![cur] = TRUE]
    /\ connected' = TRUE
    /\ UNCHANGED <<streaming, executed, known, orders, gap>>

SubscribeFails == OnConnectErr /\ UNCHANGED userVars

UserOnConnect == OnUp /\ UNCHANGED userVars

\* Mutant: the program is told of a reconnection and fetches nothing.
ResyncNothing == OnReconnect /\ UNCHANGED userVars

\* The program's onReconnect fetches every fill made so far.
Resync ==
    /\ OnReconnect
    /\ known' = executed
    /\ gap' = {}
    /\ UNCHANGED <<connected, asked, streaming, executed, orders>>

UserOnDown ==
    /\ OnDown
    /\ connected' = FALSE
    /\ UNCHANGED <<asked, streaming, executed, known, orders, gap>>

-----------------------------------------------------------------------------
(* dispatchRaw, dispatchTrade and dispatchOrder *)

\* Only MATCHED trades reach onFill.
ReportsFill(frame) ==
    frame.event_type = "trade" /\ frame.status = "MATCHED"

DispatchRaw ==
    /\ OnMessage
    /\ known' = known \cup {f \in Fills : raw.id = f /\ ReportsFill(raw)}
    /\ orders' = orders \cup {o \in Orders : raw.id = o /\ raw.event_type = "order"}
    /\ UNCHANGED <<connected, asked, streaming, executed, gap>>

-----------------------------------------------------------------------------
(* The exchange *)

ServerSubscribes(c) ==
    /\ asked[c]
    /\ open[c] /\ peer[c] = "up"
    /\ ~streaming[c]
    /\ streaming' = [streaming EXCEPT ![c] = TRUE]
    /\ UNCHANGED <<connVars, connected, asked, executed, known, orders, gap>>

Reading == loop \in {"spawn", "check", "recv", "onMessage"}

\* A fill that a running stream shows.
ExecuteStreamed(c, f) ==
    /\ f \notin executed
    /\ streaming[c]
    /\ PeerSend(c, Trade(f, "MATCHED"))
    /\ executed' = executed \cup {f}
    /\ UNCHANGED <<connected, asked, streaming, known, orders, gap>>

\* A fill no stream shows: it is in the gap before the first subscription
\* takes effect, and between a resync and the server acting on the new one.
ExecuteUnseen(f) ==
    /\ f \notin executed
    /\ \A c \in Conns : ~(streaming[c] /\ open[c] /\ peer[c] = "up")
    /\ executed' = executed \cup {f}
    /\ gap' = IF first \/ Reading THEN gap \cup {f} ELSE gap
    /\ UNCHANGED <<connVars, connected, asked, streaming, known, orders>>

\* Later news of a fill, and news of orders.
ServerReports(c) ==
    /\ streaming[c]
    /\ \/ \E f \in executed, s \in FillStatus \ {"MATCHED"} : PeerSend(c, Trade(f, s))
       \/ \E o \in Orders : PeerSend(c, OrderEvent(o))
    /\ UNCHANGED userVars

-----------------------------------------------------------------------------
UserLoop ==
    \/ LoopPlain /\ UNCHANGED userVars
    \/ \E c \in Conns : UserDialled(c)
    \/ Subscribe \/ SubscribeFails \/ UserOnConnect \/ Resync \/ DispatchRaw \/ UserOnDown

UserEnvironment ==
    \/ /\ \/ CtxCancel
          \/ \E c \in Conns : PingerStep(c) \/ PeerGone(c)
       /\ UNCHANGED userVars
    \/ \E c \in Conns :
        \/ ServerSubscribes(c) \/ ServerReports(c)
        \/ \E f \in Fills : ExecuteStreamed(c, f)
    \/ \E f \in Fills : ExecuteUnseen(f)

UserNext == UserLoop \/ UserEnvironment

UserSpec == UserInit /\ [][UserNext]_uvars

-----------------------------------------------------------------------------
(* Properties *)

\* Every variable of the feed stays within its type.
UserTypeOK ==
    /\ connected \in BOOLEAN
    /\ asked \in [Conns -> BOOLEAN]
    /\ streaming \in [Conns -> BOOLEAN]
    /\ executed \subseteq Fills
    /\ known \subseteq executed
    /\ orders \subseteq Orders
    /\ gap \subseteq executed

\* Connected() is true from the subscription to the end of the session, and
\* false from the onDisconnect callback to the next subscription.
ConnectedInSession ==
    /\ loop \in {"onUp", "onReconnect", "spawn", "check", "recv", "onMessage", "cancel"}
            => connected
    /\ loop \in {"top", "dial", "onConnect", "backoff", "stopped"} => ~connected

\* Fills a session holds and has not handed over.
InFlight ==
    {f \in Fills : \/ raw = Trade(f, "MATCHED")
                   \/ \E i \in DOMAIN inbox[cur] : inbox[cur][i] = Trade(f, "MATCHED")}

\* Across any number of lost connections and failed dials, the program that
\* fetches its fills in onReconnect misses none: while a session is being
\* read, what it does not know is on its way, or was made in the one window the
\* code leaves open, because it does not wait for the server to confirm the
\* subscription before onReconnect runs.
NoFillLost ==
    Reading /\ peer[cur] = "up" => executed \subseteq known \cup InFlight \cup gap
=============================================================================
