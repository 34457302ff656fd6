--------------------------- MODULE OrderLifecycle ---------------------------
(***************************************************************************)
(* Posting, cancelling and listing orders, clob/client.go and              *)
(* clob/prefetch.go: replicas of a program trade for one account.  They    *)
(* persist nothing and know of each other through the exchange only.  A    *)
(* request is answered, fails, is lost, or arrives after its call failed.  *)
(*                                                                         *)
(* The library gives a call's answer or an error; what a replica makes of  *)
(* it is the contract that CancelOrders states for its caller.  Fills that *)
(* the user feed reports are left out: UserWS models them.                 *)
(***************************************************************************)
EXTENDS Naturals, FiniteSets

CONSTANTS
    Replicas,
    Intents,        \* an id with the inputs of its order
    Deterministic,  \* the intents built WithDeterministicID
    PostOnly,       \* the intents built AsPostOnly
    MaxBatch,       \* 15 in the code
    NoRequest,
    Times,          \* what the clock may show when an order is built
    ServerPage,     \* orders in a page of the exchange's list
    Place           \* where an order has its place in that list

\* What distinguishes the order built for an intent from another one: its salt
\* is a function of the id, its timestamp of the id or of the clock.
Orders == [intent : Intents, stamp : Times \cup {"id"}]

Kinds == {"post", "cancel", "list"}
Requests == [kind : Kinds, orders : SUBSET Orders, postOnly : SUBSET Orders]

ASSUME IntentsAssumption == Deterministic \subseteq Intents /\ PostOnly \subseteq Intents
ASSUME BatchAssumption == MaxBatch \in Nat
Answers == [orders : SUBSET Orders, more : BOOLEAN]

ASSUME NoneAssumption == NoRequest \notin Requests \cup Answers \cup Orders
ASSUME PageAssumption ==
    /\ ServerPage \in Nat \ {0}
    /\ IsFiniteSet(Orders)
    /\ Place \in [Orders -> Nat]
    /\ \A o, p \in Orders : Place[o] = Place[p] => o = p

NoAnswer == NoRequest

VARIABLES
    book,           \* the exchange: what became of each order
    held,           \* per replica, signed orders not known to be taken
    live,           \* per replica, orders it believes to rest
    request,        \* per replica, the request its call has made
    answer,         \* per replica, the exchange's answer, on its way
    all,            \* per replica, the orders of the pages its GetOrders has read
    cursor,         \* per replica, where the page it asks for begins
    shifted,        \* history, per replica: an order has left the exchange's list
                    \* between two pages of its GetOrders
    late            \* a post whose call is over, on its way (bound: one)

local == <<held, live>>
pages == <<all, cursor, shifted>>
network == <<request, answer, pages, late>>
vars == <<book, local, network>>

\* A filled order matched when it arrived or later; one that expires is canceled.
Fates == {"none", "resting", "filled", "canceled"}
Resting == {o \in Orders : book[o] = "resting"}

Init ==
    /\ book = [o \in Orders |-> "none"]
    /\ held = [r \in Replicas |-> {}]
    /\ live = [r \in Replicas |-> {}]
    /\ request = [r \in Replicas |-> NoRequest]
    /\ answer = [r \in Replicas |-> NoAnswer]
    /\ all = [r \in Replicas |-> {}]
    /\ cursor = [r \in Replicas |-> 0]
    /\ shifted = [r \in Replicas |-> FALSE]
    /\ late = NoRequest

-----------------------------------------------------------------------------
(* The calls: a replica makes one at a time *)

Idle(r) == request[r] = NoRequest
Waiting(r, kind) == ~Idle(r) /\ request[r].kind = kind

\* Mutant: the timestamp may come from the clock for any order.
StampsFallBack(i) == Times \cup {"id"}

Stamps(i) == IF i \in Deterministic THEN {"id"} ELSE Times

BuildOrder(r, i) ==
    /\ Idle(r)
    /\ \E stamp \in Stamps(i) :
        held' = [held EXCEPT ![r] = @ \cup {[intent |-> i, stamp |-> stamp]}]
    /\ UNCHANGED <<book, live, network>>

Sends(r, kind, orders, postOnly) ==
    /\ Idle(r)
    /\ request' = [request EXCEPT ![r] = [kind |-> kind, orders |-> orders, postOnly |-> postOnly]]
    /\ UNCHANGED <<book, local, answer, pages, late>>

\* Mutant: the batch is built as PostOrder builds its request.
PostOrdersUnflagged(r, batch) == batch # {} /\ Sends(r, "post", batch, {})

\* A longer batch returns an error and nothing is sent.
PostOrders(r, batch) ==
    /\ batch # {} /\ Cardinality(batch) <= MaxBatch
    /\ Sends(r, "post", batch, {o \in batch : o.intent \in PostOnly})

\* The flags of the order are not in the request.
PostOrder(r, o) == Sends(r, "post", {o}, {})

CancelOrders(r, ids) == ids # {} /\ Sends(r, "cancel", ids, {})

CancelAll(r) == Sends(r, "cancel", Orders, {})

\* The first page, from cursor 0 ("MA==").
GetOrders(r) == Sends(r, "list", {}, {})

Call(r) ==
    \/ \E batch \in SUBSET held[r] : PostOrders(r, batch)
    \/ \E o \in held[r] : PostOrder(r, o)
    \/ \E ids \in SUBSET live[r] : CancelOrders(r, ids)
    \/ CancelAll(r)
    \/ GetOrders(r)

-----------------------------------------------------------------------------
(* The exchange *)

\* An order it has seen before is refused, another may rest, match at once
\* unless it is post-only, or be refused.
Posted(req) ==
    LET fresh == {o \in req.orders : book[o] = "none"}
    IN  \E fate \in [fresh -> {"none", "resting", "filled"}] :
            /\ \A o \in fresh \cap req.postOnly : fate[o] # "filled"
            /\ book' = [o \in Orders |-> IF o \in fresh THEN fate[o] ELSE book[o]]

\* Some of the orders that still rest may stay.
Canceled(req) ==
    \E ids \in SUBSET (req.orders \cap Resting) :
        book' = [o \in Orders |-> IF o \in ids THEN "canceled" ELSE book[o]]

Handled(req) ==
    CASE req.kind = "post" -> Posted(req)
      [] req.kind = "cancel" -> Canceled(req)
      [] req.kind = "list" -> UNCHANGED book

\* A page of the orders that rest when it is asked for, cut by their places then;
\* the last one has the end's cursor.  In the older shape it is a bare array.
Ahead(o) == Cardinality({p \in Resting : Place[p] < Place[o]})

Page(from) == [orders |-> {o \in Resting : Ahead(o) \in from..(from + ServerPage - 1)},
               more   |-> from + ServerPage < Cardinality(Resting)]

BareArray(from) == [orders |-> {o \in Resting : Ahead(o) >= from}, more |-> FALSE]

\* GetOrders has asked for a page and has another one to ask for or to be given.
BetweenPages(r) ==
    Waiting(r, "list") /\ IF answer[r] = NoAnswer THEN cursor[r] > 0 ELSE answer[r].more

\* An order that leaves the list moves those behind it up, past a cursor maybe.
Shifts ==
    shifted' = [r \in Replicas |-> shifted[r] \/ (BetweenPages(r) /\ ~(Resting \subseteq Resting'))]

\* The orders it has taken or canceled, or a page of those that rest.
Replies(r) ==
    IF request[r].kind = "list" THEN {Page(cursor[r]), BareArray(cursor[r])}
    ELSE {[orders |-> {o \in request[r].orders : book'[o] # book[o]}, more |-> FALSE]}

RequestArrives(r) ==
    /\ ~Idle(r) /\ answer[r] = NoAnswer
    /\ Handled(request[r])
    /\ \E reply \in Replies(r) : answer' = [answer EXCEPT ![r] = reply]
    /\ Shifts
    /\ UNCHANGED <<local, request, all, cursor, late>>

LateArrives ==
    /\ late # NoRequest
    /\ Posted(late)
    /\ late' = NoRequest
    /\ UNCHANGED <<local, request, answer, pages>>

\* A resting order is filled, or canceled for another reason than a call.
OrderEnds(o) ==
    /\ book[o] = "resting"
    /\ \E fate \in {"filled", "canceled"} : book' = [book EXCEPT ![o] = fate]
    /\ Shifts
    /\ UNCHANGED <<local, request, answer, all, cursor, late>>

-----------------------------------------------------------------------------
(* The end of a call *)

CallEnds(r) ==
    /\ request' = [request EXCEPT ![r] = NoRequest]
    /\ answer' = [answer EXCEPT ![r] = NoAnswer]
    /\ all' = [all EXCEPT ![r] = {}]
    /\ cursor' = [cursor EXCEPT ![r] = 0]
    /\ shifted' = [shifted EXCEPT ![r] = FALSE]

Answered(r, kind) ==
    /\ Waiting(r, kind)
    /\ answer[r] # NoAnswer
    /\ CallEnds(r)

\* An order that is refused stays: the exchange may have it from an earlier post.
PostAnswered(r) ==
    /\ Answered(r, "post")
    /\ live' = [live EXCEPT ![r] = @ \cup answer[r].orders]
    /\ held' = [held EXCEPT ![r] = @ \ answer[r].orders]
    /\ UNCHANGED <<book, late>>

\* Mutant: the ids of the request are taken for cancelled.
CancelAnsweredAll(r) ==
    /\ Answered(r, "cancel")
    /\ live' = [live EXCEPT ![r] = @ \ request[r].orders]
    /\ UNCHANGED <<book, held, late>>

\* An empty body is an empty answer.
CancelAnswered(r) ==
    /\ Answered(r, "cancel")
    /\ \E canceled \in {answer[r].orders, {}} : live' = [live EXCEPT ![r] = @ \ canceled]
    /\ UNCHANGED <<book, held, late>>

\* GetOrders asks for the next page: the exchange's cursor is where the last ended.
PageAnswered(r) ==
    /\ Waiting(r, "list")
    /\ answer[r] # NoAnswer /\ answer[r].more
    /\ all' = [all EXCEPT ![r] = @ \cup answer[r].orders]
    /\ cursor' = [cursor EXCEPT ![r] = @ + ServerPage]
    /\ answer' = [answer EXCEPT ![r] = NoAnswer]
    /\ UNCHANGED <<book, local, request, shifted, late>>

\* Mutant: of several pages the last one is returned.
LastPageOnly(r) ==
    /\ Answered(r, "list")
    /\ ~answer[r].more
    /\ live' = [live EXCEPT ![r] = answer[r].orders]
    /\ UNCHANGED <<book, held, late>>

\* The last page.  What a replica lists it takes over, whoever has posted it.
ListAnswered(r) ==
    /\ Answered(r, "list")
    /\ ~answer[r].more
    /\ live' = [live EXCEPT ![r] = all[r] \cup answer[r].orders]
    /\ UNCHANGED <<book, held, late>>

\* The request was lost, or a post is still on its way.
Abandoned(r) ==
    \/ UNCHANGED late
    \/ Waiting(r, "post") /\ answer[r] = NoAnswer /\ late' = request[r]

\* doRequest or the decoding fails: the context, the headers, the transport, the
\* body, or a status other than 200.
Fails(r) ==
    /\ ~Idle(r)
    /\ CallEnds(r)
    /\ Abandoned(r)
    /\ UNCHANGED <<book, local>>

\* The process ends and starts again.
Crash(r) ==
    /\ CallEnds(r)
    /\ Abandoned(r)
    /\ held' = [held EXCEPT ![r] = {}]
    /\ live' = [live EXCEPT ![r] = {}]
    /\ UNCHANGED book

-----------------------------------------------------------------------------
Next ==
    \/ \E r \in Replicas :
        \/ \E i \in Intents : BuildOrder(r, i)
        \/ Call(r) \/ RequestArrives(r)
        \/ PostAnswered(r) \/ CancelAnswered(r) \/ PageAnswered(r) \/ ListAnswered(r)
        \/ Fails(r) \/ Crash(r)
    \/ LateArrives
    \/ \E o \in Orders : OrderEnds(o)

Spec == Init /\ [][Next]_vars

-----------------------------------------------------------------------------
(* Properties *)

\* Every variable keeps its type.
TypeOK ==
    /\ book \in [Orders -> Fates]
    /\ held \in [Replicas -> SUBSET Orders]
    /\ live \in [Replicas -> SUBSET Orders]
    /\ request \in [Replicas -> Requests \cup {NoRequest}]
    /\ answer \in [Replicas -> Answers \cup {NoAnswer}]
    /\ all \in [Replicas -> SUBSET Orders]
    /\ cursor \in [Replicas -> Nat]
    /\ shifted \in [Replicas -> BOOLEAN]
    /\ late \in Requests \cup {NoRequest}

\* An intent built WithDeterministicID becomes one order at most, however often
\* replicas that know nothing of each other build, post and repost it, and
\* whatever answers are lost (client.go:207-209).
OncePerId ==
    \A o, p \in Orders :
        /\ o.intent = p.intent /\ o.intent \in Deterministic
        /\ book[o] # "none" /\ book[p] # "none"
        => o = p

Known(r) == held[r] \cup live[r]

\* Only a crash, or a GetOrders between two of whose pages an order has left the
\* exchange's list, makes a replica forget an order that is not at its end
\* (prefetch.go:121-156): in that one case the orders behind move up, and one of
\* them is on neither page.  No lost answer, late arrival, partial cancel, order
\* that comes between two pages, or list that is old on arrival does.
ForgetsOnlyEnded ==
    [][\A r \in Replicas : \A o \in Known(r) \ Known(r)' :
        \/ book[o] \in {"filled", "canceled"}
        \/ Crash(r)
        \/ Waiting(r, "list") /\ shifted[r]]_vars

\* What a replica drops when a cancel returns is canceled, and not filled in the
\* meantime or refused: it can release what it had reserved (client.go:508-514).
DropsOnlyCanceled ==
    [][\A r \in Replicas : Waiting(r, "cancel") =>
        \A o \in live[r] \ live'[r] : book[o] = "canceled" \/ Crash(r)]_vars

OfPostOrder(o) == [kind |-> "post", orders |-> {o}, postOnly |-> {}]

PlainlySent(o) == late = OfPostOrder(o) \/ \E r \in Replicas : request[r] = OfPostOrder(o)

\* An order built AsPostOnly never matches on arrival, unless it was sent with
\* PostOrder, which drops the flag.
PostOnlyKept ==
    [][\A o \in Orders : o.intent \in PostOnly /\ book[o] = "none" /\ book'[o] = "filled" =>
        PlainlySent(o)]_vars
=============================================================================
