# A verification model of polymarket-go

polymarket-go is a client library for the Polymarket exchange: two reconnecting
websocket feeds, a client for the order book's HTTP interface (CLOB), a client
that sends on-chain transactions through a relayer, market metadata, and an
HTTP/3 transport. This directory holds TLA+ modules for the parts whose
correctness depends on the order of events or on arithmetic at a boundary, the
TLC configurations that check them on small instances, and proofs, checked by
TLAPS, that hold for every value of the constants. `PROJECT.json` maps each
definition to the lines it models.

Check a model with `tlc -config <cfg> <module>`, proofs with
`tlapm` on the eight `...Proofs.tla` modules.

## Inventory

### Websocket loop (`polymarket/wsconn.go`), modelled by `WSConn`
- State: the position of `wsLoop`, its backoff and `firstConnect`; per
  connection: open or closed, what the peer has sent, the pinger and deadman
  goroutines, the one-place channel `lastMsg` and the deadman's timer.
- Operations: dial, the hooks of the owner (`onConnect`, `onUp`, `onReconnect`,
  `onMessage`, `onDown`), reading, pinging, the deadman's close, backing off,
  the caller's cancel.
- Interacts with the feeds, which supply the hooks, and with the peer.
- Hard: the select of the deadman against frames and cancel, goroutines of a
  session that is over, a cancel that does not interrupt a read, failures
  between dial and publication.
- Correct if: no socket leaks; only silence ends a session by its deadman; only
  a session's own goroutines close its connection; silence is noticed; a cancel
  stops it; the owner sees frames in order, inside a session.

### Market feed (`polymarket/ws.go`), modelled by `MarketWS`
- State: `connMu`, `conn`, `connected`; what has been subscribed on a connection.
- Operations: `Run` and its hooks, `SubscribeTokens`, `UnsubscribeTokens` from
  any goroutine and from the feed's own callbacks.
- Hard: three writers (handshake, callers, pinger) on a connection that allows
  one; a call that spans a reconnection; a callback that calls back.
- Correct if: calls and handshake exclude each other; what the program sees
  agrees with the session; a published connection has every token subscribed, once;
  calls return.

### User feed (`polymarket/userws.go`), modelled by `UserWS`
- State: `connected`; what the program knows of its fills and orders.
- Operations: `Run` and its hooks, the dispatch of trades and orders.
- Hard: fills made while nobody streams them; no deadman.
- Correct if: a program that resyncs in `onReconnect` misses no fill.

### Order building (`clob/client.go`, `clob/types.go`), modelled by `OrderBuild`
- State: none; a sequence of validations, then arithmetic.
- Hard: float64 sizes on a grid of hundredths; the minimum and the fee
  adjustment at their boundaries.
- Correct if: an order is never for more than was asked, for the minimum at
  least, at exactly its limit price, and for the net size after fees.

### Tick sizes (`clob/cache.go`, `clob/prefetch.go`), modelled by `TickSizeCache`
- State: a map with times under a lock; the position, failures and calls of
  `store` of a prefetch, its workers with their attempts.
- Operations: `GetTickSize` from any goroutine, `PrefetchTickSizes`, its cancel.
- Hard: requests outside the lock, two goroutines asking for one token, an
  empty value cached, a short last batch, workers that outlive their batch.
- Correct if: what is given was served for that token; batches do not overlap;
  every entry is stored or reported; the prefetch returns.

### Session store (`transport/session/store.go`), modelled by `SessionStore`
- State: entries, dirty flag and time of the last save under a lock; a file
  replaced by rename, temporary files.
- Operations: `Put` and the `Flush` it may run, `Transport.Close`, `load`.
- Hard: the process may end at any point; each step of a flush may fail.
- Correct if: the file is always one whole snapshot; a store that is not dirty
  is saved.

### Relayer and on-chain operations (`clob/relayer.go`, `clob/onchain.go`), modelled by `RelayGas` and `Relayer`
- State: the cache of approved spenders under a lock; a `TxBuilder` per
  goroutine; at the relayer, the transactions and how far each has come.
- Operations: `EnsureApproval`, `TxBuilder` with `SendWithReport` and
  `Preflight`, `WaitForConfirmed`.
- Hard: the cache is read before a transaction is sent and written after; an
  answer to a submission may be lost though the transaction was taken; an
  executed transaction may still fail; after the verdict a wait asks the node for
  the receipt, with no timeout of its own; gas at the limit of RelayHub's guard.
- Correct if: what is sent fits the guard; an error of a kind means that nothing
  was sent; no half approval goes out; a verdict is final; a cached spender is
  not approved again; calls return, but for a wait whose verdict is known while
  the node stays silent and its context does not end.

### Order placement and cancelling (`clob/client.go`, `clob/prefetch.go`), modelled by `OrderLifecycle`
- State: none in the library; at the exchange, what became of each order; in each
  replica of a program, the signed orders it holds and those it believes to rest.
- Operations: `BuildOrder` with its ids, `PostOrder`, `PostOrders`, `CancelOrders`,
  `CancelAll`, `GetOrders`.
- Hard: an answer is lost, or a post arrives after its call has failed; an order
  is filled while it is canceled, or between two pages of a list; replicas share an
  account; a process ends and remembers nothing.
- Correct if: a deterministic id is one order; only a crash, or an order that leaves
  the list between two pages, makes a replica forget an order that may rest; what a
  cancel's answer names is canceled; a post-only order never takes.

### Fee rates, paging, credentials, Gamma, modelled by `FeePrefetch`, `AccountQueries`, `InitAuth`, `GammaFetch`
- State: the semaphore, goroutines and counter of a prefetch; offset and rows of a
  paged list; `c.creds`; the attempts of a request.
- Operations: `PrefetchFeeRates`; `GetOrders` and `GetInventory`; `InitAuth`;
  `httpGet` and its callers. `ClientCalls` composes them.
- Hard: a slot lost on an error path; rows that come and go between two pages;
  credentials made by somebody else, or deleted, between create and derive; what
  is tried again and what is not.
- Correct if: no goroutine outlives its prefetch; a list is wrong by what has
  changed at most; stored credentials were valid; the last answer decides; calls return.

### Left out
- Signatures, HMAC and salts (`clob/auth.go`): pure cryptography.
- The HTTP/3 and TLS glue (`transport/h3`, `transport/tlsconf`): it configures libraries.
- The stateless JSON decoders (`flex.go`), the fields of Gamma's and the feeds'
  records, the fee formulas and the days to expiry of `polymarket/market.go`: no
  order of events, one input and one output, reached by unit tests.
- `PostHeartbeat`, `GetTrades`, `GetOrder` and the balances: one request, and the
  client keeps nothing of the answer.
- The filter hook of the user feed and the setters, which are called before `Run`.
- Calls after `InitAuth` has failed: the client then has no credentials and
  `L2Headers` reads a nil pointer (`clob/auth.go:232`). `ClientCalls` makes
  no signed call before `InitAuth` has succeeded.

## The modules

| module | models | proofs |
|---|---|---|
| `FeedView` | abstract: what a feed promises its owner | `WSConnProofs` |
| `WSConn` | the loop, its goroutines, the peer, the clock | `WSConnProofs` |
| `MarketWS` (extends `WSConn`) | the market feed and its callers | `MarketWSProofs` |
| `UserWS` (extends `WSConn`) | the user feed and the exchange's fills | `UserWSProofs` |
| `OrderBuild` | `BuildOrder`, `computeOrderAmounts` | `OrderProofs` |
| `TickSizeCache` | `GetTickSize`, `PrefetchTickSizes` | `TickSizeProofs` |
| `SnapshotFile` | abstract: a file that keeps a set across restarts | `SessionStoreProofs` |
| `SessionStore` | `Put`, `Flush`, `load`, the process ending | `SessionStoreProofs` |
| `RelayGas` | the gas a transaction is signed for, and the guard | |
| `Relayer` (extends `RelayGas`) | approvals, batches, submission, polling, the relayer | `RelayerProofs` |
| `OrderLifecycle` | posts, cancels and lists of several replicas, the network, the exchange | `OrderProofs` |
| `FeePrefetch`, `AccountQueries`, `InitAuth`, `GammaFetch` | the calls of one client, one module each | |
| `ClientCalls` (extends these) | a goroutine that makes the calls one after another | `ClientCallsProofs` |
| `MC...` | symmetry sets and input sets for TLC | |

**WSConn.** `loop` is the position of the goroutine in `Run`; each action is a
step of one goroutine between two points where another can observe it. The
session's variables are functions of the connection, so goroutines of earlier
sessions live on beside the current one. A connection object is used again for
a later dial once nothing refers to it (`Free`), so runs reconnect without bound
in a finite state space. A select is the disjunction of its ready branches.
Time is a `Tick` that ages the deadmen's timers; `quiet` is a history variable,
the ticks since `ReadMessage` last returned. The owner's hooks are single
actions here; the feeds refine them. `onConnect` fails only when the peer is
gone, a write to a connection that nobody has closed failing for no other reason.

**MarketWS.** Actions of `WSConn` are conjoined with what the hooks do to the
feed's variables. `hook` is the position inside a hook that takes several
steps: batches of the subscription, then `Publish`, then `StoreConnected`; in
`onDown` `ClearConn`, `StoreDisconnected`, `AppOnDisconnect`. A call of
`SubscribeTokens` takes the lock (`LockNil`, `LockConn`) and writes (`WriteOk`,
`WriteLost`). A write that overlaps a ping is gorilla's choice: it succeeds, it
fails, or the program panics (`Panic`, after which nothing happens). A callback
that calls the feed is the caller `Run`: the loop waits until it returns. `written`
is a history variable: the tokens that the frames written on a connection
subscribe.

**UserWS.** The exchange makes fills at any time. A fill is streamed if the
server has acted on the session's subscription, and otherwise found only by the
program's `onReconnect`, assumed to fetch every fill made so far. `gap` collects
the fills of the windows that the code leaves open: before the first
subscription takes effect, and between a resync and the server acting on the new
subscription, for which the code does not wait.

**OrderBuild.** Sizes are thousandths of a share and prices ticks. `BelowGrid`
computes exactly whether the product of 100 and the float64 nearest to `k`
hundredths is rounded below `k`: the residue of `k * 2^e` modulo 100 gives the
error of that float64, which is compared with half the distance from `k` to the
float64 below it. The fee-adjusted size is a quotient rounded up; where the exact
quotient is a whole number float64 may give it or a little more, a
nondeterministic choice. `math.Round` recovers the tick of a price exactly, so
prices carry no error. From 2^23 hundredths on (83886 shares) the tolerance of the
alignment check (1e-9) is finer than float64, and the code may reject a size that is
on the grid; the model builds those orders too. That the quotient is rounded as
modelled holds as long as it is small against 2^53 / 10^7, some 10^8 hundredths.

**TickSizeCache.** A getter (a worker of the prefetch, or another goroutine)
goes from `lookup` to `fetch` to `cache`: the exchange answers in one step
(`Answer`) and the answer is cached in a later one (`Cache`), so an older answer
may overwrite a newer one. An answer is the token's tick size or the empty
string, which the code caches too; `NoAnswer` is every error. `Expire` stands for
the TTL. `past` is a history variable, the tick sizes a token has had. A worker's
locals are forgotten when it ends.

**SessionStore.** `Put` is one critical section; `Flush` takes the lock and then
goes step by step, since the process may end between two of them (`Restart`) and
each may fail. What the operating system has accepted survives the process;
a loss of power is not modelled (the code does not sync). The file holds keys
only. `load` decodes the file and drops the result, so a new process starts empty:
`SnapshotFile` says what the file holds, not that anybody uses it.
`litter` counts temporary files that nothing will remove, those of failing renames
among them.

**Relayer.** A call is at a request (`payload`, `estimate`, `simulate`, `submit`)
or in the wait (`ticker`, `poll`, and after the verdict `receipt` and `lookup`, the
two requests of `fillTxResult` to the node); what the code computes between two requests is
part of the action that receives the first one's answer, and the lock around the
cache is never held across a request. Taking a transaction and answering are two
steps, so an answer may be lost, and a request that was given up may be taken
later (`late`). A builder is dropped when its send returns: one that is sent again
is built again with the same operations. The kinds of a `RelayerError` are one
outcome, `refused`; in particular a node that does not answer an estimate is
reported as a revert. The nonce and the signature are not represented: a
transaction with a used nonce ends as INVALID, as others may. `taken` lets a wait find
its transaction, and a property know of one that its sender does not. A status of
429 is taken to mean that the relayer has not accepted the request. The context of a wait
may end at any step (`expired`): the select then has two branches, a request may fail,
and nothing else ends a request to a node that stays silent. The receipt overwrites the
Status of the result; a confirmed transaction whose receipt says 0 is returned without
an error (`reverted`).

**OrderLifecycle.** An order is its intent (an id with the inputs) and its stamp:
`WithDeterministicID` takes the stamp from the id, anything else from the clock.
A call is a request on its way, and later an answer on its way; between them the
exchange handles it, and fills and cancels of its own go on. A call may fail at
any time (`Fails`), its request then being lost, handled already, or still on its way if it is a
post (`late`, one at a time). A late cancel is left out: it is one more cancel by
the exchange, which `OrderEnds` has. `held` and `live` are what a replica does with the answers, the
contract that the comment on `CancelOrders` gives its callers: `live` loses what
`resp.Canceled` names, and a list replaces it. `GetOrders` asks for a page at a time:
`RequestArrives` answers with the orders that rest at that moment and have the places from
`cursor` on (`Page`, or in the older shape all of them, `BareArray`), `PageAnswered`
collects them in `all` and asks for the next page, `ListAnswered` takes the last one. The
exchange's list and its cursors are external: an order keeps its place in it (`Place`)
relative to the others, and a cursor decodes to an offset (`MA==` is 0). An order that
leaves the list moves those behind it up, maybe past the cursor and so past both pages:
the replica then forgets an order that rests. The code does nothing about it and promises
nothing; the history variable `shifted` notes the case, and `ForgetsOnlyEnded` excuses no
other. A replica makes one call at a time, and builds between its calls. An order refused stays `held`, since
the exchange may have it from an earlier post. Fates never go back, so an order
seen before is refused: the exchange knows an order by its hash.

**ClientCalls.** Each of its four modules keeps its own variables; a step moves
one of them. `AccountQueries` gives rows identities; `steady` (rows there all the
time), `removed` and `added` are history variables. Cursors decode to offsets
(`MA==` is 0). `InitAuth`'s `since` is a history variable too, the credentials
valid at some time of the call. Sleeps of `httpGet` are counted in seconds.

## Runs

| run | question | bounds | fairness |
|---|---|---|---|
| `ws_safety` | types and backoff cap, no leaked socket, deadman kills only silence and only its own connection, implements `FeedView` | 2 connections, 1 frame, inbox of 2, timeout of 2 ticks | none |
| `ws_liveness` | silence noticed, cancel stops, goroutines end | 1 connection | `ConnFairness` |
| `market_safety` | one writer and the handshake alone, view agrees, published means subscribed, each token once | 2 goroutines, 3 tokens in batches of 2, no deadman | none |
| `market_liveness` | calls return | 1 goroutine and the callbacks | `Fairness` |
| `user_safety` | no fill lost but in the gap | 2 connections, 2 fills, 1 order, inbox of 2 | none |
| `order_build` | quarters of a share exact in float64, minimum and net size kept | 4.90 to 5.60 and 8.00 to 8.60 shares, sizes off the grid | none |
| `order_lifecycle` | a deterministic id is one order, only ended orders are forgotten (but for a list that shifts between its pages), a cancel can be relied on, post-only kept | 2 replicas, an intent of each kind, batches and pages of 1, 1 late post | none |
| `client_calls` | prefetch joined, lists wrong by the changes at most, last answer decides, credentials valid, calls return | 3 tokens over 2 slots, 5 rows over pages of 2 and 3, 2 rows go, 1 comes, 2 keys | `Fairness` |
| `tick_sizes` | given was served, batches apart, every entry accounted for, the prefetch returns | 3 entries, a token twice, 1 other goroutine that asks for it, 2 tick sizes, 1 change | `Fairness` |
| `session_store` | the file is a snapshot, clean means saved, temporary files owned | 2 keys, 3 goroutines, 2 temporary files left | none |
| `relayer` | fits the guard, refused was not sent, no half approval, cache and verdicts can be relied on, every call returns, but a wait for a silent node under a context that goes on | 2 goroutines, 1 spender, 1 transaction taken, builders of 2 operations, 2 estimates around the limit, 2 sizes of calldata | `Fairness` |
| `order_parity` | the int64 path equals the decimal path: violated | as `order_build` | none |

The runs check type invariants only where a bound is at stake (`ConnTypeOK`, the
backoff); the types of the other modules are conjuncts of their inductive invariants.

**Why the bounds are enough.** A session meets at most the leftovers of earlier
ones, and these never touch each other: two connections are the running session
and one leftover. A timeout of two ticks separates expired from not yet expired
and leaves room for a touch in between. An inbox of two holds a frame behind a
PONG, and a frame that overtakes the touch of the one before it. Two
goroutines show every exclusion; the callbacks' own calls are a third. Three tokens in
batches of two give a full and a partial batch. The market runs have no deadman,
which the loop's runs and proofs cover (a deadman adds to the feed only another
way for a connection to close). Sizes run across the minimum, where a BUY changes
from rejected to accepted, and hold every kind of loss (5.02, 8.29) beside the
quarters, which lose nothing.
Three entries make a full
and a short batch, and the token that comes twice is fetched by two workers at
once. Three goroutines put during a flush and wait for it; the litter bound of two
cuts off only further failures of the same kind.

Two goroutines race for an approval, the estimates are the last that fits and the
first that does not. What `relayer` leaves to the proofs is any number of transactions.

Two replicas are one that acts and one that knows nothing of it. An intent that is
deterministic and one that is not, with one reading of the clock, give three
possible orders. Pages of one cut every list of two or three, so that an order comes,
ends or is canceled before, at and behind the cursor. A batch is one order in the run (with
two it has too many states); batches that are taken in part are left to the proofs,
which hold for every `MaxBatch`. Three tokens
over two slots make one wait for another. Five rows over pages of two give full
pages and a short one; with a row more or less the last page may be full or empty.
Two keys show credentials deleted and made again inside one call.

**Fairness.** The Go scheduler runs every runnable goroutine, so the loop, the
deadman and a ping that has begun are weakly fair; the hooks and callbacks are
assumed to return, and a dial returns because the dialer has a handshake timeout.
The clock advances. The exit of a pinger is strongly fair: its select chooses at
random between the cancelled context and a tick that may be ready with it. A lock of Go's
`sync.Mutex` is not starved, so the steps of a call are strongly fair. Nothing is
assumed of the peer or the caller that cancels. A request of a prefetch, a page, `InitAuth` or Gamma ends because its
HTTP client has a timeout (10 to 30 seconds), and the exchange is assumed to answer a page
with a cursor that is further on: with one that repeats, `GetOrders` does not end. So do the requests of a
send to the relayer (30 seconds) and to the node (5 and 10): of them only the timeouts are fair, never an answer.
A wait has no deadline of its own: of a transaction that has come to its end the relayer is
assumed to answer a poll now and then, and the select not to pass over an ended context for
ever (both strongly fair, `WaitOver`), and the relayer to bring a transaction to an end. The
node owes a wait nothing: its two requests end for certain only when the context has, so
`CallsEnd` leaves out a wait that has its verdict, asks the node and has a context that
goes on. Whether a context ends is the caller's choice. The one thing that is not
fair is a read: `CancelStops` therefore says that after a cancel `Run` is stopped or in one
`ReadMessage` (`wsReadLoop` tests its context between frames only).

**Deadlock** is checked in `relayer`, `order_lifecycle` and `client_calls`, and not elsewhere: `Run` may stop, a program
may panic, an order is built once.

## A disagreement with the comments

`computeOrderAmounts` is said to give a "bit-exact result vs. the decimal
reference path" (`clob/client.go:400`) and its test to establish this "on all
inputs the real system can ever produce" (`clob/client_test.go:8`). The floor at
`clob/client.go:412` is taken in float64: 5.02 and 8.29 shares become 5.01 and
8.28, where the decimal path keeps them. The sizes in the test are not among
these. `order_parity` shows it; `order_build` shows where the comment is right: on
quarters of a share (`QuartersParity`), the minimum among them. That the floor is off by
one hundredth at most is no result of the model but how it is made (`FloorCents`): the
float64 is at most half a unit in its last place away from the size, less than a
hundredth below 2^52 hundredths.

## What is proved

`WSConnProofs`, from the assumptions named in `WSConn` (the nil connection is not a
connection, the timeout is positive, a PONG is not data): `ConnInvariant`, that `ConnIInv` is invariant.
Its conjuncts beside the types are needed together: `CurInSession` (there is a
current connection exactly during a session) carries `NoSocketLeak` through the
deferred close; `NotYetSpawned` says that no leftover goroutine holds a new
connection; `NoLostTouch` says that a timer no touch is about to re-arm has not run longer than the
connection was silent, which makes `KillsOnlySilent` (an action property)
follow. `ClosedByItsOwn` proves `OwnDeadmanOnly`.
`ConnImplementsFeed` proves the refinement of `FeedView` step by step. The view's `phase`
is read off `up` and the current connection, its `pending` is the inbox of the current connection.
The mapping needs `FeedInv`: the owner is told of a session at the positions inside it and
at none outside (`UpWithSession`), a frame is with the owner exactly while `onMessage` runs
(`FrameInHand`), and frames wait at the current connection only (`InboxOfSession`).
`MarketLoopSafe` and `UserLoopSafe` carry it over to both feeds.

`MarketWSProofs`, for any number of tokens, any batch size, goroutines and
connections: `MarketStep` (every step of the feed is a step of the loop or leaves it
alone, by the way the module is built), which carries the loop's theorems over to the
feed: `MarketLoopSafe`.
The inductive invariant `IInv` adds to `ConnIInv` and the types `HookMatches` (the
position inside a hook against the position of the loop), `ConnMatches` (`conn` and `connected` against both),
`LockMatches` (the lock is held by the one who writes, to what is published) and
`HandshakeProgress` (the tokens of the batches sent, and no others, are written). From it
follow `OneWriter`, `ViewAgrees` and `PublishedSubscribed`, and with the arithmetic of
`batchStrings` (`BatchesCover`, `BatchesFilled`) `EachTokenOnce`.

`SessionStoreProofs`, for any keys and goroutines: `IInv` adds `HolderFlushes` (the lock is held by the
goroutine inside `Flush`) and `Progress` (how far that flush has come and what
the disk holds of it: before the rename the temporary file equals the memory, after it the file does). `CleanIsSaved` follows, and with
it step by step `StoreImplementsSnapshot`.

`TickSizeProofs`, for any list and any number of other goroutines: `Served` (the cache and every
answer on its way were served for their token), `InOrder` (batches before the
current one are done, later ones have not begun) and `Ended` (a worker that has
ended has stored or reported) give `GivenIsServed`, `BatchesApart` and `AllAccounted`.

`RelayerProofs`, for any goroutines, spenders, estimates, calldata and gas constants:
`NotTooLargeFits` says that what preflight does not refuse passes the guard. The
invariant adds `QuoteFits` (that still holds when the request goes out), `Unsent` (a
call has no transaction before it submits, and a send no outcome while it runs),
`TakenMatches` (a call's transaction is one for that call), `Verdicts` (a wait that asks the
node has the relayer's verdict already, and keeps it) and `BuilderMatches` (only a
builder that is not yet sent may be broken). The six invariants of the run follow, and
`ApprovalsEnd`, step by step, proves the action property `CacheEndsApprovals`.
That an approval which fails after it was cached stays cached is in the model and
contradicts none of this: the code does not look again.

`UserWSProofs`, for any fills, connections and buffers: with
the loop's `ConnIInv` the invariant `UserInv`: no frame speaks of a fill that was not made
(`FramesHonest`), and `Accounted` says where every fill is, in the first session (which
has no resync) from the start, in a later one from the resync on. That only the running
session's connection is open (`NoSocketLeak`, proved of the loop) is what sends a
streamed fill to the buffer that will be read. `NoneLost` proves `NoFillLost`. It needs
`onReconnect` to be set: `UserAssumption` says so.

`OrderProofs`, for any replicas, intents, batches and pages: an order's fate only moves
forward (`BookMoves`), so that an answer is still right where it matters when it is read
(`AnswersHold`: what a cancel names is canceled). `ListsHold` says of a listing that no
order has left between two pages: an order that the replica knows and that rests is on
the pages read so far, if its place is before the point they reach (`Reached`, `Seen`).
Orders that come only move the others back (`AheadGrows`), an order that leaves while
the first page is asked for, or after the last one is given, does no harm, and a page holds
every place it covers (`PageHolds`, `AheadBelow`). With
`BuiltOnly` (only orders that `BuildOrder` may sign are taken), `PostsShaped`,
`LiveTaken` and `Fresh` (a listing begins with nothing) that is inductive, and `OneOrderPerId`, `NoneForgotten`, `CanceledDropped`
and `FlagKept` follow.

The same module proves `OrderBuild`, for any sizes, prices, tick sizes and rates.
`BuildInv` says that a built order is one the request allows after every validation.
What float64 does is met by lemmas on the table of powers of two, one exponent at a
time (the provers do not reason about 2^n): `Log2Is` and `ShiftInTable` (every index
that `BelowGrid` computes is in the table), `LastDigits` (the last two digits of a power
of two are a multiple of 4), and from these `QuartersKept`: a multiple of a quarter of
a share has no residue, and the floor keeps it. The minimum is such a size, which is why
`MinimumKept` holds though the floor may take a hundredth off any other; `GrossCovers`
gives `NetKept`, and `QuartersAgree` bounds the disagreement of the section above: it is
one of sizes that are no multiple of a quarter. Sizes above 2^31 hundredths lie outside
the table; of them only what needs no table is claimed.

`ClientCallsProofs`, for any tokens, slots, keys, lists and page sizes: every step of the composition is a step
or a stutter of each call, so each call's invariant is proved by itself. `RatesInv` counts
the goroutines that hold a slot and those that have been counted, `AuthInv` says that what is
valid or on its way during a call is noted, `GammaInv` follows attempts and pauses.
`PagesInv` splits a list at the offset: rows that the pages have passed without bringing
them (`Skipped`) are no more than rows have gone, and rows ahead that were brought
already (`Again`) together with those doubled (`Doubled`) no more than rows have come. A row that
goes or comes moves one row across the offset (`RowGoesKeeps`, `RowComesKeeps`), a page
moves rows from `Again` to `Doubled` (`PageKeeps`), and at the end of the list nothing is
ahead: `RowsBounded`.
`CallsShrink` gives each call a measure that its every step lowers (attempts and pauses of
`httpGet`, rows not yet reached, jobs of a prefetch), and `PrefetchNeverStuck` says that the
semaphore never has everybody wait for everybody: with fairness, which is left to TLC, the
calls return. The row that comes during a query may raise its measure; rows cannot come
without end in the model (`MaxAdded`), and in the code `GetInventory` ends only if they do not.

Every invariant and every action property that a run checks is so proved, and every
refinement. Only model-checked: the liveness properties (`ws_liveness`,
`market_liveness`, `PrefetchReturns`, `CallsEnd`, `CallsReturn` of `client_calls`), since
TLAPS does not reason about fairness.

## Plan

- The safety half of the other liveness properties, as `CallsShrink` is for `ClientCalls`:
  a measure for `PrefetchTickSizes` and for the calls of the relayer, and for the market feed
  that the holder of its lock can always go on.
- The filter hook of the user feed, and the price levels of the market feed's book.

Each new module gets one safety run, with the bounds of the existing ones: two or
three goroutines, two objects, one failure of each kind.
