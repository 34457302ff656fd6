---------------------------- MODULE TickSizeCache ----------------------------
(***************************************************************************)
(* Client.GetTickSize of clob/cache.go, called by any goroutine, and       *)
(* Client.PrefetchTickSizes of clob/prefetch.go, which calls it for a list *)
(* of tokens, two at a time and up to three times each.                    *)
(*                                                                         *)
(* The request of a miss is made outside the lock: the exchange answers in *)
(* one step (Answer) and the answer is cached in a later one (Cache).      *)
(***************************************************************************)
EXTENDS Naturals, Sequences

CONSTANTS
    Tokens,
    TickSizes,      \* tick sizes an exchange may give a token
    Empty,          \* the empty string, which "" and null decode to
    None,           \* no value
    Error,          \* GetTickSize returned an error
    tokenIDs,       \* the list given to PrefetchTickSizes, repetitions allowed
    Apps,           \* goroutines that call GetTickSize themselves
    AppTokens,      \* the tokens they ask for
    MaxChanges      \* bound: tick size changes at the exchange

BatchSize == 2
MaxAttempts == 3

Workers == DOMAIN tokenIDs      \* one goroutine for each entry of the list
Getters == Workers \cup Apps

ASSUME ListAssumption == tokenIDs \in Seq(Tokens) /\ Workers = 1..Len(tokenIDs)
ASSUME AppsAssumption == Apps \cap Workers = {} /\ AppTokens \subseteq Tokens
ASSUME ValuesAssumption ==
    /\ TickSizes \cap {Empty, None, Error} = {}
    /\ Empty # None /\ Empty # Error /\ None # Error
ASSUME ChangesAssumption == MaxChanges \in Nat

VARIABLES
    tick,           \* the exchange: the tick size of each token
    past,           \* the tick sizes each token has had
    changes,        \* how often they have changed
    cache,          \* c.tickSizeCache
    fresh,          \* the entry's time is within the TTL
    pc,             \* per goroutine, where it is in GetTickSize or the worker
    asking,         \* the token it asks for
    answer,         \* what GetTickSize will return or has returned to it
    attempts,       \* per worker
    ctxDone,        \* the context of the prefetch is cancelled
    prefetch,       \* where the goroutine in PrefetchTickSizes is
    batch,          \* i + 1: the position of the batch's first token
    given,          \* per worker, the value store was called with
    failed,         \* workers whose token is in failed
    result          \* what PrefetchTickSizes returned

exchange == <<tick, past, changes>>
getter == <<cache, fresh, pc, asking, answer>>
caller == <<attempts, ctxDone, prefetch, batch, given, failed, result>>
vars == <<exchange, getter, caller>>

Init ==
    /\ tick \in [Tokens -> TickSizes]
    /\ past = [t \in Tokens |-> {tick[t]}]
    /\ changes = 0
    /\ cache = [t \in Tokens |-> None]
    /\ fresh = [t \in Tokens |-> FALSE]
    /\ pc = [g \in Getters |-> "off"]
    /\ asking = [g \in Getters |-> None]
    /\ answer = [g \in Getters |-> None]
    /\ attempts = [i \in Workers |-> 0]
    /\ ctxDone = FALSE
    /\ prefetch = "launch"
    /\ batch = 1
    /\ given = [i \in Workers |-> None]
    /\ failed = {}
    /\ result = "none"

-----------------------------------------------------------------------------
(* The exchange and the clock *)

TickSizeChange(t, s) ==
    /\ changes < MaxChanges
    /\ changes' = changes + 1
    /\ tick' = [tick EXCEPT ![t] = s]
    /\ past' = [past EXCEPT ![t] = @ \cup {s}]
    /\ UNCHANGED <<getter, caller>>

Expire(t) ==
    /\ fresh[t]
    /\ fresh' = [fresh EXCEPT ![t] = FALSE]
    /\ UNCHANGED <<exchange, cache, pc, asking, answer, caller>>

CtxCancel ==
    /\ ~ctxDone
    /\ ctxDone' = TRUE
    /\ UNCHANGED <<exchange, getter, attempts, prefetch, batch, given, failed, result>>

-----------------------------------------------------------------------------
(* GetTickSize *)

Returns(g, value) ==
    /\ pc' = [pc EXCEPT ![g] = "returned"]
    /\ answer' = [answer EXCEPT ![g] = value]

\* The goroutine has no more use for what it asked.
Forgets(g, next) ==
    /\ pc' = [pc EXCEPT ![g] = next]
    /\ asking' = [asking EXCEPT ![g] = None]
    /\ answer' = [answer EXCEPT ![g] = None]

Hit(g) ==
    /\ pc[g] = "lookup"
    /\ cache[asking[g]] # None /\ fresh[asking[g]]
    /\ Returns(g, cache[asking[g]])
    /\ UNCHANGED <<exchange, cache, fresh, asking, caller>>

Miss(g) ==
    /\ pc[g] = "lookup"
    /\ ~fresh[asking[g]]
    /\ pc' = [pc EXCEPT ![g] = "fetch"]
    /\ UNCHANGED <<exchange, cache, fresh, asking, answer, caller>>

\* A bare string is taken as it is, the empty one included.
Answer(g) ==
    /\ pc[g] = "fetch"
    /\ g \in Workers => ~ctxDone
    /\ \E value \in {tick[asking[g]], Empty} : answer' = [answer EXCEPT ![g] = value]
    /\ pc' = [pc EXCEPT ![g] = "cache"]
    /\ UNCHANGED <<exchange, cache, fresh, asking, caller>>

\* The request fails, or its answer is refused.
NoAnswer(g) ==
    /\ pc[g] = "fetch"
    /\ Returns(g, Error)
    /\ UNCHANGED <<exchange, cache, fresh, asking, caller>>

\* Mutant: the value of one token is cached for all.
CacheForAll(g) ==
    /\ pc[g] = "cache"
    /\ cache' = [t \in Tokens |-> answer[g]]
    /\ fresh' = [fresh EXCEPT ![asking[g]] = TRUE]
    /\ Returns(g, answer[g])
    /\ UNCHANGED <<exchange, asking, caller>>

Cache(g) ==
    /\ pc[g] = "cache"
    /\ cache' = [cache EXCEPT ![asking[g]] = answer[g]]
    /\ fresh' = [fresh EXCEPT ![asking[g]] = TRUE]
    /\ Returns(g, answer[g])
    /\ UNCHANGED <<exchange, asking, caller>>

GetTickSize(g) == Hit(g) \/ Miss(g) \/ Answer(g) \/ NoAnswer(g) \/ Cache(g)

AppCalls(a, t) ==
    /\ pc[a] = "off"
    /\ pc' = [pc EXCEPT ![a] = "lookup"]
    /\ asking' = [asking EXCEPT ![a] = t]
    /\ UNCHANGED <<exchange, cache, fresh, answer, caller>>

AppReturns(a) ==
    /\ pc[a] = "returned"
    /\ Forgets(a, "off")
    /\ UNCHANGED <<exchange, cache, fresh, caller>>

-----------------------------------------------------------------------------
(* PrefetchTickSizes *)

Batch == {i \in Workers : batch <= i /\ i < batch + BatchSize}
Running == {i \in Workers : pc[i] \notin {"off", "done"}}

Launch ==
    /\ prefetch = "launch"
    /\ batch <= Len(tokenIDs)
    /\ pc' = [g \in Getters |-> IF g \in Batch THEN "lookup" ELSE pc[g]]
    /\ asking' = [g \in Getters |-> IF g \in Batch THEN tokenIDs[g] ELSE asking[g]]
    /\ prefetch' = "wait"
    /\ UNCHANGED <<exchange, cache, fresh, answer, attempts, ctxDone, batch, given, failed, result>>

Useful(value) == value \in TickSizes

\* Mutant: the attempts are not counted.
RetryForEver(i) ==
    /\ pc[i] = "returned"
    /\ ~Useful(answer[i])
    /\ pc' = [pc EXCEPT ![i] = "lookup"]
    /\ UNCHANGED <<exchange, cache, fresh, asking, answer, caller>>

Retry(i) ==
    /\ pc[i] = "returned"
    /\ ~Useful(answer[i])
    /\ attempts[i] + 1 < MaxAttempts
    /\ attempts' = [attempts EXCEPT ![i] = @ + 1]
    /\ pc' = [pc EXCEPT ![i] = "lookup"]
    /\ answer' = [answer EXCEPT ![i] = None]
    /\ UNCHANGED <<exchange, cache, fresh, asking,
                   ctxDone, prefetch, batch, given, failed, result>>

GiveUp(i) ==
    /\ pc[i] = "returned"
    /\ attempts[i] + 1 = MaxAttempts
    /\ ~Useful(answer[i])
    /\ failed' = failed \cup {i}
    /\ Forgets(i, "done")
    /\ attempts' = [attempts EXCEPT ![i] = 0]
    /\ UNCHANGED <<exchange, cache, fresh, ctxDone, prefetch, batch, given, result>>

Store(i) ==
    /\ pc[i] = "returned"
    /\ Useful(answer[i])
    /\ given' = [given EXCEPT ![i] = answer[i]]
    /\ Forgets(i, "done")
    /\ attempts' = [attempts EXCEPT ![i] = 0]
    /\ UNCHANGED <<exchange, cache, fresh, ctxDone, prefetch, batch, failed, result>>

\* Mutant: the batch is not waited for.
WaitForNone ==
    /\ prefetch = "wait"
    /\ prefetch' = "pause"
    /\ UNCHANGED <<exchange, getter, attempts, ctxDone, batch, given, failed, result>>

Wait ==
    /\ prefetch = "wait"
    /\ Running = {}
    /\ prefetch' = "pause"
    /\ UNCHANGED <<exchange, getter, attempts, ctxDone, batch, given, failed, result>>

Cancelled ==
    /\ prefetch = "pause"
    /\ ctxDone
    /\ prefetch' = "returned"
    /\ result' = "cancelled"
    /\ UNCHANGED <<exchange, getter, attempts, ctxDone, batch, given, failed>>

\* Mutant: the loop moves on by one batch too many.
SkipBatch ==
    /\ prefetch = "pause"
    /\ batch' = batch + 2 * BatchSize
    /\ prefetch' = "launch"
    /\ UNCHANGED <<exchange, getter, attempts, ctxDone, given, failed, result>>

NextBatch ==
    /\ prefetch = "pause"
    /\ batch' = batch + BatchSize
    /\ prefetch' = "launch"
    /\ UNCHANGED <<exchange, getter, attempts, ctxDone, given, failed, result>>

Finish ==
    /\ prefetch = "launch"
    /\ batch > Len(tokenIDs)
    /\ prefetch' = "returned"
    /\ result' = IF failed = {} THEN "ok" ELSE "failed"
    /\ UNCHANGED <<exchange, getter, attempts, ctxDone, batch, given, failed>>

WorkerStep(i) == GetTickSize(i) \/ Retry(i) \/ GiveUp(i) \/ Store(i)
PrefetchStep == Launch \/ Wait \/ Cancelled \/ NextBatch \/ Finish

-----------------------------------------------------------------------------
Next ==
    \/ PrefetchStep
    \/ \E i \in Workers : WorkerStep(i)
    \/ \E a \in Apps : GetTickSize(a) \/ AppReturns(a) \/ \E t \in AppTokens : AppCalls(a, t)
    \/ \E t \in Tokens : Expire(t) \/ \E s \in TickSizes : TickSizeChange(t, s)
    \/ CtxCancel

Spec == Init /\ [][Next]_vars

\* The scheduler runs every goroutine, and a request ends: the HTTP client has
\* a timeout of thirty seconds.
Fairness == WF_vars(PrefetchStep) /\ \A i \in Workers : WF_vars(WorkerStep(i))

FairSpec == Spec /\ Fairness

-----------------------------------------------------------------------------
(* Properties *)

Values == TickSizes \cup {Empty, None}

\* Every variable stays within its type; no worker makes a fourth attempt.
TypeOK ==
    /\ tick \in [Tokens -> TickSizes]
    /\ past \in [Tokens -> SUBSET TickSizes]
    /\ changes \in 0..MaxChanges
    /\ cache \in [Tokens -> Values]
    /\ fresh \in [Tokens -> BOOLEAN]
    /\ pc \in [Getters -> {"off", "lookup", "fetch", "cache", "returned", "done"}]
    /\ asking \in [Getters -> Tokens \cup {None}]
    /\ answer \in [Getters -> Values \cup {Error}]
    /\ attempts \in [Workers -> 0..(MaxAttempts - 1)]
    /\ ctxDone \in BOOLEAN
    /\ prefetch \in {"launch", "wait", "pause", "returned"}
    /\ batch \in Nat
    /\ given \in [Workers -> TickSizes \cup {None}]
    /\ failed \in SUBSET Workers
    /\ result \in {"none", "ok", "failed", "cancelled"}

\* What the program is told of a token the exchange has said of that token,
\* whoever fetched it, and however many goroutines asked at once.
GivenWasServed == \A i \in Workers : given[i] \in past[tokenIDs[i]] \cup {None}

\* Workers run for the current batch only, and none runs on after the prefetch
\* has gone on or returned: store is never called behind its caller's back.
OneBatch == Running \subseteq Batch /\ (prefetch # "wait" => Running = {})

\* A prefetch that was not cancelled accounts for every entry of its list: each
\* is stored or reported, never both, and "ok" means that all were stored.
Accounted ==
    result \in {"ok", "failed"} =>
        /\ \A i \in Workers : given[i] = None <=> i \in failed
        /\ result = "ok" <=> failed = {}

\* Whatever the exchange answers, the prefetch returns.
PrefetchReturns == <>(prefetch = "returned")
=============================================================================
