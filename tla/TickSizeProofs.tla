--------------------------- MODULE TickSizeProofs ---------------------------
(***************************************************************************)
(* Theorems about TickSizeCache for any list of tokens and any number of   *)
(* other goroutines: what is given was served, batches do not overlap, and *)
(* every entry of the list is accounted for.                               *)
(***************************************************************************)
EXTENDS TickSizeCache, TLAPS

Asking == {"lookup", "fetch", "cache", "returned"}

\* The cache, and what a goroutine is about to cache or return, was served for
\* the token it is about.
Served ==
    /\ \A t \in Tokens : tick[t] \in past[t] /\ cache[t] \in past[t] \cup {Empty, None}
    /\ \A t \in Tokens : fresh[t] => cache[t] # None
    /\ \A g \in Getters : pc[g] \in Asking => asking[g] \in Tokens
    /\ \A g \in Getters :
        pc[g] = "cache" => answer[g] \in past[asking[g]] \cup {Empty}
    /\ \A g \in Getters :
        pc[g] = "returned" => answer[g] \in past[asking[g]] \cup {Empty, Error}
    /\ \A i \in Workers : pc[i] \in Asking => asking[i] = tokenIDs[i]

\* Batches are worked off in order.
InOrder ==
    /\ \A i \in Workers : i < batch => pc[i] = "done"
    /\ \A i \in Workers : i >= batch + BatchSize => pc[i] = "off"
    /\ prefetch = "launch" => \A i \in Workers : i >= batch => pc[i] = "off"
    /\ prefetch \in {"wait", "pause"} =>
            \A i \in Workers : i < batch + BatchSize => pc[i] # "off"

\* A worker that has ended has stored or reported, and no other has.
Ended ==
    \A i \in Workers :
        /\ pc[i] = "done" => (given[i] = None <=> i \in failed)
        /\ pc[i] # "done" => given[i] = None /\ i \notin failed

\* The prefetch returns after the last batch, or cancelled.
Returned ==
    /\ result = "none" <=> prefetch # "returned"
    /\ result \in {"ok", "failed"} =>
            batch > Len(tokenIDs) /\ (result = "ok" <=> failed = {})

IInv == TypeOK /\ Served /\ GivenWasServed /\ OneBatch /\ InOrder /\ Ended /\ Returned

USE ListAssumption, AppsAssumption, ValuesAssumption, ChangesAssumption

\* The list is a sequence of tokens with the workers as its positions.
LEMMA Listed ==
    /\ Len(tokenIDs) \in Nat
    /\ Workers = 1..Len(tokenIDs)
    /\ \A i \in Workers : i \in Nat /\ tokenIDs[i] \in Tokens /\ i \in Getters
    /\ \A a \in Apps : a \in Getters /\ a \notin Workers
BY DEF Getters, Workers

\* A prefetch begins in a state of the invariant.
LEMMA InitIInv == Init => IInv
<1>. SUFFICES ASSUME Init PROVE IInv
    OBVIOUS
<1>1. TypeOK
    <2>1. /\ tick \in [Tokens -> TickSizes] /\ past \in [Tokens -> SUBSET TickSizes]
          /\ changes \in 0..MaxChanges
          /\ cache \in [Tokens -> Values] /\ fresh \in [Tokens -> BOOLEAN]
        BY DEF Init, Values
    <2>2. /\ pc \in [Getters -> {"off", "lookup", "fetch", "cache", "returned", "done"}]
          /\ asking \in [Getters -> Tokens \cup {None}]
          /\ answer \in [Getters -> Values \cup {Error}]
          /\ attempts \in [Workers -> 0..(MaxAttempts - 1)]
        BY DEF Init, Values, MaxAttempts
    <2>3. /\ ctxDone \in BOOLEAN /\ batch \in Nat /\ failed \in SUBSET Workers
          /\ prefetch \in {"launch", "wait", "pause", "returned"}
          /\ given \in [Workers -> TickSizes \cup {None}]
          /\ result \in {"none", "ok", "failed", "cancelled"}
        BY DEF Init
    <2>. QED BY <2>1, <2>2, <2>3 DEF TypeOK
<1>2. Served /\ GivenWasServed
    BY Listed DEF Init, Served, GivenWasServed, Asking
<1>3. OneBatch /\ InOrder /\ Ended /\ Returned
    BY Listed DEF Init, OneBatch, Running, Batch, InOrder, Ended, Returned
<1>. QED BY <1>1, <1>2, <1>3 DEF IInv

\* GetTickSize moves a goroutine that asks, and only within asking.
LEMMA GetKeepsAsking ==
    ASSUME IInv, NEW g \in Getters, GetTickSize(g)
    PROVE  /\ pc[g] \in Asking /\ \E step \in Asking : pc' = [pc EXCEPT ![g] = step]
           /\ UNCHANGED <<exchange, asking, caller>>
BY DEF GetTickSize, Hit, Miss, Answer, NoAnswer, Cache, Returns, Asking, IInv, TypeOK

\* What GetTickSize caches and returns was served for the token it asks for.
LEMMA GetKeepsServed ==
    ASSUME IInv, NEW g \in Getters, GetTickSize(g) PROVE TypeOK' /\ Served'
<1>. USE Listed DEF IInv, TypeOK, Served, Asking, Values, exchange, caller
<1>1. CASE Hit(g) BY <1>1 DEF Hit, Returns
<1>2. CASE Miss(g) BY <1>2 DEF Miss
<1>3. CASE Answer(g) BY <1>3 DEF Answer
<1>4. CASE NoAnswer(g) BY <1>4 DEF NoAnswer, Returns
<1>5. CASE Cache(g) BY <1>5 DEF Cache, Returns
<1>. QED BY <1>1, <1>2, <1>3, <1>4, <1>5 DEF GetTickSize

\* The rest of the invariant does not look at where in GetTickSize a goroutine is.
LEMMA GetKeeps == ASSUME IInv, NEW g \in Getters, GetTickSize(g) PROVE IInv'
<1>1. TypeOK' /\ Served'
    BY GetKeepsServed
<1>2. \A i \in Workers : /\ pc[i] = "off" <=> pc'[i] = "off"
                         /\ pc[i] = "done" <=> pc'[i] = "done"
    BY GetKeepsAsking, Listed DEF Asking, IInv, TypeOK
<1>3. UNCHANGED <<past, caller>>
    BY GetKeepsAsking DEF exchange
<1>4. GivenWasServed' /\ OneBatch'
    BY <1>2, <1>3 DEF IInv, caller, GivenWasServed, OneBatch, Running, Batch
<1>5. InOrder' /\ Ended' /\ Returned'
    BY <1>2, <1>3 DEF IInv, caller, InOrder, Ended, Returned
<1>. QED BY <1>1, <1>4, <1>5 DEF IInv

\* The other goroutines, the exchange, the clock and a cancel.
LEMMA OthersKeep ==
    ASSUME IInv,
           \/ \E a \in Apps : AppReturns(a) \/ \E t \in Tokens : AppCalls(a, t)
           \/ \E t \in Tokens : Expire(t) \/ \E s \in TickSizes : TickSizeChange(t, s)
           \/ CtxCancel
    PROVE  IInv'
<1>. USE Listed DEF IInv
<1>1. ASSUME NEW a \in Apps, AppReturns(a) \/ \E t \in Tokens : AppCalls(a, t) PROVE IInv'
    <2>1. \A i \in Workers : pc'[i] = pc[i] /\ asking'[i] = asking[i] /\ answer'[i] = answer[i]
        BY <1>1 DEF AppReturns, AppCalls, Forgets, TypeOK
    <2>2. TypeOK'
        <3>1. CASE AppReturns(a)
            BY <1>1, <3>1 DEF AppReturns, Forgets, TypeOK, Values, exchange, caller
        <3>2. ASSUME NEW t \in Tokens, AppCalls(a, t) PROVE TypeOK'
            BY <1>1, <3>2 DEF AppCalls, TypeOK, exchange, caller
        <3>. QED BY <1>1, <3>1, <3>2
    <2>5. Served'
        <3>1. CASE AppReturns(a)
            BY <1>1, <2>1, <3>1 DEF AppReturns, Forgets, TypeOK, Served, Asking, exchange
        <3>2. ASSUME NEW t \in Tokens, AppCalls(a, t) PROVE Served'
            BY <1>1, <2>1, <3>2 DEF AppCalls, TypeOK, Served, Asking, exchange
        <3>. QED BY <1>1, <3>1, <3>2
    <2>3. UNCHANGED <<exchange, caller>>
        BY <1>1 DEF AppReturns, AppCalls
    <2>4. GivenWasServed' /\ OneBatch' /\ InOrder' /\ Ended' /\ Returned'
        BY <2>1, <2>3 DEF exchange, caller, GivenWasServed, OneBatch, Running, Batch,
            InOrder, Ended, Returned
    <2>. QED BY <2>2, <2>4, <2>5
<1>2. ASSUME NEW t \in Tokens, Expire(t) PROVE IInv'
    BY <1>2 DEF Expire, exchange, caller, TypeOK, Served, GivenWasServed, OneBatch, Running,
        Batch, InOrder, Ended, Returned
<1>3. ASSUME NEW t \in Tokens, NEW s \in TickSizes, TickSizeChange(t, s) PROVE IInv'
    <2>1. TypeOK' /\ Served' /\ GivenWasServed'
        BY <1>3 DEF TickSizeChange, getter, caller, TypeOK, Served, GivenWasServed, Asking
    <2>2. OneBatch' /\ InOrder' /\ Ended' /\ Returned'
        BY <1>3 DEF TickSizeChange, getter, caller, OneBatch, Running, Batch, InOrder, Ended,
            Returned
    <2>. QED BY <2>1, <2>2
<1>4. CASE CtxCancel
    BY <1>4 DEF CtxCancel, exchange, getter, TypeOK, Served, GivenWasServed, OneBatch, Running,
        Batch, InOrder, Ended, Returned
<1>. QED BY <1>1, <1>2, <1>3, <1>4

\* A worker's retry and its end: it stores or reports, once.
LEMMA WorkersKeep ==
    ASSUME IInv, NEW i \in Workers, Retry(i) \/ GiveUp(i) \/ Store(i) PROVE IInv'
<1>. USE Listed DEF IInv
<1>1. TypeOK'
    <2>1. CASE Retry(i)
        <3>1. attempts' \in [Workers -> 0..(MaxAttempts - 1)]
            BY <2>1 DEF Retry, TypeOK, MaxAttempts
        <3>2. pc' \in [Getters -> {"off", "lookup", "fetch", "cache", "returned", "done"}]
              /\ answer' \in [Getters -> Values \cup {Error}]
            BY <2>1 DEF Retry, TypeOK, Values
        <3>. QED BY <2>1, <3>1, <3>2 DEF Retry, TypeOK, exchange
    <2>2. CASE GiveUp(i)
        BY <2>2 DEF GiveUp, Forgets, TypeOK, Values, MaxAttempts, exchange
    <2>3. CASE Store(i)
        BY <2>3 DEF Store, Forgets, Useful, TypeOK, Values, MaxAttempts, exchange
    <2>. QED BY <2>1, <2>2, <2>3
<1>2. Served'
    <2>1. CASE Retry(i)
        BY <2>1 DEF Retry, TypeOK, Served, Asking, exchange
    <2>2. CASE GiveUp(i)
        BY <2>2 DEF GiveUp, Forgets, TypeOK, Served, Asking, exchange
    <2>3. CASE Store(i)
        BY <2>3 DEF Store, Forgets, TypeOK, Served, Asking, exchange
    <2>. QED BY <2>1, <2>2, <2>3
<1>3. GivenWasServed'
    BY DEF Retry, GiveUp, Store, Useful, Served, GivenWasServed, TypeOK, Asking, exchange
<1>4. OneBatch' /\ InOrder' /\ Returned'
    BY DEF Retry, GiveUp, Store, Forgets, TypeOK, OneBatch, Running, Batch, InOrder, Returned
<1>5. Ended'
    BY DEF Retry, GiveUp, Store, Forgets, Useful, TypeOK, Ended
<1>. QED BY <1>1, <1>2, <1>3, <1>4, <1>5

\* The loop over the batches.
LEMMA PrefetchKeeps == ASSUME IInv, PrefetchStep PROVE IInv'
<1>. USE Listed DEF IInv
<1>1. CASE Launch
    <2>1. TypeOK' /\ Served'
        BY <1>1 DEF Launch, Batch, TypeOK, Served, InOrder, Asking, exchange
    <2>2. GivenWasServed' /\ Ended' /\ Returned'
        BY <1>1 DEF Launch, Batch, TypeOK, GivenWasServed, Ended, Returned, InOrder, exchange
    <2>3. OneBatch' /\ InOrder'
        BY <1>1 DEF Launch, TypeOK, OneBatch, Running, Batch, InOrder, BatchSize
    <2>. QED BY <2>1, <2>2, <2>3
<1>2. CASE Wait
    BY <1>2 DEF Wait, TypeOK, Served, GivenWasServed, OneBatch, Running, Batch, InOrder, Ended,
        Returned, exchange, getter
<1>3. CASE Cancelled
    BY <1>3 DEF Cancelled, TypeOK, Served, GivenWasServed, OneBatch, Running, Batch, InOrder,
        Ended, Returned, exchange, getter
<1>4. CASE NextBatch
    <2>1. TypeOK' /\ Served' /\ GivenWasServed' /\ Ended' /\ Returned'
        BY <1>4 DEF NextBatch, TypeOK, Served, GivenWasServed, Ended, Returned, exchange,
            getter, BatchSize
    <2>2. Running = {}
        BY <1>4 DEF NextBatch, OneBatch
    <2>3. OneBatch'
        BY <1>4, <2>2 DEF NextBatch, OneBatch, Running, getter
    <2>4. \A i \in Workers : i < batch + BatchSize => pc[i] = "done"
        BY <1>4, <2>2 DEF NextBatch, InOrder, Running, TypeOK
    <2>5. InOrder'
        BY <1>4, <2>4 DEF NextBatch, InOrder, TypeOK, BatchSize, getter
    <2>. QED BY <2>1, <2>3, <2>5
<1>5. CASE Finish
    BY <1>5 DEF Finish, TypeOK, Served, GivenWasServed, OneBatch, Running, Batch, InOrder,
        Ended, Returned, exchange, getter
<1>. QED BY <1>1, <1>2, <1>3, <1>4, <1>5 DEF PrefetchStep

\* Every step keeps the invariant.
LEMMA IInvStep == IInv /\ [Next]_vars => IInv'
<1>1. ASSUME IInv, UNCHANGED vars PROVE IInv'
    BY <1>1 DEF vars, exchange, getter, caller, IInv, TypeOK, Served, GivenWasServed, OneBatch,
        Running, Batch, InOrder, Ended, Returned
<1>2. \A i \in Workers, a \in Apps : i \in Getters /\ a \in Getters
    BY Listed
<1>. QED BY <1>1, <1>2, GetKeeps, OthersKeep, WorkersKeep, PrefetchKeeps, Listed
        DEF Next, WorkerStep

-----------------------------------------------------------------------------
\* The inductive invariant holds in every behaviour of the prefetch.
THEOREM Invariant == Spec => []IInv
BY InitIInv, IInvStep, PTL DEF Spec

\* Every variable of the prefetch and of the cache keeps its type.
THEOREM TypeCorrect == Spec => []TypeOK
<1>1. IInv => TypeOK BY DEF IInv
<1>. QED BY <1>1, Invariant, PTL

\* Whoever fetched it, a tick size given for a token was served for it.
THEOREM GivenIsServed == Spec => []GivenWasServed
<1>1. IInv => GivenWasServed BY DEF IInv
<1>. QED BY <1>1, Invariant, PTL

\* No worker runs outside its batch or after the prefetch has returned.
THEOREM BatchesApart == Spec => []OneBatch
<1>1. IInv => OneBatch BY DEF IInv
<1>. QED BY <1>1, Invariant, PTL

\* Every entry of the list, however long, is stored or reported.
THEOREM AllAccounted == Spec => []Accounted
<1>1. IInv => Accounted
    BY Listed DEF IInv, TypeOK, InOrder, Ended, Returned, Accounted
<1>. QED BY <1>1, Invariant, PTL
=============================================================================
