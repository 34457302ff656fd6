----------------------------- MODULE FeePrefetch -----------------------------
(***************************************************************************)
(* Client.PrefetchFeeRates of clob/prefetch.go: one goroutine for each     *)
(* token asks for its fee rate, and a buffered channel bounds how many are *)
(* under way.  The context ends requests only: it interrupts neither a     *)
(* send to the channel nor the final wait.                                 *)
(***************************************************************************)
EXTENDS Naturals, FiniteSets

CONSTANTS
    NTokens,        \* length of the list
    Capacity        \* of the channel, 20 in the code

ASSUME TokensAssumption == NTokens \in Nat
ASSUME CapacityAssumption == Capacity \in Nat \ {0}

Fetches == 1..NTokens

VARIABLES
    launcher,       \* where PrefetchFeeRates is
    launched,       \* goroutines started
    sem,            \* elements in the channel
    fetch,          \* per goroutine, where it is
    stored,         \* goroutines that have called store
    ok              \* the counter under mu

ratesVars == <<launcher, launched, sem, fetch, stored, ok>>

RatesIdle ==
    /\ launcher = "idle"
    /\ launched = 0
    /\ sem = 0
    /\ fetch = [i \in Fetches |-> "none"]
    /\ stored = {}
    /\ ok = 0

BeginPrefetch ==
    /\ launcher = "idle"
    /\ launcher' = "launch"
    /\ UNCHANGED <<launched, sem, fetch, stored, ok>>

\* wg.Add, the send to the channel and the go statement.
Launch ==
    /\ launcher = "launch"
    /\ launched < NTokens
    /\ sem < Capacity
    /\ launched' = launched + 1
    /\ sem' = sem + 1
    /\ fetch' = [fetch EXCEPT ![launched + 1] = "ask"]
    /\ UNCHANGED <<launcher, stored, ok>>

AllLaunched ==
    /\ launcher = "launch"
    /\ launched = NTokens
    /\ launcher' = "wait"
    /\ UNCHANGED <<launched, sem, fetch, stored, ok>>

\* Mutant: the wait ends with the last request, before its counter.
WaitEndsEarly ==
    /\ launcher = "wait"
    /\ \A i \in Fetches : fetch[i] # "ask"
    /\ launcher' = "returned"
    /\ UNCHANGED <<launched, sem, fetch, stored, ok>>

WaitEnds ==
    /\ launcher = "wait"
    /\ \A i \in Fetches : fetch[i] = "done"
    /\ launcher' = "returned"
    /\ UNCHANGED <<launched, sem, fetch, stored, ok>>

\* The caller goes on.
EndPrefetch ==
    /\ launcher = "returned"
    /\ launcher' = "idle"
    /\ launched' = 0
    /\ fetch' = [i \in Fetches |-> "none"]
    /\ stored' = {}
    /\ ok' = 0
    /\ UNCHANGED sem

-----------------------------------------------------------------------------
(* A goroutine: GetFeeRate, store, the counter, then its deferred calls, the *)
(* last one first: it takes from the channel, then calls wg.Done.            *)

FetchGoes(i, from, to) ==
    /\ fetch[i] = from
    /\ fetch' = [fetch EXCEPT ![i] = to]

RateArrives(i) ==
    /\ FetchGoes(i, "ask", "store")
    /\ UNCHANGED <<launcher, launched, sem, stored, ok>>

\* Mutant: a failed fetch keeps its slot.
RateFailsKeepsSlot(i) ==
    /\ FetchGoes(i, "ask", "done")
    /\ UNCHANGED <<launcher, launched, sem, stored, ok>>

RateFails(i) ==
    /\ FetchGoes(i, "ask", "release")
    /\ UNCHANGED <<launcher, launched, sem, stored, ok>>

StoreRate(i) ==
    /\ FetchGoes(i, "store", "count")
    /\ stored' = stored \cup {i}
    /\ UNCHANGED <<launcher, launched, sem, ok>>

CountRate(i) ==
    /\ FetchGoes(i, "count", "release")
    /\ ok' = ok + 1
    /\ UNCHANGED <<launcher, launched, sem, stored>>

Release(i) ==
    /\ FetchGoes(i, "release", "leave")
    /\ sem > 0
    /\ sem' = sem - 1
    /\ UNCHANGED <<launcher, launched, stored, ok>>

Leave(i) ==
    /\ FetchGoes(i, "leave", "done")
    /\ UNCHANGED <<launcher, launched, sem, stored, ok>>

FetchStep(i) ==
    RateArrives(i) \/ RateFails(i) \/ StoreRate(i) \/ CountRate(i) \/ Release(i) \/ Leave(i)

PrefetchLoop == Launch \/ AllLaunched \/ WaitEnds

RatesNext ==
    \/ BeginPrefetch \/ PrefetchLoop \/ EndPrefetch
    \/ \E i \in Fetches : FetchStep(i)

RatesSpec == RatesIdle /\ [][RatesNext]_ratesVars

-----------------------------------------------------------------------------
(* Properties *)

FetchSteps == {"none", "ask", "store", "count", "release", "leave", "done"}

\* Every variable keeps its type.
RatesTypeOK ==
    /\ launcher \in {"idle", "launch", "wait", "returned"}
    /\ launched \in 0..NTokens
    /\ sem \in 0..Capacity
    /\ fetch \in [Fetches -> FetchSteps]
    /\ stored \subseteq Fetches
    /\ ok \in Nat

UnderWay == {i \in Fetches : fetch[i] \in {"ask", "store", "count"}}

\* No more goroutines are under way than the channel holds.  When the prefetch
\* returns none is left: the counter it logs has every call of store, and store
\* is never called again.
RatesJoined ==
    /\ Cardinality(UnderWay) <= Capacity
    /\ launcher = "returned" =>
        UnderWay = {} /\ sem = 0 /\ launched = NTokens /\ ok = Cardinality(stored)
=============================================================================
