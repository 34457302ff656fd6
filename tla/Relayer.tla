------------------------------ MODULE Relayer ------------------------------
(***************************************************************************)
(* clob/onchain.go and clob/relayer.go: transactions of the proxy wallet,  *)
(* sent through a relayer.  Goroutines share one OnChainClient, and each   *)
(* has a TxBuilder of its own.  A call is EnsureApproval, SendWithReport,  *)
(* Preflight or WaitForConfirmed; between two of its requests any step of  *)
(* the others may come.                                                    *)
(*                                                                         *)
(* The relayer, the chain and the node are external: they answer, refuse,  *)
(* fail or stay silent.  A nonce that another transaction has used up is   *)
(* one of the reasons the relayer may have to end one as INVALID.          *)
(***************************************************************************)
EXTENDS RelayGas, Sequences

CONSTANTS
    Callers,        \* goroutines
    Spenders,       \* contracts that EnsureApproval is called for
    Estimates,      \* what the node may estimate
    Payloads,       \* calldata of the relayed call
    NoQuote,        \* nothing is signed
    NoRequest,      \* the relayer has no late request of a caller
    MaxTxs,         \* bound: transactions the relayer takes
    MaxOps          \* bound: operations of a builder

ASSUME InputAssumption ==
    /\ Estimates \subseteq Nat
    /\ Payloads \subseteq Calldata
    /\ MaxTxs \in Nat
    /\ MaxOps \in Nat

Quotes == [est : Estimates, data : Payloads]

ASSUME SpendersAssumption ==
    /\ Spenders \cap {"batch", "preflight", "wait", "none"} = {}
    /\ NoRequest \notin Spenders \cup {"batch"}
    /\ NoQuote \notin Quotes

VARIABLES
    approved,       \* the cache oc.approved
    ops,            \* per goroutine, TxBuilder.ops
    broken,         \* per goroutine, TxBuilder.err # nil
    pc,             \* per goroutine, what the call waits for
    call,           \* per goroutine, the last call
    quote,          \* per goroutine, the estimate and the calldata signed for
    expired,        \* per goroutine, the context of its wait has ended
    outcome,        \* per goroutine, what the last call returned, or will return
    taken,          \* per goroutine, its transaction among txs, 0 when none
    late,           \* per goroutine, a request that was given up, still under way
    txs             \* the relayer's transactions

builder == <<ops, broken>>
locals == <<quote, expired>>
relayer == <<late, txs>>
vars == <<approved, builder, pc, call, locals, outcome, taken, relayer>>

Sends == Spenders \cup {"batch"}
Calls == Sends \cup {"preflight", "wait", "none"}
OpNames == {"call", "allow", "operator"}

\* A call returns ok, refused (a RelayerError: rate limited, estimate reverted,
\* batch too large or inner call failed), or another error.  EnsureApproval may
\* find the spender cached; a wait may end as failed (whatever kind of failure is
\* made of it), with its context, or as reverted: without an error, but with a
\* result whose Status is the 0 of the receipt.
Outcomes == {"none", "ok", "refused", "error", "cached", "reverted", "failed", "canceled"}

\* NEW stands for every state the code does not know, EXECUTED for MINED too.
Final == {"CONFIRMED", "FAILED", "INVALID"}
TxStates == {"NEW", "EXECUTED"} \cup Final
Txs == [of : Sends, state : TxStates]

\* What a call waits for: the requests of a send, a wait's ticker and poll, and the
\* two requests to the node that a wait makes after its verdict.
AtNode == {"receipt", "lookup"}
WaitSteps == {"ticker", "poll"} \cup AtNode
Steps == {"idle", "build", "payload", "estimate", "simulate", "submit"} \cup WaitSteps

Init ==
    /\ approved = {}
    /\ ops = [c \in Callers |-> <<>>]
    /\ broken = [c \in Callers |-> FALSE]
    /\ pc = [c \in Callers |-> "idle"]
    /\ call = [c \in Callers |-> "none"]
    /\ quote = [c \in Callers |-> NoQuote]
    /\ expired = [c \in Callers |-> FALSE]
    /\ outcome = [c \in Callers |-> "none"]
    /\ taken = [c \in Callers |-> 0]
    /\ late = [c \in Callers |-> NoRequest]
    /\ txs = <<>>

-----------------------------------------------------------------------------
(* TxBuilder: a chain of calls, the first error sticks *)

\* The goroutine is done with its last call.
NewTx(c) ==
    /\ pc[c] = "idle"
    /\ pc' = [pc EXCEPT ![c] = "build"]
    /\ call' = [call EXCEPT ![c] = "none"]
    /\ outcome' = [outcome EXCEPT ![c] = "none"]
    /\ taken' = [taken EXCEPT ![c] = 0]
    /\ UNCHANGED <<approved, builder, locals, relayer>>

\* Split, Merge, Convert and Redeem add one call, Approve adds two.
Wholes == {<<"call">>, <<"allow", "operator">>}

\* Mutant: the first error does not stick.
PackForgets(c, whole, packed) ==
    /\ pc[c] = "build"
    /\ Len(ops[c]) + Len(whole) <= MaxOps
    /\ ops' = [ops EXCEPT ![c] = @ \o SubSeq(whole, 1, packed)]
    /\ UNCHANGED <<approved, broken, pc, call, locals, outcome, taken, relayer>>

\* The first packed operations of whole are added, and packing the next fails.
Pack(c, whole, packed) ==
    /\ pc[c] = "build"
    /\ ~broken[c]
    /\ Len(ops[c]) + Len(whole) <= MaxOps
    /\ ops' = [ops EXCEPT ![c] = @ \o SubSeq(whole, 1, packed)]
    /\ broken' = [broken EXCEPT ![c] = packed < Len(whole)]
    /\ UNCHANGED <<approved, pc, call, locals, outcome, taken, relayer>>

Build(c) == NewTx(c) \/ \E whole \in Wholes : \E packed \in 0..Len(whole) : Pack(c, whole, packed)

-----------------------------------------------------------------------------
(* The calls *)

Goto(c, step) == pc' = [pc EXCEPT ![c] = step]

\* The call returns; of what it built and signed nothing is kept.
Return(c, result) ==
    /\ Goto(c, "idle")
    /\ outcome' = [outcome EXCEPT ![c] = result]
    /\ ops' = [ops EXCEPT ![c] = <<>>]
    /\ broken' = [broken EXCEPT ![c] = FALSE]
    /\ quote' = [quote EXCEPT ![c] = NoQuote]
    /\ expired' = [expired EXCEPT ![c] = FALSE]

Is(c, what) == call' = [call EXCEPT ![c] = what]

\* The first request of a send is under way.
BeginSend(c, what) ==
    /\ Goto(c, "payload")
    /\ Is(c, what)
    /\ outcome' = [outcome EXCEPT ![c] = "none"]
    /\ taken' = [taken EXCEPT ![c] = 0]
    /\ UNCHANGED <<approved, builder, locals, relayer>>

\* The call returns without a request.
NoSend(c, what, result) ==
    /\ Return(c, result)
    /\ Is(c, what)
    /\ taken' = [taken EXCEPT ![c] = 0]
    /\ UNCHANGED <<approved, relayer>>

\* Mutant: the cache is not looked at.
AlwaysApproves(c, s) == pc[c] = "idle" /\ BeginSend(c, s)

\* The first critical section of EnsureApproval.
EnsureApproval(c, s) ==
    /\ pc[c] = "idle"
    /\ IF s \in approved THEN NoSend(c, s, "cached") ELSE BeginSend(c, s)

\* proxyCalls, and the request that a send or a preflight starts with.
SendBatch(c, what) ==
    /\ pc[c] = "build"
    /\ IF broken[c] \/ ops[c] = <<>> THEN NoSend(c, what, "error") ELSE BeginSend(c, what)

\* WaitForConfirmed with the id a send has returned, again after a canceled wait.
WaitForConfirmed(c) ==
    /\ pc[c] = "idle"
    /\ \/ call[c] \in Sends /\ outcome[c] = "ok"
       \/ call[c] = "wait" /\ outcome[c] = "canceled"
    /\ Goto(c, "ticker")
    /\ Is(c, "wait")
    /\ outcome' = [outcome EXCEPT ![c] = "none"]
    /\ UNCHANGED <<approved, builder, locals, taken, relayer>>

Call(c) ==
    \/ \E s \in Spenders : EnsureApproval(c, s)
    \/ \E what \in {"batch", "preflight"} : SendBatch(c, what)
    \/ WaitForConfirmed(c)

-----------------------------------------------------------------------------
(* preflightProxyTxBatch *)

PayloadArrives(c) ==
    /\ pc[c] = "payload"
    /\ Goto(c, "estimate")
    /\ UNCHANGED <<approved, builder, call, locals, outcome, taken, relayer>>

\* Status 429, or any other end without a payload, after 30 seconds at most.
PayloadFails(c) ==
    /\ pc[c] = "payload"
    /\ \E result \in {"refused", "error"} : Return(c, result)
    /\ UNCHANGED <<approved, call, taken, relayer>>

\* The call is signed and packed for the estimate, and compared with the guard.
EstimateArrives(c, est, data) ==
    /\ pc[c] = "estimate"
    /\ IF TooLarge(est, data)
         THEN Return(c, "refused")
         ELSE /\ Goto(c, "simulate")
              /\ quote' = [quote EXCEPT ![c] = [est |-> est, data |-> data]]
              /\ UNCHANGED <<outcome, builder, expired>>
    /\ UNCHANGED <<approved, call, taken, relayer>>

\* A revert, a failed request or 5 seconds without an answer are all reported as
\* a revert; signing or packing may fail too.
EstimateFails(c) ==
    /\ pc[c] = "estimate"
    /\ \E result \in {"refused", "error"} : Return(c, result)
    /\ UNCHANGED <<approved, call, taken, relayer>>

SimulationPasses(c) ==
    /\ pc[c] = "simulate"
    /\ IF call[c] = "preflight"
         THEN Return(c, "ok")
         ELSE Goto(c, "submit") /\ UNCHANGED <<outcome, builder, locals>>
    /\ UNCHANGED <<approved, call, taken, relayer>>

\* Too little gas, a failed call; a failed request or 10 seconds without an
\* answer count as a failed call.
SimulationFails(c) ==
    /\ pc[c] = "simulate"
    /\ Return(c, "refused")
    /\ UNCHANGED <<approved, call, taken, relayer>>

Preflight(c) ==
    \/ PayloadArrives(c) \/ PayloadFails(c)
    \/ \E est \in Estimates, data \in Payloads : EstimateArrives(c, est, data)
    \/ EstimateFails(c) \/ SimulationPasses(c) \/ SimulationFails(c)

-----------------------------------------------------------------------------
(* The submission *)

NewTxOf(what) == [of |-> what, state |-> "NEW"]

\* The relayer takes the request of a call that waits for its answer.
RelayerTakes(c) ==
    /\ pc[c] = "submit"
    /\ taken[c] = 0
    /\ Len(txs) < MaxTxs
    /\ txs' = Append(txs, NewTxOf(call[c]))
    /\ taken' = [taken EXCEPT ![c] = Len(txs) + 1]
    /\ UNCHANGED <<approved, builder, pc, call, locals, outcome, late>>

\* The call has returned long ago.
RelayerTakesLate(c) ==
    /\ late[c] # NoRequest
    /\ Len(txs) < MaxTxs
    /\ txs' = Append(txs, NewTxOf(late[c]))
    /\ late' = [late EXCEPT ![c] = NoRequest]
    /\ UNCHANGED <<approved, builder, pc, call, locals, outcome, taken>>

\* Status 200 or 201 with an id; EnsureApproval then writes the cache.
SubmitAnswered(c) ==
    /\ pc[c] = "submit"
    /\ taken[c] # 0
    /\ Return(c, "ok")
    /\ approved' = approved \cup ({call[c]} \cap Spenders)
    /\ UNCHANGED <<call, taken, relayer>>

\* Status 429: the relayer has not taken it, and will not.
SubmitRefused(c) ==
    /\ pc[c] = "submit"
    /\ taken[c] = 0
    /\ Return(c, "refused")
    /\ UNCHANGED <<approved, call, taken, relayer>>

\* Mutant: an answer that never came is taken for a refusal.
SubmitFailsTyped(c) ==
    /\ pc[c] = "submit"
    /\ Return(c, "refused")
    /\ UNCHANGED <<approved, call, taken, relayer>>

\* Mutant: the approval is cached though the send has failed.
SubmitFailsCached(c) ==
    /\ pc[c] = "submit"
    /\ Return(c, "error")
    /\ approved' = approved \cup ({call[c]} \cap Spenders)
    /\ UNCHANGED <<call, taken, relayer>>

\* Any other end, after 30 seconds at most: the request may be taken, may be on
\* its way (bound: one of each goroutine), may be lost.
SubmitFails(c) ==
    /\ pc[c] = "submit"
    /\ Return(c, "error")
    /\ \/ UNCHANGED late
       \/ taken[c] = 0 /\ late' = [late EXCEPT ![c] = call[c]]
    /\ UNCHANGED <<approved, call, taken, txs>>

Submit(c) ==
    RelayerTakes(c) \/ RelayerTakesLate(c) \/ SubmitAnswered(c) \/ SubmitRefused(c) \/ SubmitFails(c)

-----------------------------------------------------------------------------
(* WaitForConfirmed *)

State(c) == txs[taken[c]].state

Waits(c, step) == pc[c] = step /\ UNCHANGED <<approved, call, taken, relayer>>

\* The caller's context ends.
ContextEnds(c) ==
    /\ pc[c] \in WaitSteps
    /\ ~expired[c]
    /\ expired' = [expired EXCEPT ![c] = TRUE]
    /\ UNCHANGED <<approved, builder, pc, call, quote, outcome, taken, relayer>>

\* The select: either branch, when both are ready.
Tick(c) ==
    /\ Waits(c, "ticker")
    /\ Goto(c, "poll")
    /\ UNCHANGED <<builder, locals, outcome>>

WaitCanceled(c) ==
    /\ Waits(c, "ticker")
    /\ expired[c]
    /\ Return(c, "canceled")

\* No answer, status 404 or another, a state that ends nothing, or the context.
PollGoesOn(c) ==
    /\ Waits(c, "poll")
    /\ Goto(c, "ticker")
    /\ UNCHANGED <<builder, locals, outcome>>

\* fillTxResult asks the node for the receipt, unless the relayer has named no hash.
Fills(c, verdict) ==
    \/ Return(c, verdict)
    \/ /\ Goto(c, "receipt")
       /\ outcome' = [outcome EXCEPT ![c] = verdict]
       /\ UNCHANGED <<builder, locals>>

\* Mutant: an executed transaction counts as done.
PollExecuted(c) ==
    /\ Waits(c, "poll")
    /\ State(c) \in {"EXECUTED", "CONFIRMED"}
    /\ Fills(c, "ok")

PollConfirmed(c) ==
    /\ Waits(c, "poll")
    /\ State(c) = "CONFIRMED"
    /\ Fills(c, "ok")

\* Mutant: INVALID is not known as an end.
PollFailedOnly(c) ==
    /\ Waits(c, "poll")
    /\ State(c) = "FAILED"
    /\ Fills(c, "failed")

PollFailed(c) ==
    /\ Waits(c, "poll")
    /\ State(c) \in {"FAILED", "INVALID"}
    /\ Fills(c, "failed")

\* The node's answer overwrites the Status of the result, an error or the end of
\* the context leaves it.
ReceiptEnds(c) ==
    /\ Waits(c, "receipt")
    /\ Goto(c, "lookup")
    /\ \/ UNCHANGED outcome
       \/ outcome[c] = "ok" /\ outcome' = [outcome EXCEPT ![c] = "reverted"]
    /\ UNCHANGED <<builder, locals>>

\* The second request, TransactionByHash, only brings the gas limit.
LookupEnds(c) == Waits(c, "lookup") /\ Return(c, outcome[c])

NodeEnds(c) == ReceiptEnds(c) \/ LookupEnds(c)

Wait(c) ==
    \/ ContextEnds(c) \/ Tick(c) \/ WaitCanceled(c)
    \/ PollGoesOn(c) \/ PollConfirmed(c) \/ PollFailed(c) \/ NodeEnds(c)

\* The relayer and the chain take a transaction further.
Onward == [NEW      |-> {"EXECUTED", "FAILED", "INVALID"},
           EXECUTED |-> {"CONFIRMED", "FAILED"}]

TxMoves(i) ==
    /\ i \in DOMAIN txs
    /\ txs[i].state \notin Final
    /\ \E next \in Onward[txs[i].state] : txs' = [txs EXCEPT ![i].state = next]
    /\ UNCHANGED <<approved, builder, pc, call, locals, outcome, taken, late>>

-----------------------------------------------------------------------------

CallStep(c) == Preflight(c) \/ Submit(c) \/ Wait(c)

Next ==
    \/ \E c \in Callers : Build(c) \/ Call(c) \/ CallStep(c)
    \/ \E i \in 1..MaxTxs : TxMoves(i)

Spec == Init /\ [][Next]_vars

\* The timeouts of relayerClient and of the two node requests end every request
\* of a send; the ticker fires; a poll is answered or fails; an ended context ends
\* a node request.  No answer of a send or of the node is counted on, nor that a
\* context ends.
Timeout(c) == PayloadFails(c) \/ EstimateFails(c) \/ SimulationFails(c) \/ SubmitFails(c)
RequestEnds(c) == Timeout(c) \/ Tick(c) \/ PollGoesOn(c) \/ (expired[c] /\ NodeEnds(c))

\* The select does not pass over an ended context for ever, and of a transaction
\* that has come to its end the relayer answers a poll now and then.
WaitOver(c) == WaitCanceled(c) \/ PollConfirmed(c) \/ PollFailed(c)

\* The relayer brings what it has taken to an end.
Fairness ==
    /\ \A c \in Callers : WF_vars(RequestEnds(c)) /\ SF_vars(WaitOver(c))
    /\ \A i \in 1..MaxTxs : WF_vars(TxMoves(i))

FairSpec == Spec /\ Fairness

-----------------------------------------------------------------------------
(* Properties *)

Running(c) == pc[c] \notin {"idle", "build"}

\* Every variable keeps its type, and what a goroutine waits for fits its call.
TypeOK ==
    /\ approved \subseteq Spenders
    /\ ops \in [Callers -> Seq(OpNames)]
    /\ broken \in [Callers -> BOOLEAN]
    /\ pc \in [Callers -> Steps]
    /\ call \in [Callers -> Calls]
    /\ quote \in [Callers -> Quotes \cup {NoQuote}]
    /\ expired \in [Callers -> BOOLEAN]
    /\ outcome \in [Callers -> Outcomes]
    /\ taken \in [Callers -> 0..Len(txs)]
    /\ late \in [Callers -> Sends \cup {NoRequest}]
    /\ txs \in Seq(Txs)
    /\ \A c \in Callers :
        /\ pc[c] \in {"payload", "estimate", "simulate"} => call[c] \in Sends \cup {"preflight"}
        /\ pc[c] = "submit" => call[c] \in Sends
        /\ pc[c] \in WaitSteps <=> call[c] = "wait" /\ Running(c)

\* What goes out to the relayer is signed for the estimate and at least the
\* margin more, and still passes RelayHub's guard (onchain.go:35-44), whatever
\* other requests came between the estimate and the submission.
SentFitsGuard ==
    \A c \in Callers : pc[c] = "submit" =>
        /\ quote[c] # NoQuote
        /\ Signed(quote[c].est) >= quote[c].est + MarginMin
        /\ PassesGuard(Signed(quote[c].est), quote[c].data)

\* A send that returns a RelayerError of any kind has sent nothing, so that it
\* can be repeated without doing the operations twice; nor has a preflight.
RefusedIsNotSent ==
    \A c \in Callers :
        (call[c] \in Sends /\ outcome[c] = "refused") \/ call[c] = "preflight" => taken[c] = 0

\* Both halves of every Approve, one after the other.
WholeOps(s) ==
    \A i \in DOMAIN s :
        /\ s[i] = "allow" => i + 1 \in DOMAIN s /\ s[i + 1] = "operator"
        /\ s[i] = "operator" => i - 1 \in DOMAIN s /\ s[i - 1] = "allow"

\* A batch under way holds both halves of every Approve or none: an operation
\* that could not be packed stops the builder for good.
WholeApprovals ==
    \A c \in Callers : Running(c) /\ call[c] \in {"batch", "preflight"} => WholeOps(ops[c])

\* The cache never says approved of a spender no approval of which was taken by
\* the relayer, whatever sends failed or raced.
CachedWasTaken == \A s \in approved : \E i \in DOMAIN txs : txs[i].of = s

Approving(s) == \E c \in Callers : (Running(c) /\ call[c] = s) \/ late[c] = s
Approvals(s) == {i \in DOMAIN txs : txs[i].of = s}

\* Once a spender is cached and the calls that raced for it are over, no further
\* approval is made, by any goroutine.
CacheEndsApprovals ==
    [][\A s \in approved :
        ~Approving(s) => ~Approving(s)' /\ s \in approved' /\ Approvals(s)' = Approvals(s)]_vars

\* A verdict of WaitForConfirmed is the transaction's last state: a transaction
\* reported as done cannot fail any more, and one reported as failed cannot
\* still be confirmed and be sent a second time.  It is the relayer's verdict, and
\* neither the node's receipt nor the end of the context meanwhile changes it.
VerdictIsFinal ==
    \A c \in Callers : call[c] = "wait" /\ ~Running(c) /\ outcome[c] # "canceled" =>
        IF outcome[c] = "failed" THEN State(c) \in {"FAILED", "INVALID"} ELSE State(c) = "CONFIRMED"

\* Every call returns but for one: a wait that has its verdict and asks a silent
\* node for the receipt (relayer.go:83, 91), under a context that does not end.
\* With a context that ends every call returns, and up to the verdict a wait needs
\* none.
CallsEnd ==
    \A c \in Callers : Running(c) ~> ~Running(c) \/ (pc[c] \in AtNode /\ ~expired[c])
=============================================================================
