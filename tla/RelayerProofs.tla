--------------------------- MODULE RelayerProofs ---------------------------
(***************************************************************************)
(* Theorems about Relayer for any goroutines, spenders, estimates,         *)
(* calldata and gas constants.                                             *)
(***************************************************************************)
EXTENDS Relayer, SequenceTheorems, TLAPS

USE GasAssumption, InputAssumption, SpendersAssumption

-----------------------------------------------------------------------------
(* Gas *)

\* An estimate, its margin and the gas signed for are natural numbers.
LEMMA GasTypes ==
    ASSUME NEW est \in Nat, NEW data \in Calldata
    PROVE  /\ Percentage(est) \in Nat /\ Margin(est) \in Nat /\ Signed(est) \in Nat
           /\ Outer \in Nat /\ Intrinsic(data) \in Nat
<1>1. MarginBps \in Nat /\ MarginMin \in Nat /\ TxBase \in Nat /\ ZeroGas \in Nat
      /\ NonZeroGas \in Nat /\ DefaultOuter \in Nat /\ ConfiguredOuter \in Nat
    OBVIOUS
<1>2. est * MarginBps \in Nat
    BY <1>1
<1>3. Percentage(est) \in Nat
    BY <1>2 DEF Percentage
<1>4. Margin(est) \in Nat
    BY <1>1, <1>3 DEF Margin
<1>5. Intrinsic(data) \in Nat
    <2>1. data.zero \in Nat /\ data.other \in Nat
        BY DEF Calldata
    <2>2. ZeroGas * data.zero \in Nat /\ NonZeroGas * data.other \in Nat
        BY <1>1, <2>1
    <2>. QED BY <1>1, <2>2 DEF Intrinsic
<1>. QED BY <1>1, <1>3, <1>4, <1>5 DEF Signed, Outer

\* What preflightProxyTxBatch does not refuse passes the guard, margin included.
LEMMA NotTooLargeFits ==
    ASSUME NEW est \in Nat, NEW data \in Calldata, ~TooLarge(est, data)
    PROVE  Signed(est) >= est + MarginMin /\ PassesGuard(Signed(est), data)
<1>1. MarginMin \in Nat /\ GuardReserve \in Nat /\ PreGuard \in Nat
    OBVIOUS
<1>2. Margin(est) >= MarginMin
    BY <1>1, GasTypes DEF Margin
<1>3. Signed(est) >= est + MarginMin
    BY <1>1, <1>2, GasTypes DEF Signed
<1>4. Signed(est) <= Outer - (Intrinsic(data) + GuardReserve + PreGuard)
    BY <1>1, GasTypes DEF TooLarge, MaxSigned, BeforeUserCall
<1>. QED BY <1>1, <1>3, <1>4, GasTypes DEF PassesGuard

-----------------------------------------------------------------------------
(* The inductive invariant *)

\* What is signed fits from the comparison with the guard to the submission.
QuoteFits ==
    \A c \in Callers : pc[c] \in {"simulate", "submit"} =>
        /\ quote[c] \in Quotes
        /\ Signed(quote[c].est) >= quote[c].est + MarginMin
        /\ PassesGuard(Signed(quote[c].est), quote[c].data)

\* A call that runs has no outcome yet, and no transaction before it submits.
Unsent ==
    \A c \in Callers :
        /\ pc[c] \in {"payload", "estimate", "simulate"} => taken[c] = 0
        /\ call[c] = "preflight" => taken[c] = 0
        /\ call[c] \in Sends /\ outcome[c] = "refused" => taken[c] = 0
        /\ pc[c] \in {"payload", "estimate", "simulate", "submit"} => outcome[c] = "none"

\* The transaction of a call is one for that call, and a call that has returned
\* ok, and a wait, have one.
TakenMatches ==
    \A c \in Callers :
        /\ pc[c] = "submit" /\ taken[c] # 0 => txs[taken[c]].of = call[c]
        /\ call[c] \in Sends /\ outcome[c] = "ok" => taken[c] # 0
        /\ call[c] = "wait" => taken[c] # 0

\* A wait has its verdict, the relayer's, while it asks the node and afterwards.
Verdicts ==
    \A c \in Callers :
        call[c] = "wait" /\ (~Running(c) \/ pc[c] \in AtNode) /\ outcome[c] # "canceled" =>
            IF outcome[c] = "failed" THEN State(c) \in {"FAILED", "INVALID"} ELSE State(c) = "CONFIRMED"

\* Only a builder that is not yet sent may be broken.
BuilderMatches ==
    \A c \in Callers :
        /\ broken[c] => pc[c] = "build"
        /\ ~broken[c] => WholeOps(ops[c])

IInv ==
    /\ TypeOK /\ QuoteFits /\ Unsent /\ TakenMatches /\ BuilderMatches
    /\ CachedWasTaken /\ Verdicts

\* IInv is what the runs check, and more.
LEMMA IInvImplies == IInv => SentFitsGuard /\ RefusedIsNotSent /\ WholeApprovals /\ VerdictIsFinal
<1>. SUFFICES ASSUME IInv PROVE SentFitsGuard /\ RefusedIsNotSent /\ WholeApprovals /\ VerdictIsFinal
    OBVIOUS
<1>1. SentFitsGuard
    BY DEF IInv, QuoteFits, SentFitsGuard
<1>2. RefusedIsNotSent
    BY DEF IInv, Unsent, RefusedIsNotSent
<1>3. WholeApprovals
    BY DEF IInv, BuilderMatches, WholeApprovals, Running
<1>4. VerdictIsFinal
    BY DEF IInv, Verdicts, VerdictIsFinal
<1>. QED BY <1>1, <1>2, <1>3, <1>4

\* The first state.
LEMMA InitIInv == Init => IInv
<1>. SUFFICES ASSUME Init PROVE IInv
    OBVIOUS
<1>1. TypeOK
    BY DEF Init, TypeOK, Steps, WaitSteps, AtNode, Calls, Outcomes, Running
<1>. QED BY <1>1 DEF Init, IInv, QuoteFits, Unsent, TakenMatches, BuilderMatches,
        CachedWasTaken, Verdicts, AtNode, Running, Sends, WholeOps

\* The first operations of a whole are operations.
LEMMA PackedOps ==
    ASSUME NEW whole \in Wholes, NEW packed \in 0..Len(whole)
    PROVE  /\ SubSeq(whole, 1, packed) \in Seq(OpNames)
           /\ packed = Len(whole) => SubSeq(whole, 1, packed) = whole
<1>1. whole \in Seq(OpNames) /\ Len(whole) \in Nat
    <2>1. CASE whole = <<"call">>
        BY <2>1 DEF OpNames
    <2>2. CASE whole = <<"allow", "operator">>
        BY <2>2 DEF OpNames
    <2>. QED BY <2>1, <2>2 DEF Wholes
<1>2. \A i \in 1..packed : whole[i] \in OpNames
    BY <1>1
<1>3. packed \in Int
    BY <1>1
<1>4. SubSeq(whole, 1, packed) \in Seq(OpNames)
    BY <1>2, <1>3, SubSeqProperties
<1>5. packed = Len(whole) => SubSeq(whole, 1, packed) = whole
    BY <1>1, SubSeqFull
<1>. QED BY <1>4, <1>5

\* Whole operations added to whole operations.
LEMMA WholeAppended ==
    ASSUME NEW s \in Seq(OpNames), WholeOps(s), NEW whole \in Wholes
    PROVE  WholeOps(s \o whole)
<1>. DEFINE both == s \o whole
<1>1. whole \in Seq(OpNames)
    <2>1. CASE whole = <<"call">>
        BY <2>1 DEF OpNames
    <2>2. CASE whole = <<"allow", "operator">>
        BY <2>2 DEF OpNames
    <2>. QED BY <2>1, <2>2 DEF Wholes
<1>2. /\ both \in Seq(OpNames)
      /\ Len(both) = Len(s) + Len(whole)
      /\ \A i \in 1..Len(s) + Len(whole) :
            both[i] = IF i <= Len(s) THEN s[i] ELSE whole[i - Len(s)]
    BY <1>1, ConcatProperties
<1>3. Len(s) \in Nat /\ DOMAIN s = 1..Len(s) /\ DOMAIN both = 1..Len(both)
    BY <1>2
<1>. DEFINE n == Len(s)
<1>4. /\ n \in Nat /\ DOMAIN s = 1..n /\ DOMAIN both = 1..(n + Len(whole))
      /\ \A i \in 1..n : both[i] = s[i]
      /\ \A i \in 1..n + Len(whole) : both[i] = IF i <= n THEN s[i] ELSE whole[i - n]
    BY <1>1, <1>2, <1>3
<1>. HIDE DEF both, n
<1>5. CASE whole = <<"call">>
    <2>1. Len(whole) = 1 /\ whole[1] = "call"
        BY <1>5
    <2>2. both[n + 1] = "call"
        <3>1. n + 1 \in 1..n + Len(whole) /\ ~(n + 1 <= n)
              /\ n + 1 - n = 1
            BY <1>4, <2>1
        <3>. QED BY <1>4, <2>1, <3>1
    <2>3. WholeOps(both)
        <3>1. SUFFICES ASSUME NEW i \in 1..(n + 1)
              PROVE  /\ both[i] = "allow" => i + 1 \in 1..(n + 1) /\ both[i + 1] = "operator"
                     /\ both[i] = "operator" => i - 1 \in 1..(n + 1) /\ both[i - 1] = "allow"
            BY <1>4, <2>1 DEF WholeOps
        <3>2. CASE i \in 1..n
            <4>1. /\ s[i] = "allow" => i + 1 \in 1..n /\ s[i + 1] = "operator"
                  /\ s[i] = "operator" => i - 1 \in 1..n /\ s[i - 1] = "allow"
                BY <1>4, <3>2 DEF WholeOps
            <4>2. \A j \in 1..n : j \in 1..(n + 1) /\ both[j] = s[j]
                BY <1>4
            <4>. QED BY <3>2, <4>1, <4>2
        <3>3. CASE i = n + 1
            BY <1>4, <2>2, <3>3
        <3>. QED BY <1>4, <3>2, <3>3
    <2>. QED BY <2>3 DEF both
<1>6. CASE whole = <<"allow", "operator">>
    <2>1. Len(whole) = 2 /\ whole[1] = "allow" /\ whole[2] = "operator"
        BY <1>6
    <2>2. both[n + 1] = "allow" /\ both[n + 2] = "operator"
        <3>1. /\ n + 1 \in 1..n + Len(whole) /\ ~(n + 1 <= n)
              /\ n + 2 \in 1..n + Len(whole) /\ ~(n + 2 <= n)
              /\ n + 1 - n = 1 /\ n + 2 - n = 2
            BY <1>4, <2>1
        <3>. QED BY <1>4, <2>1, <3>1
    <2>3. WholeOps(both)
        <3>1. SUFFICES ASSUME NEW i \in 1..(n + 2)
              PROVE  /\ both[i] = "allow" => i + 1 \in 1..(n + 2) /\ both[i + 1] = "operator"
                     /\ both[i] = "operator" => i - 1 \in 1..(n + 2) /\ both[i - 1] = "allow"
            BY <1>4, <2>1 DEF WholeOps
        <3>2. CASE i \in 1..n
            <4>1. /\ s[i] = "allow" => i + 1 \in 1..n /\ s[i + 1] = "operator"
                  /\ s[i] = "operator" => i - 1 \in 1..n /\ s[i - 1] = "allow"
                BY <1>4, <3>2 DEF WholeOps
            <4>2. \A j \in 1..n : j \in 1..(n + 2) /\ both[j] = s[j]
                BY <1>4
            <4>. QED BY <3>2, <4>1, <4>2
        <3>3. CASE i = n + 1
            BY <1>4, <2>2, <3>3
        <3>4. CASE i = n + 2
            BY <1>4, <2>2, <3>4
        <3>. QED BY <1>4, <3>2, <3>3, <3>4
    <2>. QED BY <2>3 DEF both
<1>. QED BY <1>5, <1>6 DEF Wholes

\* NewTx and the operations of a builder.
LEMMA BuildStep ==
    ASSUME IInv, NEW c \in Callers, Build(c)
    PROVE  IInv'
<1>1. CASE NewTx(c)
    <2>1. TypeOK'
        BY <1>1 DEF IInv, TypeOK, NewTx, Steps, WaitSteps, AtNode, Calls, Outcomes, Running, builder, locals, relayer
    <2>2. QuoteFits' /\ Unsent' /\ BuilderMatches' /\ CachedWasTaken'
        BY <1>1 DEF IInv, TypeOK, NewTx, QuoteFits, Unsent, BuilderMatches, CachedWasTaken,
            Sends, builder, locals, relayer
    <2>3. TakenMatches' /\ Verdicts'
        <3>1. TakenMatches'
            BY <1>1 DEF IInv, TypeOK, NewTx, Sends, builder, locals, relayer, TakenMatches
        <3>2. Verdicts'
            BY <1>1 DEF IInv, TypeOK, NewTx, Sends, builder, locals, relayer, Verdicts, AtNode, State, Running
        <3>. QED BY <3>1, <3>2
    <2>. QED BY <2>1, <2>2, <2>3 DEF IInv
<1>2. ASSUME NEW whole \in Wholes, NEW packed \in 0..Len(whole), Pack(c, whole, packed)
      PROVE  IInv'
    <2>. DEFINE added == ops[c] \o SubSeq(whole, 1, packed)
    <2>1. /\ pc[c] = "build" /\ ~broken[c]
          /\ ops' = [ops EXCEPT ![c] = added]
          /\ broken' = [broken EXCEPT ![c] = packed < Len(whole)]
          /\ UNCHANGED <<approved, pc, call, quote, expired, outcome, taken, late, txs>>
        BY <1>2 DEF Pack, locals, relayer
    <2>2. added \in Seq(OpNames)
        BY PackedOps DEF IInv, TypeOK
    <2>3. packed \in Nat /\ Len(whole) \in Nat
        BY DEF Wholes
    <2>4. ~(packed < Len(whole)) => WholeOps(added)
        <3>1. SUFFICES ASSUME ~(packed < Len(whole)) PROVE WholeOps(added)
            OBVIOUS
        <3>2. SubSeq(whole, 1, packed) = whole
            BY <2>3, <3>1, PackedOps
        <3>3. ops[c] \in Seq(OpNames) /\ WholeOps(ops[c])
            BY <2>1 DEF IInv, TypeOK, BuilderMatches
        <3>. QED BY <3>2, <3>3, WholeAppended
    <2>. HIDE DEF added
    <2>5. TypeOK'
        <3>1. ops' \in [Callers -> Seq(OpNames)]
            BY <2>1, <2>2 DEF IInv, TypeOK
        <3>2. broken' \in [Callers -> BOOLEAN]
            BY <2>1 DEF IInv, TypeOK
        <3>. QED BY <2>1, <3>1, <3>2 DEF IInv, TypeOK, Running
    <2>6. BuilderMatches'
        BY <2>1, <2>4 DEF IInv, TypeOK, BuilderMatches
    <2>7. QuoteFits' /\ Unsent' /\ TakenMatches' /\ CachedWasTaken' /\ Verdicts'
        BY <2>1 DEF IInv, QuoteFits, Unsent, TakenMatches, CachedWasTaken, Verdicts,
            State, Running
    <2>. QED BY <2>5, <2>6, <2>7 DEF IInv
<1>. QED BY <1>1, <1>2 DEF Build

\* The calls, up to their first request.
LEMMA CallBegins ==
    ASSUME IInv, NEW c \in Callers, Call(c)
    PROVE  IInv'
<1>. USE DEF IInv, TypeOK, builder, locals, relayer, Sends, Goto, Is
<1>1. ASSUME NEW what \in Spenders \cup {"batch", "preflight"}, BeginSend(c, what), ~broken[c]
      PROVE  IInv'
    <2>1. TypeOK'
        <3>1. /\ pc' = [pc EXCEPT ![c] = "payload"] /\ call' = [call EXCEPT ![c] = what]
              /\ outcome' = [outcome EXCEPT ![c] = "none"] /\ taken' = [taken EXCEPT ![c] = 0]
              /\ UNCHANGED <<approved, ops, broken, quote, expired, late, txs>>
            BY <1>1 DEF BeginSend
        <3>2. what \in Calls /\ what # "wait" /\ what \in Sends \cup {"preflight"}
            BY DEF Calls
        <3>. QED BY <3>1, <3>2 DEF Steps, WaitSteps, AtNode, Outcomes, Running
    <2>2. QuoteFits' /\ Unsent' /\ BuilderMatches' /\ CachedWasTaken'
        BY <1>1 DEF BeginSend, QuoteFits, Unsent, BuilderMatches, CachedWasTaken
    <2>3. TakenMatches' /\ Verdicts'
        <3>1. TakenMatches'
            BY <1>1 DEF BeginSend, TakenMatches
        <3>2. Verdicts'
            BY <1>1 DEF BeginSend, Verdicts, AtNode, State, Running
        <3>. QED BY <3>1, <3>2
    <2>. QED BY <2>1, <2>2, <2>3
<1>2. ASSUME NEW what \in Spenders \cup {"batch", "preflight"},
             NEW result \in {"cached", "error"}, NoSend(c, what, result)
      PROVE  IInv'
    <2>. USE DEF NoSend, Return
    <2>1. TypeOK'
        BY <1>2 DEF Steps, WaitSteps, AtNode, Calls, Outcomes, Running
    <2>2. QuoteFits' /\ Unsent' /\ CachedWasTaken'
        BY <1>2 DEF QuoteFits, Unsent, CachedWasTaken
    <2>3. BuilderMatches'
        <3>1. WholeOps(<<>>)
            BY DEF WholeOps
        <3>. QED BY <1>2, <3>1 DEF BuilderMatches
    <2>4. TakenMatches' /\ Verdicts'
        <3>1. TakenMatches'
            BY <1>2 DEF TakenMatches
        <3>2. Verdicts'
            BY <1>2 DEF Verdicts, AtNode, State, Running
        <3>. QED BY <3>1, <3>2
    <2>. QED BY <2>1, <2>2, <2>3, <2>4
<1>3. ASSUME NEW s \in Spenders, EnsureApproval(c, s) PROVE IInv'
    <2>1. ~broken[c]
        BY <1>3 DEF EnsureApproval, BuilderMatches
    <2>. QED BY <1>1, <1>2, <1>3, <2>1 DEF EnsureApproval
<1>4. ASSUME NEW what \in {"batch", "preflight"}, SendBatch(c, what) PROVE IInv'
    BY <1>1, <1>2, <1>4 DEF SendBatch
<1>5. CASE WaitForConfirmed(c)
    <2>. USE DEF WaitForConfirmed
    <2>1. TypeOK'
        BY <1>5 DEF Steps, WaitSteps, AtNode, Calls, Outcomes, Running
    <2>2. QuoteFits' /\ Unsent' /\ CachedWasTaken' /\ BuilderMatches'
        BY <1>5 DEF QuoteFits, Unsent, CachedWasTaken, BuilderMatches
    <2>3. TakenMatches' /\ Verdicts'
        <3>1. TakenMatches'
            BY <1>5 DEF TakenMatches
        <3>2. Verdicts'
            BY <1>5 DEF Verdicts, AtNode, State, Running
        <3>. QED BY <3>1, <3>2
    <2>. QED BY <2>1, <2>2, <2>3
<1>. QED BY <1>3, <1>4, <1>5 DEF Call

\* A call that returns, and keeps its transaction.
LEMMA ReturnStep ==
    ASSUME IInv, NEW c \in Callers, NEW result \in Outcomes, Return(c, result),
           UNCHANGED <<call, taken, txs>>,
           approved' \subseteq Spenders, late' \in [Callers -> Sends \cup {NoRequest}],
           CachedWasTaken',
           Running(c),
           result = "refused" /\ call[c] \in Sends => taken[c] = 0,
           result = "ok" /\ call[c] \in Sends => taken[c] # 0,
           call[c] = "wait" /\ result # "canceled" =>
                IF result = "failed" THEN State(c) \in {"FAILED", "INVALID"}
                                     ELSE State(c) = "CONFIRMED"
    PROVE  IInv'
<1>. USE DEF IInv, TypeOK, Return, Goto
<1>1. TypeOK'
    <2>1. /\ pc' = [pc EXCEPT ![c] = "idle"] /\ outcome' = [outcome EXCEPT ![c] = result]
          /\ ops' = [ops EXCEPT ![c] = <<>>] /\ broken' = [broken EXCEPT ![c] = FALSE]
          /\ quote' = [quote EXCEPT ![c] = NoQuote]
          /\ expired' = [expired EXCEPT ![c] = FALSE]
          /\ call' = call /\ taken' = taken /\ txs' = txs
        OBVIOUS
    <2>2. ops' \in [Callers -> Seq(OpNames)]
        <3>1. <<>> \in Seq(OpNames)
            OBVIOUS
        <3>. QED BY <2>1, <3>1
    <2>3. /\ pc' \in [Callers -> Steps] /\ outcome' \in [Callers -> Outcomes]
          /\ broken' \in [Callers -> BOOLEAN] /\ expired' \in [Callers -> BOOLEAN]
          /\ quote' \in [Callers -> Quotes \cup {NoQuote}]
        BY <2>1 DEF Steps, WaitSteps, AtNode
    <2>4. /\ call' \in [Callers -> Calls] /\ taken' \in [Callers -> 0..Len(txs')]
          /\ txs' \in Seq(Txs)
        BY <2>1
    <2>5. \A b \in Callers :
            /\ pc'[b] \in {"payload", "estimate", "simulate"} => call'[b] \in Sends \cup {"preflight"}
            /\ pc'[b] = "submit" => call'[b] \in Sends
            /\ pc'[b] \in WaitSteps <=> call'[b] = "wait" /\ Running(b)'
        BY <2>1 DEF Running, WaitSteps, AtNode
    <2>. QED BY <2>2, <2>3, <2>4, <2>5
<1>2. QuoteFits' /\ Unsent'
    BY DEF QuoteFits, Unsent
<1>3. BuilderMatches'
    <2>1. WholeOps(<<>>)
        BY DEF WholeOps
    <2>. QED BY <2>1 DEF BuilderMatches
<1>4. TakenMatches'
    BY DEF TakenMatches
<1>5. Verdicts'
    BY DEF Verdicts, AtNode, State, Running
<1>. QED BY <1>1, <1>2, <1>3, <1>4, <1>5

\* The requests before the submission.
LEMMA PreflightStep ==
    ASSUME IInv, NEW c \in Callers, Preflight(c)
    PROVE  IInv'
<1>. USE DEF builder, locals, relayer
<1>1. ASSUME NEW result \in {"refused", "error", "ok"}, Return(c, result),
             UNCHANGED <<approved, call, taken, relayer>>,
             pc[c] \in {"payload", "estimate", "simulate"},
             result = "ok" => call[c] = "preflight"
      PROVE  IInv'
    <2>1. /\ result \in Outcomes /\ Running(c)
          /\ call[c] # "wait" /\ taken[c] = 0
          /\ approved' \subseteq Spenders /\ late' \in [Callers -> Sends \cup {NoRequest}]
        BY <1>1 DEF Outcomes, Running, IInv, TypeOK, Unsent, Sends
    <2>2. CachedWasTaken'
        BY <1>1 DEF IInv, CachedWasTaken
    <2>3. ~(result = "ok" /\ call[c] \in Sends)
        BY <1>1 DEF Sends
    <2>. QED BY <1>1, <2>1, <2>2, <2>3, ReturnStep
<1>2. CASE PayloadArrives(c)
    <2>. USE <1>2 DEF IInv, TypeOK, PayloadArrives, Goto
    <2>1. TypeOK'
        BY DEF Steps, WaitSteps, AtNode, Running
    <2>2. QuoteFits' /\ Unsent' /\ CachedWasTaken' /\ BuilderMatches'
        BY DEF QuoteFits, Unsent, CachedWasTaken, BuilderMatches
    <2>3. TakenMatches' /\ Verdicts'
        <3>1. TakenMatches'
            BY DEF TakenMatches
        <3>2. Verdicts'
            BY DEF Verdicts, AtNode, State, Running
        <3>. QED BY <3>1, <3>2
    <2>. QED BY <2>1, <2>2, <2>3
<1>3. CASE PayloadFails(c)
    BY <1>1, <1>3 DEF PayloadFails
<1>4. ASSUME NEW est \in Estimates, NEW data \in Payloads, EstimateArrives(c, est, data)
      PROVE  IInv'
    <2>1. CASE TooLarge(est, data)
        BY <1>1, <1>4, <2>1 DEF EstimateArrives
    <2>2. CASE ~TooLarge(est, data)
        <3>. DEFINE q == [est |-> est, data |-> data]
        <3>1. /\ pc[c] = "estimate" /\ pc' = [pc EXCEPT ![c] = "simulate"]
              /\ quote' = [quote EXCEPT ![c] = q]
              /\ UNCHANGED <<approved, ops, broken, call, expired, outcome, taken, late, txs>>
            BY <1>4, <2>2 DEF EstimateArrives, Goto
        <3>2. /\ q \in Quotes /\ Signed(q.est) >= q.est + MarginMin
              /\ PassesGuard(Signed(q.est), q.data)
            BY <2>2, NotTooLargeFits DEF Quotes
        <3>. HIDE DEF q
        <3>. USE <3>1 DEF IInv, TypeOK
        <3>3. TypeOK'
            BY <3>2 DEF Steps, WaitSteps, AtNode, Running
        <3>4. QuoteFits'
            BY <3>2 DEF QuoteFits
        <3>5. Unsent' /\ CachedWasTaken' /\ BuilderMatches'
            BY DEF Unsent, CachedWasTaken, BuilderMatches
        <3>6. TakenMatches' /\ Verdicts'
            <4>1. TakenMatches'
                BY DEF TakenMatches
            <4>2. Verdicts'
                BY DEF Verdicts, AtNode, State, Running
            <4>. QED BY <4>1, <4>2
        <3>. QED BY <3>3, <3>4, <3>5, <3>6
    <2>. QED BY <2>1, <2>2
<1>5. CASE EstimateFails(c)
    BY <1>1, <1>5 DEF EstimateFails
<1>6. CASE SimulationPasses(c)
    <2>1. CASE call[c] = "preflight"
        BY <1>1, <1>6, <2>1 DEF SimulationPasses
    <2>2. CASE call[c] # "preflight"
        <3>0. /\ pc[c] = "simulate" /\ pc' = [pc EXCEPT ![c] = "submit"]
              /\ UNCHANGED <<approved, ops, broken, call, quote, expired, outcome, taken, late, txs>>
              /\ outcome[c] = "none" /\ taken[c] = 0 /\ call[c] \in Sends
            BY <1>6, <2>2 DEF SimulationPasses, Goto, IInv, TypeOK, Unsent
        <3>. USE <3>0 DEF IInv, TypeOK
        <3>1. TypeOK'
            BY DEF Steps, WaitSteps, AtNode, Running
        <3>2. QuoteFits' /\ Unsent' /\ CachedWasTaken' /\ BuilderMatches'
            <4>1. QuoteFits' /\ BuilderMatches'
                BY DEF QuoteFits, BuilderMatches
            <4>2. Unsent' /\ CachedWasTaken'
                BY DEF Unsent, CachedWasTaken
            <4>. QED BY <4>1, <4>2
        <3>3. TakenMatches' /\ Verdicts'
            <4>1. TakenMatches'
                BY DEF TakenMatches
            <4>2. Verdicts'
                BY DEF Sends, Verdicts, AtNode, State, Running
            <4>. QED BY <4>1, <4>2
        <3>. QED BY <3>1, <3>2, <3>3
    <2>. QED BY <2>1, <2>2
<1>7. CASE SimulationFails(c)
    BY <1>1, <1>7 DEF SimulationFails
<1>. QED BY <1>2, <1>3, <1>4, <1>5, <1>6, <1>7 DEF Preflight

\* The transactions already taken stay when one is added.
LEMMA Added ==
    ASSUME IInv, NEW what \in Sends, txs' = Append(txs, NewTxOf(what))
    PROVE  /\ txs' \in Seq(Txs)
           /\ Len(txs') = Len(txs) + 1
           /\ txs'[Len(txs) + 1] = [of |-> what, state |-> "NEW"]
           /\ \A i \in 1..Len(txs) : txs'[i] = txs[i]
           /\ Len(txs) \in Nat /\ DOMAIN txs = 1..Len(txs) /\ DOMAIN txs' = 1..(Len(txs) + 1)
<1>1. NewTxOf(what) \in Txs /\ NewTxOf(what) = [of |-> what, state |-> "NEW"]
    BY DEF NewTxOf, Txs, TxStates
<1>2. txs \in Seq(Txs)
    BY DEF IInv, TypeOK
<1>. QED BY <1>1, <1>2

\* Nor does the cache stop to be right.
LEMMA AddedCached ==
    ASSUME IInv, NEW what \in Sends, txs' = Append(txs, NewTxOf(what)), approved' = approved
    PROVE  CachedWasTaken'
<1>1. ASSUME NEW s \in approved PROVE \E i \in DOMAIN txs' : txs'[i].of = s
    <2>1. PICK i \in DOMAIN txs : txs[i].of = s
        BY DEF IInv, CachedWasTaken
    <2>2. i \in DOMAIN txs' /\ txs'[i] = txs[i]
        BY Added
    <2>. QED BY <2>1, <2>2
<1>. QED BY <1>1 DEF CachedWasTaken

\* The submission and its answer.
LEMMA SubmitStep ==
    ASSUME IInv, NEW c \in Callers, Submit(c)
    PROVE  IInv'
<1>. USE DEF builder, locals, relayer
<1>1. CASE RelayerTakes(c)
    <2>1. /\ pc[c] = "submit" /\ taken[c] = 0 /\ call[c] \in Sends /\ outcome[c] = "none"
          /\ txs' = Append(txs, NewTxOf(call[c]))
          /\ taken' = [taken EXCEPT ![c] = Len(txs) + 1]
          /\ UNCHANGED <<approved, ops, broken, pc, call, quote, expired, outcome, late>>
        BY <1>1 DEF RelayerTakes, IInv, TypeOK, Unsent
    <2>2. /\ txs' \in Seq(Txs) /\ Len(txs) \in Nat
          /\ Len(txs') = Len(txs) + 1 /\ txs'[Len(txs) + 1].of = call[c]
        <3>1. txs'[Len(txs) + 1] = [of |-> call[c], state |-> "NEW"]
            BY <2>1, Added
        <3>2. /\ txs' \in Seq(Txs) /\ Len(txs) \in Nat
              /\ Len(txs') = Len(txs) + 1
            BY <2>1, Added
        <3>. QED BY <3>1, <3>2
    <2>3. taken' \in [Callers -> 0..Len(txs')]
        BY <2>1, <2>2 DEF IInv, TypeOK
    <2>4. TypeOK'
        BY <2>1, <2>2, <2>3 DEF IInv, TypeOK, Running
    <2>5. CachedWasTaken'
        BY <2>1, AddedCached
    <2>6. \A b \in Callers \ {c} : taken'[b] = taken[b] /\ (taken[b] # 0 => txs'[taken[b]] = txs[taken[b]])
        BY <2>1, Added DEF IInv, TypeOK
    <2>7. taken'[c] = Len(txs) + 1 /\ taken'[c] # 0
        BY <2>1, <2>2 DEF IInv, TypeOK
    <2>8. QuoteFits' /\ BuilderMatches'
        BY <2>1 DEF IInv, QuoteFits, BuilderMatches
    <2>9. Unsent'
        BY <2>1, <2>6 DEF IInv, Unsent, Sends
    <2>10. TakenMatches'
        <3>1. ASSUME NEW b \in Callers, b # c
              PROVE  /\ pc'[b] = "submit" /\ taken'[b] # 0 => txs'[taken'[b]].of = call'[b]
                     /\ call'[b] \in Sends /\ outcome'[b] = "ok" => taken'[b] # 0
                     /\ call'[b] = "wait" => taken'[b] # 0
            <4>1. taken'[b] = taken[b] /\ (taken[b] # 0 => txs'[taken[b]] = txs[taken[b]])
                BY <2>6, <3>1
            <4>2. pc' = pc /\ call' = call /\ outcome' = outcome
                BY <2>1
            <4>. QED BY <4>1, <4>2 DEF IInv, TakenMatches
        <3>2. txs'[taken'[c]].of = call'[c] /\ taken'[c] # 0
            BY <2>1, <2>2, <2>7
        <3>. QED BY <3>1, <3>2 DEF TakenMatches, Sends
    <2>11. Verdicts'
        <3>1. call'[c] # "wait"
            BY <2>1 DEF Sends
        <3>2. \A b \in Callers \ {c} : call[b] = "wait" => State(b)' = State(b)
            BY <2>6 DEF IInv, TakenMatches, State
        <3>. QED BY <2>1, <3>1, <3>2 DEF IInv, Verdicts, Running
    <2>. QED BY <2>4, <2>5, <2>8, <2>9, <2>10, <2>11 DEF IInv
<1>2. CASE RelayerTakesLate(c)
    <2>1. /\ late[c] \in Sends
          /\ txs' = Append(txs, NewTxOf(late[c]))
          /\ late' = [late EXCEPT ![c] = NoRequest]
          /\ UNCHANGED <<approved, ops, broken, pc, call, quote, expired, outcome, taken>>
        BY <1>2 DEF RelayerTakesLate, IInv, TypeOK
    <2>2. /\ txs' \in Seq(Txs) /\ Len(txs) \in Nat
          /\ Len(txs') = Len(txs) + 1
        BY <2>1, Added
    <2>3. taken' \in [Callers -> 0..Len(txs')] /\ late' \in [Callers -> Sends \cup {NoRequest}]
        BY <2>1, <2>2 DEF IInv, TypeOK
    <2>4. TypeOK'
        BY <2>1, <2>2, <2>3 DEF IInv, TypeOK, Running
    <2>5. CachedWasTaken'
        BY <2>1, AddedCached
    <2>6. \A b \in Callers : taken[b] # 0 => txs'[taken[b]] = txs[taken[b]]
        BY <2>1, Added DEF IInv, TypeOK
    <2>7. QuoteFits' /\ BuilderMatches' /\ Unsent'
        BY <2>1 DEF IInv, QuoteFits, BuilderMatches, Unsent
    <2>8. TakenMatches' /\ Verdicts'
        <3>1. TakenMatches'
            BY <2>1, <2>6 DEF IInv, TakenMatches
        <3>2. Verdicts'
            <4>1. \A b \in Callers : call[b] = "wait" => State(b)' = State(b)
                BY <2>1, <2>6 DEF IInv, TakenMatches, State
            <4>. QED BY <2>1, <4>1 DEF IInv, Verdicts, Running
        <3>. QED BY <3>1, <3>2
    <2>. QED BY <2>4, <2>5, <2>7, <2>8 DEF IInv
<1>3. CASE SubmitAnswered(c)
    <2>1. /\ pc[c] = "submit" /\ taken[c] # 0 /\ call[c] \in Sends /\ Running(c)
          /\ Return(c, "ok") /\ "ok" \in Outcomes /\ call[c] # "wait"
          /\ UNCHANGED <<call, taken, late, txs>>
          /\ approved' = approved \cup ({call[c]} \cap Spenders)
        BY <1>3 DEF SubmitAnswered, IInv, TypeOK, Running, Outcomes, Sends
    <2>2. txs[taken[c]].of = call[c] /\ taken[c] \in DOMAIN txs
        BY <2>1 DEF IInv, TypeOK, TakenMatches
    <2>3. CachedWasTaken'
        BY <2>1, <2>2 DEF IInv, CachedWasTaken
    <2>4. approved' \subseteq Spenders /\ late' \in [Callers -> Sends \cup {NoRequest}]
        BY <2>1 DEF IInv, TypeOK
    <2>. QED BY <2>1, <2>3, <2>4, ReturnStep
<1>4. CASE SubmitRefused(c)
    <2>1. /\ taken[c] = 0 /\ call[c] # "wait" /\ Running(c)
          /\ Return(c, "refused") /\ "refused" \in Outcomes
          /\ UNCHANGED <<approved, call, taken, late, txs>>
        BY <1>4 DEF SubmitRefused, IInv, TypeOK, Running, Outcomes, Sends
    <2>2. CachedWasTaken'
        BY <2>1 DEF IInv, CachedWasTaken
    <2>3. approved' \subseteq Spenders /\ late' \in [Callers -> Sends \cup {NoRequest}]
        BY <2>1 DEF IInv, TypeOK
    <2>. QED BY <2>1, <2>2, <2>3, ReturnStep
<1>5. CASE SubmitFails(c)
    <2>1. /\ call[c] # "wait" /\ call[c] \in Sends /\ Running(c)
          /\ Return(c, "error") /\ "error" \in Outcomes
          /\ UNCHANGED <<approved, call, taken, txs>>
          /\ late' = late \/ late' = [late EXCEPT ![c] = call[c]]
        BY <1>5 DEF SubmitFails, IInv, TypeOK, Running, Outcomes, Sends
    <2>2. CachedWasTaken'
        BY <2>1 DEF IInv, CachedWasTaken
    <2>3. approved' \subseteq Spenders /\ late' \in [Callers -> Sends \cup {NoRequest}]
        BY <2>1 DEF IInv, TypeOK
    <2>. QED BY <2>1, <2>2, <2>3, ReturnStep
<1>. QED BY <1>1, <1>2, <1>3, <1>4, <1>5 DEF Submit

\* The polling of a transaction, and the requests to the node after its verdict.
LEMMA WaitStep ==
    ASSUME IInv, NEW c \in Callers, Wait(c)
    PROVE  IInv'
<1>. USE DEF builder, locals, relayer
<1>1. ASSUME NEW step \in {"ticker", "poll"}, pc[c] \in {"ticker", "poll"}, Goto(c, step),
             UNCHANGED <<approved, builder, call, locals, outcome, taken, relayer>>
      PROVE  IInv'
    <2>. USE <1>1 DEF IInv, TypeOK, Goto
    <2>1. TypeOK'
        BY DEF Steps, WaitSteps, AtNode, Running
    <2>2. QuoteFits' /\ Unsent' /\ CachedWasTaken' /\ BuilderMatches'
        BY DEF QuoteFits, Unsent, CachedWasTaken, BuilderMatches
    <2>3. TakenMatches' /\ Verdicts'
        <3>1. TakenMatches'
            BY DEF TakenMatches
        <3>2. Verdicts'
            BY DEF Verdicts, AtNode, State, Running
        <3>. QED BY <3>1, <3>2
    <2>. QED BY <2>1, <2>2, <2>3
<1>2. ASSUME NEW result \in Outcomes, Return(c, result), pc[c] \in WaitSteps,
             UNCHANGED <<approved, call, taken, relayer>>,
             result # "canceled" =>
                IF result = "failed" THEN State(c) \in {"FAILED", "INVALID"}
                                     ELSE State(c) = "CONFIRMED"
      PROVE  IInv'
    <2>1. Running(c) /\ call[c] = "wait" /\ call[c] \notin Sends
        BY <1>2 DEF IInv, TypeOK, Running, WaitSteps, AtNode, Sends
    <2>2. CachedWasTaken'
        BY <1>2 DEF IInv, CachedWasTaken
    <2>3. approved' \subseteq Spenders /\ late' \in [Callers -> Sends \cup {NoRequest}]
        BY <1>2 DEF IInv, TypeOK
    <2>. QED BY <1>2, <2>1, <2>2, <2>3, ReturnStep
\* A wait that has a verdict asks the node, or asks it again.
<1>3. ASSUME NEW step \in AtNode, NEW verdict \in Outcomes, pc[c] \in WaitSteps, Goto(c, step),
             outcome' = [outcome EXCEPT ![c] = verdict],
             UNCHANGED <<approved, builder, call, locals, taken, relayer>>,
             verdict # "canceled" =>
                IF verdict = "failed" THEN State(c) \in {"FAILED", "INVALID"}
                                      ELSE State(c) = "CONFIRMED"
      PROVE  IInv'
    <2>. USE <1>3 DEF IInv, TypeOK, Goto
    <2>1. call[c] = "wait" /\ call[c] \notin Sends
        BY DEF Sends
    <2>2. TypeOK'
        BY DEF Steps, WaitSteps, AtNode, Running
    <2>3. QuoteFits' /\ CachedWasTaken' /\ BuilderMatches'
        BY <2>1 DEF QuoteFits, CachedWasTaken, BuilderMatches, AtNode, WaitSteps
    <2>4. Unsent'
        BY <2>1 DEF Unsent, AtNode
    <2>5. TakenMatches'
        BY <2>1 DEF TakenMatches, AtNode
    <2>6. Verdicts'
        BY DEF Verdicts, State, Running
    <2>. QED BY <2>2, <2>3, <2>4, <2>5, <2>6
<1>4. CASE ContextEnds(c)
    <2>. USE <1>4 DEF ContextEnds, IInv, TypeOK
    <2>1. TypeOK'
        BY DEF Running
    <2>2. QuoteFits' /\ Unsent' /\ CachedWasTaken' /\ BuilderMatches'
        BY DEF QuoteFits, Unsent, CachedWasTaken, BuilderMatches
    <2>3. TakenMatches' /\ Verdicts'
        <3>1. TakenMatches'
            BY DEF TakenMatches
        <3>2. Verdicts'
            BY DEF Verdicts, AtNode, State, Running
        <3>. QED BY <3>1, <3>2
    <2>. QED BY <2>1, <2>2, <2>3
<1>5. CASE Tick(c) \/ PollGoesOn(c)
    BY <1>1, <1>5 DEF Tick, PollGoesOn, Waits
<1>6. CASE WaitCanceled(c)
    <2>1. "canceled" \in Outcomes /\ pc[c] \in WaitSteps
        BY <1>6 DEF WaitCanceled, Waits, Outcomes, WaitSteps
    <2>. QED BY <1>2, <1>6, <2>1 DEF WaitCanceled, Waits
<1>7. ASSUME NEW verdict \in {"ok", "failed"}, Fills(c, verdict), Waits(c, "poll"),
             IF verdict = "failed" THEN State(c) \in {"FAILED", "INVALID"}
                                   ELSE State(c) = "CONFIRMED"
      PROVE  IInv'
    <2>1. verdict \in Outcomes /\ pc[c] \in WaitSteps /\ "receipt" \in AtNode
        BY <1>7 DEF Waits, Outcomes, WaitSteps, AtNode
    <2>2. UNCHANGED <<approved, call, taken, relayer>>
        BY <1>7 DEF Waits
    <2>. QED BY <1>2, <1>3, <1>7, <2>1, <2>2 DEF Fills
<1>8. CASE PollConfirmed(c) \/ PollFailed(c)
    BY <1>7, <1>8 DEF PollConfirmed, PollFailed
<1>9. CASE ReceiptEnds(c)
    <2>1. pc[c] \in WaitSteps /\ pc[c] \in AtNode /\ "lookup" \in AtNode /\ call[c] = "wait"
        BY <1>9 DEF ReceiptEnds, Waits, WaitSteps, AtNode, IInv, TypeOK
    <2>2. PICK verdict \in Outcomes :
            /\ outcome' = [outcome EXCEPT ![c] = verdict]
            /\ verdict = outcome[c] \/ (outcome[c] = "ok" /\ verdict = "reverted")
        <3>1. CASE UNCHANGED outcome
            <4>1. outcome[c] \in Outcomes /\ outcome' = [outcome EXCEPT ![c] = outcome[c]]
                BY <3>1 DEF IInv, TypeOK
            <4>. QED BY <4>1
        <3>2. CASE outcome[c] = "ok" /\ outcome' = [outcome EXCEPT ![c] = "reverted"]
            BY <3>2 DEF Outcomes
        <3>. QED BY <1>9, <3>1, <3>2 DEF ReceiptEnds
    <2>3. verdict # "canceled" =>
            IF verdict = "failed" THEN State(c) \in {"FAILED", "INVALID"}
                                  ELSE State(c) = "CONFIRMED"
        BY <2>1, <2>2 DEF IInv, Verdicts
    <2>. QED BY <1>3, <1>9, <2>1, <2>2, <2>3 DEF ReceiptEnds, Waits
<1>10. CASE LookupEnds(c)
    <2>1. pc[c] \in WaitSteps /\ pc[c] \in AtNode /\ call[c] = "wait" /\ outcome[c] \in Outcomes
        BY <1>10 DEF LookupEnds, Waits, WaitSteps, AtNode, IInv, TypeOK
    <2>2. outcome[c] # "canceled" =>
            IF outcome[c] = "failed" THEN State(c) \in {"FAILED", "INVALID"}
                                     ELSE State(c) = "CONFIRMED"
        BY <2>1 DEF IInv, Verdicts
    <2>. QED BY <1>2, <1>10, <2>1, <2>2 DEF LookupEnds, Waits
<1>. QED BY <1>4, <1>5, <1>6, <1>8, <1>9, <1>10 DEF Wait, NodeEnds

\* A transaction goes on: one that has ended stays as it is.
LEMMA TxKeeps ==
    ASSUME IInv, NEW i \in 1..MaxTxs, TxMoves(i)
    PROVE  /\ UNCHANGED <<approved, ops, broken, pc, call, quote, expired, outcome, taken, late>>
           /\ txs' \in Seq(Txs) /\ Len(txs') = Len(txs) /\ DOMAIN txs' = DOMAIN txs
           /\ \A j \in DOMAIN txs : txs'[j].of = txs[j].of
           /\ \A j \in DOMAIN txs : txs[j].state \in Final => txs'[j].state = txs[j].state
<1>1. PICK next \in Onward[txs[i].state] : txs' = [txs EXCEPT ![i].state = next]
    BY DEF TxMoves
<1>2. /\ i \in DOMAIN txs /\ txs[i].state \notin Final
      /\ UNCHANGED <<approved, ops, broken, pc, call, quote, expired, outcome, taken, late>>
    BY DEF TxMoves, builder, locals
<1>3. txs \in Seq(Txs) /\ txs[i] \in Txs /\ txs[i].state \in {"NEW", "EXECUTED"}
    <2>1. txs \in Seq(Txs)
        BY DEF IInv, TypeOK
    <2>2. txs[i] \in Txs
        BY <1>2, <2>1
    <2>. QED BY <1>2, <2>1, <2>2 DEF Txs, TxStates
<1>4. next \in TxStates
    BY <1>1, <1>3 DEF Onward, TxStates, Final
<1>5. /\ txs' \in Seq(Txs) /\ Len(txs') = Len(txs)
      /\ DOMAIN txs' = DOMAIN txs
      /\ \A j \in DOMAIN txs : txs'[j].of = txs[j].of
      /\ \A j \in DOMAIN txs : txs[j].state \in Final => txs'[j].state = txs[j].state
    <2>. DEFINE t == [txs[i] EXCEPT !.state = next]
    <2>1. t \in Txs /\ t.of = txs[i].of
        BY <1>3, <1>4 DEF Txs
    <2>2. txs' = [txs EXCEPT ![i] = t]
        BY <1>1
    <2>. HIDE DEF t
    <2>3. txs' \in Seq(Txs) /\ Len(txs') = Len(txs)
        BY <1>2, <1>3, <2>1, <2>2, ExceptSeq
    <2>4. DOMAIN txs' = DOMAIN txs
        BY <2>2
    <2>5. \A j \in DOMAIN txs : txs'[j] = IF j = i THEN t ELSE txs[j]
        BY <2>2
    <2>. QED BY <1>2, <2>1, <2>3, <2>4, <2>5
<1>. QED BY <1>2, <1>5

\* A transaction goes on.
LEMMA TxStep ==
    ASSUME IInv, NEW i \in 1..MaxTxs, TxMoves(i)
    PROVE  IInv'
<1>1. UNCHANGED <<approved, ops, broken, pc, call, quote, expired, outcome, taken, late>>
    BY TxKeeps
<1>2. /\ txs' \in Seq(Txs) /\ Len(txs') = Len(txs) /\ DOMAIN txs' = DOMAIN txs
      /\ \A j \in DOMAIN txs : txs'[j].of = txs[j].of
      /\ \A j \in DOMAIN txs : txs[j].state \in Final => txs'[j].state = txs[j].state
    BY TxKeeps
<1>3. TypeOK'
    BY <1>1, <1>2 DEF IInv, TypeOK, Running
<1>4. QuoteFits' /\ Unsent' /\ BuilderMatches'
    BY <1>1 DEF IInv, QuoteFits, Unsent, BuilderMatches
<1>5. CachedWasTaken'
    BY <1>1, <1>2 DEF IInv, CachedWasTaken
<1>6. \A b \in Callers : taken[b] # 0 => taken[b] \in DOMAIN txs
    BY DEF IInv, TypeOK
<1>7. TakenMatches'
    BY <1>1, <1>2, <1>6 DEF IInv, TakenMatches
<1>8. Verdicts'
    BY <1>1, <1>2, <1>6 DEF IInv, TakenMatches, Verdicts, AtNode, State, Running, Final
<1>. QED BY <1>3, <1>4, <1>5, <1>7, <1>8 DEF IInv

\* Every step keeps the invariant.
LEMMA NextIInv == IInv /\ [Next]_vars => IInv'
<1>. SUFFICES ASSUME IInv, [Next]_vars PROVE IInv'
    OBVIOUS
<1>1. CASE UNCHANGED vars
    BY <1>1 DEF vars, builder, locals, relayer, IInv, TypeOK, QuoteFits, Unsent, TakenMatches,
        BuilderMatches, CachedWasTaken, Verdicts, AtNode, State, Running
<1>2. ASSUME NEW c \in Callers, Build(c) \/ Call(c) \/ CallStep(c) PROVE IInv'
    BY <1>2, BuildStep, CallBegins, PreflightStep, SubmitStep, WaitStep DEF CallStep
<1>. QED BY <1>1, <1>2, TxStep DEF Next

\* The invariant of the specification.
LEMMA Invariant == Spec => []IInv
BY InitIInv, NextIInv, PTL DEF Spec

\* Once a spender is cached and nobody approves it, a step leaves its approvals.
LEMMA ApprovalsStay ==
    ASSUME IInv, Next, NEW s \in approved, ~Approving(s)
    PROVE  ~Approving(s)' /\ s \in approved' /\ Approvals(s)' = Approvals(s)
<1>. USE DEF IInv, TypeOK, builder, locals, relayer
<1>1. s \in Spenders /\ s \notin {"batch", "preflight", "wait", "none"} /\ s # NoRequest
    OBVIOUS
<1>2. \A b \in Callers : ~(Running(b) /\ call[b] = s) /\ late[b] # s
    BY DEF Approving
\* Steps that take no transaction: nobody starts to approve the spender.
<1>3. ASSUME UNCHANGED txs, approved \subseteq approved',
             \A b \in Callers : ~(Running(b)' /\ call'[b] = s) /\ late'[b] # s
      PROVE  ~Approving(s)' /\ s \in approved' /\ Approvals(s)' = Approvals(s)
    BY <1>3 DEF Approving, Approvals
<1>4. ASSUME NEW c \in Callers, Build(c) PROVE ~Approving(s)' /\ s \in approved' /\ Approvals(s)' = Approvals(s)
    BY <1>1, <1>2, <1>3, <1>4 DEF Build, NewTx, Pack, Running
<1>5. ASSUME NEW c \in Callers, Call(c) PROVE ~Approving(s)' /\ s \in approved' /\ Approvals(s)' = Approvals(s)
    <2>1. /\ approved' = approved /\ late' = late /\ txs' = txs
          /\ \A b \in Callers : b # c => call'[b] = call[b] /\ pc'[b] = pc[b]
        BY <1>5 DEF Call, EnsureApproval, SendBatch, WaitForConfirmed, BeginSend, NoSend, Return,
            Goto, Is
    <2>2. ~(Running(c)' /\ call'[c] = s)
        BY <1>1, <1>5 DEF Call, EnsureApproval, SendBatch, WaitForConfirmed, BeginSend, NoSend,
            Return, Goto, Is, Running
    <2>. QED BY <1>2, <1>3, <2>1, <2>2 DEF Running
<1>6. ASSUME NEW c \in Callers, Preflight(c) \/ Wait(c)
      PROVE  ~Approving(s)' /\ s \in approved' /\ Approvals(s)' = Approvals(s)
    <2>. DEFINE Moves == /\ approved' = approved /\ late' = late /\ txs' = txs /\ call' = call
                         /\ Running(c) /\ \A b \in Callers : b # c => pc'[b] = pc[b]
    <2>1. ASSUME Preflight(c) PROVE Moves
        BY <2>1 DEF Preflight, PayloadArrives, PayloadFails, EstimateArrives, EstimateFails,
            SimulationPasses, SimulationFails, Return, Goto, Running
    <2>2. ASSUME Wait(c) PROVE Moves
        <3>1. pc[c] \in WaitSteps /\ UNCHANGED <<approved, call, taken, relayer>>
            BY <2>2 DEF Wait, Waits, ContextEnds, Tick, PollGoesOn, PollConfirmed, PollFailed,
                NodeEnds, ReceiptEnds, LookupEnds, WaitCanceled, WaitSteps, AtNode
        <3>2. pc' = pc \/ \E step \in Steps : pc' = [pc EXCEPT ![c] = step]
            BY <2>2 DEF Wait, ContextEnds, Tick, PollGoesOn, PollConfirmed, PollFailed, Fills,
                NodeEnds, ReceiptEnds, LookupEnds, WaitCanceled, Return, Goto, Steps, WaitSteps, AtNode
        <3>. QED BY <3>1, <3>2 DEF Running, WaitSteps, AtNode
    <2>. QED BY <1>2, <1>3, <1>6, <2>1, <2>2 DEF Running
<1>7. ASSUME NEW c \in Callers, SubmitAnswered(c) \/ SubmitRefused(c) \/ SubmitFails(c)
      PROVE  ~Approving(s)' /\ s \in approved' /\ Approvals(s)' = Approvals(s)
    <2>1. /\ approved \subseteq approved' /\ txs' = txs /\ call' = call
          /\ Running(c) /\ \A b \in Callers : b # c => pc'[b] = pc[b]
          /\ late' = late \/ late' = [late EXCEPT ![c] = call[c]]
        BY <1>7 DEF SubmitAnswered, SubmitRefused, SubmitFails, Return, Goto, Running
    <2>. QED BY <1>2, <1>3, <2>1 DEF Running
\* Steps that take a transaction: it is not one for the spender.
<1>8. ASSUME NEW c \in Callers, RelayerTakes(c) \/ RelayerTakesLate(c)
      PROVE  ~Approving(s)' /\ s \in approved' /\ Approvals(s)' = Approvals(s)
    <2>1. PICK what \in Sends : what # s /\ txs' = Append(txs, NewTxOf(what))
        BY <1>2, <1>8 DEF RelayerTakes, RelayerTakesLate, Running
    <2>2. /\ approved' = approved /\ call' = call /\ pc' = pc
          /\ \A b \in Callers : late'[b] = late[b] \/ late'[b] = NoRequest
        BY <1>8 DEF RelayerTakes, RelayerTakesLate
    <2>3. txs'[Len(txs) + 1].of = what
        <3>1. txs'[Len(txs) + 1] = [of |-> what, state |-> "NEW"]
            BY <2>1, Added
        <3>. QED BY <3>1
    <2>4. Approvals(s)' = Approvals(s)
        <3>1. /\ DOMAIN txs = 1..Len(txs) /\ DOMAIN txs' = 1..(Len(txs) + 1) /\ Len(txs) \in Nat
              /\ \A i \in 1..Len(txs) : txs'[i].of = txs[i].of
            BY <2>1, Added
        <3>2. \A i : i \in 1..(Len(txs) + 1) /\ txs'[i].of = s <=> i \in 1..Len(txs) /\ txs[i].of = s
            BY <2>1, <2>3, <3>1
        <3>. QED BY <3>1, <3>2 DEF Approvals
    <2>. QED BY <1>1, <1>2, <2>2, <2>4 DEF Approving, Running
<1>9. ASSUME NEW i \in 1..MaxTxs, TxMoves(i)
      PROVE  ~Approving(s)' /\ s \in approved' /\ Approvals(s)' = Approvals(s)
    <2>1. /\ UNCHANGED <<approved, pc, call, late>>
          /\ DOMAIN txs' = DOMAIN txs /\ \A j \in DOMAIN txs : txs'[j].of = txs[j].of
        BY <1>9, TxKeeps
    <2>2. Approvals(s)' = Approvals(s)
        BY <2>1 DEF Approvals
    <2>. QED BY <1>2, <2>1, <2>2 DEF Approving, Running
<1>. QED BY <1>4, <1>5, <1>6, <1>7, <1>8, <1>9 DEF Next, CallStep, Submit

-----------------------------------------------------------------------------
(* The theorems *)

\* Every variable keeps its type, and what a call waits for fits the call.
THEOREM RelayerTypeCorrect == Spec => []TypeOK
BY Invariant, PTL DEF IInv

\* What goes out to the relayer passes RelayHub's guard with the margin on top
\* of the estimate, for any gas constants and any outer limit.
THEOREM SentFits == Spec => []SentFitsGuard
<1>1. IInv => SentFitsGuard
    BY IInvImplies
<1>. QED BY <1>1, Invariant, PTL

\* A send that returns a RelayerError, and a preflight, have sent nothing.
THEOREM RefusedNotSent == Spec => []RefusedIsNotSent
<1>1. IInv => RefusedIsNotSent
    BY IInvImplies
<1>. QED BY <1>1, Invariant, PTL

\* No batch goes out with half of an approval.
THEOREM WholeSent == Spec => []WholeApprovals
<1>1. IInv => WholeApprovals
    BY IInvImplies
<1>. QED BY <1>1, Invariant, PTL

\* What the cache calls approved was taken by the relayer.
THEOREM CachedTaken == Spec => []CachedWasTaken
BY Invariant, PTL DEF IInv

\* The verdict of a wait is the end of its transaction, whatever the node says of it
\* and whenever the context ends.
THEOREM VerdictsFinal == Spec => []VerdictIsFinal
<1>1. IInv => VerdictIsFinal
    BY IInvImplies
<1>. QED BY <1>1, Invariant, PTL

\* A cached spender whose race is over is never approved again.
THEOREM ApprovalsEnd == Spec => CacheEndsApprovals
<1>1. ASSUME IInv, [Next]_vars
      PROVE  [\A s \in approved :
                ~Approving(s) => ~Approving(s)' /\ s \in approved' /\ Approvals(s)' = Approvals(s)]_vars
    BY <1>1, ApprovalsStay
<1>. QED BY <1>1, Invariant, PTL DEF Spec, CacheEndsApprovals
=============================================================================
