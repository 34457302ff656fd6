-------------------------- MODULE ClientCallsProofs --------------------------
(***************************************************************************)
(* For any number of tokens, any capacity of the channel and any number of *)
(* credentials: what a goroutine's calls guarantee.  Each invariant is     *)
(* about one call; the composition only chooses which of them steps.       *)
(***************************************************************************)
EXTENDS ClientCalls, FiniteSetTheorems, SequenceTheorems, TLAPS

\* A step of the goroutine, of a worker or of a service is a step of each call.
LEMMA StepOfEach ==
    ASSUME [Next]_callVars
    PROVE  /\ [AuthNext]_authVars /\ [RatesNext]_ratesVars
           /\ [GammaNext]_gammaVars /\ [PagesNext]_pageVars
<1>1. CASE UNCHANGED callVars
    BY <1>1 DEF callVars
<1>2. CASE Begin
    BY <1>2 DEF Begin, AuthNext, RatesNext, GammaNext, PagesNext
<1>3. CASE AuthGoes \/ LoopGoes \/ QueryGoes \/ GammaGoes
    BY <1>3 DEF AuthGoes, LoopGoes, QueryGoes, GammaGoes, AuthNext, RatesNext, GammaNext,
        PagesNext
<1>4. CASE End \/ Outside
    BY <1>4 DEF End, Outside, AuthNext, RatesNext, GammaNext, PagesNext
<1>5. ASSUME NEW i \in Fetches, WorkerGoes(i)
      PROVE  /\ [AuthNext]_authVars /\ [RatesNext]_ratesVars
             /\ [GammaNext]_gammaVars /\ [PagesNext]_pageVars
    BY <1>5 DEF WorkerGoes, RatesNext
<1>. QED BY <1>1, <1>2, <1>3, <1>4, <1>5 DEF Next

-----------------------------------------------------------------------------
(* InitAuth *)

\* What is valid while InitAuth runs, and what is on its way to it, is noted.
AuthInv ==
    /\ keys \in Nat
    /\ current \in Nat
    /\ reply # NoCreds => auth \in {"created", "derived"} /\ reply \in since
    /\ auth # "idle" /\ current # NoCreds => current \in since

LEMMA AuthStep == AuthInv /\ [AuthNext]_authVars => AuthInv'
<1>. SUFFICES ASSUME AuthInv, [AuthNext]_authVars PROVE AuthInv'
    OBVIOUS
<1>. USE DEF AuthInv, NoCreds
<1>1. CASE UNCHANGED authVars
    BY <1>1 DEF authVars
<1>2. CASE BeginAuth
    BY <1>2 DEF BeginAuth
<1>3. CASE CreateArrives
    BY <1>3 DEF CreateArrives, Makes, CanMake
<1>4. CASE DeriveArrives
    BY <1>4 DEF DeriveArrives
<1>5. CASE Succeeds \/ DeriveFails
    BY <1>5 DEF Succeeds, DeriveFails, AuthReturns
<1>6. CASE CreateFails
    BY <1>6 DEF CreateFails
<1>7. CASE OthersCreate
    BY <1>7 DEF OthersCreate, Makes, CanMake
<1>8. CASE KeyDeleted
    BY <1>8 DEF KeyDeleted
<1>. QED BY <1>1, <1>2, <1>3, <1>4, <1>5, <1>6, <1>7, <1>8 DEF AuthNext, Authenticate

LEMMA AuthInvariant == Spec => []AuthInv
<1>1. Init => AuthInv
    BY DEF Init, Unauthenticated, AuthInv, NoCreds
<1>2. AuthInv /\ [Next]_callVars => AuthInv'
    BY AuthStep, StepOfEach
<1>. QED BY <1>1, <1>2, PTL DEF Spec

\* Whatever answers are lost and whoever else makes or deletes credentials, what
\* InitAuth stores was valid while it ran.
THEOREM ValidCreds == Spec => CredsValid
<1>1. AuthInv /\ [AuthNext]_authVars => [creds' # creds => creds' \in since]_authVars
    BY DEF AuthInv, AuthNext, BeginAuth, Authenticate, CreateArrives, DeriveArrives, Succeeds,
        CreateFails, DeriveFails, AuthReturns, OthersCreate, KeyDeleted, NoCreds
<1>2. AuthInv /\ [Next]_callVars => [creds' # creds => creds' \in since]_authVars
    BY <1>1, StepOfEach
<1>. QED BY <1>2, AuthInvariant, PTL DEF Spec, CredsValid

-----------------------------------------------------------------------------
(* httpGet *)

AllTransient == \A i \in 1..Len(answers) : answers[i] \in Transient

\* The pauses before attempt n + 1.
SleptBefore(n) == IF n = 0 THEN 0 ELSE IF n = 1 THEN 2 ELSE 6

GammaInv ==
    /\ gamma \in {"idle", "ask", "sleep", "returned"}
    /\ answers \in Seq(Answers)
    /\ gamma # "idle" => fetcher \in Fetchers
    /\ gamma = "idle" => answers = <<>> /\ slept = 0
    /\ gamma = "ask" =>
        AllTransient /\ Len(answers) < retryAttempts /\ slept = SleptBefore(Len(answers))
    /\ gamma = "sleep" =>
        AllTransient /\ Len(answers) \in {1, 2} /\ slept = SleptBefore(Len(answers) - 1)
    /\ LastAnswerDecides

\* The caller's reading of a body is not one of httpGet's errors.
LEMMA DecodedIsNoError ==
    ASSUME fetcher \in Fetchers, NEW body PROVE Decoded(body) \notin {"refused", "exhausted"}
BY DEF Fetchers, Decoded

LEMMA GammaStep == GammaInv /\ [GammaNext]_gammaVars => GammaInv'
<1>. SUFFICES ASSUME GammaInv, [GammaNext]_gammaVars PROVE GammaInv'
    OBVIOUS
<1>. USE DEF GammaInv
<1>1. CASE UNCHANGED gammaVars
    BY <1>1 DEF gammaVars, AllTransient, LastAnswerDecides
<1>2. ASSUME NEW who \in Fetchers, BeginFetch(who) PROVE GammaInv'
    BY <1>2 DEF BeginFetch, AllTransient, SleptBefore, LastAnswerDecides, retryAttempts
<1>3. ASSUME NEW answer \in Answers, gamma = "ask", answers' = Append(answers, answer)
      PROVE  /\ answers' \in Seq(Answers)
             /\ Len(answers') = Len(answers) + 1
             /\ answers'[Len(answers')] = answer
             /\ \A i \in 1..Len(answers) : answers'[i] = answers[i]
             /\ \A i \in 1..(Len(answers') - 1) : answers'[i] \in Transient
    BY <1>3 DEF AllTransient
<1>4. ASSUME NEW answer \in Answers, Attempt(answer) PROVE GammaInv'
    <2>. USE <1>4 DEF Attempt
    <2>1. AllTransient'
        BY <1>3 DEF AllTransient
    <2>2. CASE Len(answers) + 1 < retryAttempts
        <3>1. gamma' = "sleep" /\ slept' = slept /\ Len(answers') \in {1, 2}
            BY <1>3, <2>2 DEF retryAttempts
        <3>2. slept' = SleptBefore(Len(answers') - 1)
            BY <1>3, <3>1
        <3>. QED BY <1>3, <2>1, <3>1, <3>2 DEF LastAnswerDecides
    <2>3. CASE ~(Len(answers) + 1 < retryAttempts)
        <3>1. gamma' = "returned" /\ got' = "exhausted" /\ slept' = slept
            BY <2>3 DEF FetchReturns
        <3>2. Len(answers') = 3 /\ slept' = 6
            BY <1>3, <2>3, <3>1 DEF SleptBefore, retryAttempts
        <3>3. LastAnswerDecides'
            BY <1>3, <3>1, <3>2 DEF LastAnswerDecides, Transient, retryAttempts
        <3>. QED BY <1>3, <3>1, <3>3
    <2>. QED BY <2>2, <2>3
<1>5. CASE Sleep
    <2>1. 2 ^ 1 = 2 /\ 2 ^ 2 = 4
        OBVIOUS
    <2>2. /\ gamma = "sleep" /\ gamma' = "ask"
          /\ slept' = slept + 2 ^ Len(answers)
          /\ fetcher' = fetcher /\ answers' = answers /\ got' = got
        BY <1>5 DEF Sleep
    <2>3. AllTransient /\ Len(answers) \in {1, 2} /\ slept = SleptBefore(Len(answers) - 1)
        BY <2>2
    <2>4. CASE Len(answers) = 1
        BY <2>1, <2>2, <2>3, <2>4 DEF SleptBefore, AllTransient, LastAnswerDecides, retryAttempts
    <2>5. CASE Len(answers) = 2
        BY <2>1, <2>2, <2>3, <2>5 DEF SleptBefore, AllTransient, LastAnswerDecides, retryAttempts
    <2>. QED BY <2>3, <2>4, <2>5
<1>6. CASE Refused
    <2>1. "refused" \in Answers /\ "refused" \notin Transient
        BY DEF Answers, Transient
    <2>2. gamma' = "returned" /\ got' = "refused"
        BY <1>6 DEF Refused, FetchReturns
    <2>3. LastAnswerDecides'
        BY <1>3, <1>6, <2>1, <2>2 DEF Refused, LastAnswerDecides
    <2>. QED BY <1>3, <1>6, <2>1, <2>2, <2>3 DEF Refused
<1>7. ASSUME NEW body \in Bodies, Fetched(body) PROVE GammaInv'
    <2>1. "ok" \in Answers /\ "ok" \notin Transient \cup {"refused"}
        BY DEF Answers, Transient
    <2>2. gamma' = "returned" /\ got' \notin {"refused", "exhausted"}
        BY <1>7, DecodedIsNoError DEF Fetched, FetchReturns
    <2>3. LastAnswerDecides'
        BY <1>3, <1>7, <2>1, <2>2 DEF Fetched, LastAnswerDecides
    <2>. QED BY <1>3, <1>7, <2>1, <2>2, <2>3 DEF Fetched
<1>8. CASE EndFetch
    BY <1>8 DEF EndFetch, LastAnswerDecides
<1>. QED BY <1>1, <1>2, <1>4, <1>5, <1>6, <1>7, <1>8 DEF GammaNext, Fetch

\* httpGet keeps it in any composition with the other calls.
LEMMA GammaInvariant == Spec => []GammaInv
<1>1. Init => GammaInv
    BY DEF Init, GammaIdle, GammaInv, LastAnswerDecides
<1>2. GammaInv /\ [Next]_callVars => GammaInv'
    BY GammaStep, StepOfEach
<1>. QED BY <1>1, <1>2, PTL DEF Spec

\* The last answer decides what httpGet returns, three transient failures and six
\* seconds of pauses being the only way to exhaust it.
THEOREM LastDecides == Spec => []LastAnswerDecides
<1>1. GammaInv => LastAnswerDecides
    BY DEF GammaInv
<1>. QED BY <1>1, GammaInvariant, PTL

-----------------------------------------------------------------------------
(* PrefetchFeeRates *)

\* Who has a place in the channel, and whose store has been counted.
Holding == {i \in Fetches : fetch[i] \in {"ask", "store", "count", "release"}}
Counted == {i \in stored : fetch[i] # "count"}

RatesInv ==
    /\ RatesTypeOK
    /\ sem = Cardinality(Holding)
    /\ ok = Cardinality(Counted)
    /\ \A i \in Fetches : fetch[i] # "none" <=> i <= launched
    /\ \A i \in Fetches : fetch[i] \in {"none", "ask", "store"} => i \notin stored
    /\ \A i \in Fetches : fetch[i] = "count" => i \in stored
    /\ launcher = "idle" => launched = 0
    /\ launcher \in {"wait", "returned"} => launched = NTokens
    /\ launcher = "returned" => \A i \in Fetches : fetch[i] = "done"

\* Each set of goroutines can be counted.
LEMMA FetchesFinite ==
    ASSUME NEW T \in SUBSET Fetches PROVE IsFiniteSet(T) /\ Cardinality(T) \in Nat
<1>1. IsFiniteSet(Fetches)
    BY TokensAssumption, FS_Interval DEF Fetches
<1>. QED BY <1>1, FS_Subset, FS_CardinalityType

\* One goroutine more or less.
LEMMA OneMore ==
    ASSUME NEW T \in SUBSET Fetches, NEW i \in Fetches, i \notin T
    PROVE  Cardinality(T \cup {i}) = Cardinality(T) + 1
BY FetchesFinite, FS_AddElement

LEMMA OneLess ==
    ASSUME NEW T \in SUBSET Fetches, NEW i \in T
    PROVE  Cardinality(T \ {i}) = Cardinality(T) - 1
BY FetchesFinite, FS_RemoveElement

LEMMA InitRates == RatesIdle => RatesInv
<1>. SUFFICES ASSUME RatesIdle PROVE RatesInv
    OBVIOUS
<1>1. Holding = {} /\ Counted = {}
    BY DEF RatesIdle, Holding, Counted
<1>2. RatesTypeOK
    BY TokensAssumption, CapacityAssumption DEF RatesIdle, RatesTypeOK, FetchSteps
<1>. QED BY <1>1, <1>2, FS_EmptySet DEF RatesIdle, RatesInv, Fetches

\* The steps that leave places, counts and goroutines alone.
LEMMA LauncherKeeps ==
    ASSUME RatesInv, BeginPrefetch \/ AllLaunched \/ WaitEnds \/ UNCHANGED ratesVars
    PROVE  RatesInv'
<1>1. UNCHANGED <<launched, sem, fetch, stored, ok>>
    BY DEF BeginPrefetch, AllLaunched, WaitEnds, ratesVars
<1>2. Holding' = Holding /\ Counted' = Counted
    BY <1>1 DEF Holding, Counted
<1>3. RatesTypeOK'
    BY <1>1 DEF RatesInv, RatesTypeOK, BeginPrefetch, AllLaunched, WaitEnds, ratesVars
<1>. QED BY <1>1, <1>2, <1>3 DEF RatesInv, BeginPrefetch, AllLaunched, WaitEnds, ratesVars

LEMMA LaunchKeeps == ASSUME RatesInv, Launch PROVE RatesInv'
<1>. USE TokensAssumption, CapacityAssumption DEF RatesInv, RatesTypeOK, Launch, Fetches
<1>. DEFINE n == launched + 1
<1>1. n \in Fetches /\ fetch[n] = "none"
    OBVIOUS
<1>2. Holding' = Holding \cup {n} /\ n \notin Holding
    BY <1>1 DEF Holding
<1>3. Counted' = Counted
    BY <1>1 DEF Counted
<1>4. Cardinality(Holding') = Cardinality(Holding) + 1
    BY <1>1, <1>2, OneMore DEF Holding
<1>5. RatesTypeOK'
    BY <1>1 DEF FetchSteps
<1>. QED BY <1>1, <1>3, <1>4, <1>5

LEMMA EndKeeps == ASSUME RatesInv, EndPrefetch PROVE RatesInv'
<1>1. Holding = {} /\ Holding' = {} /\ Counted' = {}
    BY DEF RatesInv, RatesTypeOK, EndPrefetch, Holding, Counted
<1>2. sem' = 0 /\ RatesTypeOK'
    BY <1>1, FS_EmptySet, TokensAssumption
    DEF RatesInv, RatesTypeOK, EndPrefetch, FetchSteps
<1>. QED BY <1>1, <1>2, FS_EmptySet DEF RatesInv, EndPrefetch, Fetches

\* A goroutine's step moves it alone, and no goroutine out of the prefetch.
LEMMA FetchKeeps == ASSUME RatesInv, NEW i \in Fetches, FetchStep(i) PROVE RatesInv'
<1>. USE DEF FetchGoes
<1>0. /\ fetch \in [Fetches -> FetchSteps] /\ stored \subseteq Fetches
      /\ Holding \subseteq Fetches /\ Counted \subseteq Fetches
    BY DEF RatesInv, RatesTypeOK, Holding, Counted
<1>1. /\ launcher' = launcher /\ launched' = launched
      /\ \E step \in FetchSteps \ {"none"} : fetch' = [fetch EXCEPT ![i] = step]
      /\ fetch[i] \notin {"none", "done"}
    BY DEF FetchStep, RateArrives, RateFails, StoreRate, CountRate, Release, Leave, FetchSteps
<1>2. /\ fetch' \in [Fetches -> FetchSteps]
      /\ \A j \in Fetches : fetch'[j] # "none" <=> j <= launched'
      /\ launcher' \in {"wait", "returned"} => launched' = NTokens
      /\ launcher' = "idle" => launched' = 0
      /\ launcher' # "returned"
    BY <1>0, <1>1 DEF RatesInv
<1>. SUFFICES /\ sem' = Cardinality(Holding') /\ sem' \in 0..Capacity
              /\ ok' = Cardinality(Counted') /\ ok' \in Nat
              /\ stored' \subseteq Fetches
              /\ \A j \in Fetches : fetch'[j] \in {"none", "ask", "store"} => j \notin stored'
              /\ \A j \in Fetches : fetch'[j] = "count" => j \in stored'
    BY <1>1, <1>2 DEF RatesInv, RatesTypeOK
<1>3. CASE RateArrives(i) \/ RateFails(i)
    <2>1. Holding' = Holding /\ Counted' = Counted
        BY <1>0, <1>3 DEF RateArrives, RateFails, Holding, Counted
    <2>. QED BY <1>0, <1>3, <2>1 DEF RateArrives, RateFails, RatesInv, RatesTypeOK
<1>4. CASE StoreRate(i)
    <2>1. Holding' = Holding /\ Counted' = Counted
        BY <1>0, <1>4 DEF StoreRate, Holding, Counted, RatesInv
    <2>. QED BY <1>0, <1>4, <2>1 DEF StoreRate, RatesInv, RatesTypeOK
<1>5. CASE CountRate(i)
    <2>1. i \in stored
        BY <1>5 DEF CountRate, RatesInv
    <2>2. Holding' = Holding /\ Counted' = Counted \cup {i} /\ i \notin Counted
        BY <1>0, <1>5, <2>1 DEF CountRate, Holding, Counted
    <2>3. Cardinality(Counted') = Cardinality(Counted) + 1
        BY <1>0, <2>2, OneMore
    <2>. QED BY <1>0, <1>5, <2>2, <2>3 DEF CountRate, RatesInv, RatesTypeOK
<1>6. CASE Release(i)
    <2>1. Holding' = Holding \ {i} /\ i \in Holding /\ Counted' = Counted
        BY <1>0, <1>6 DEF Release, Holding, Counted
    <2>2. Cardinality(Holding') = Cardinality(Holding) - 1
        BY <1>0, <2>1, OneLess
    <2>3. sem - 1 \in 0..Capacity
        BY <1>6, CapacityAssumption DEF Release, RatesInv, RatesTypeOK
    <2>. QED BY <1>0, <1>6, <2>1, <2>2, <2>3 DEF Release, RatesInv, RatesTypeOK
<1>7. CASE Leave(i)
    <2>1. Holding' = Holding /\ Counted' = Counted
        BY <1>0, <1>7 DEF Leave, Holding, Counted
    <2>. QED BY <1>0, <1>7, <2>1 DEF Leave, RatesInv, RatesTypeOK
<1>. QED BY <1>3, <1>4, <1>5, <1>6, <1>7 DEF FetchStep

LEMMA RatesStep == RatesInv /\ [RatesNext]_ratesVars => RatesInv'
BY LauncherKeeps, LaunchKeeps, EndKeeps, FetchKeeps DEF RatesNext, PrefetchLoop

LEMMA JoinedInv == RatesInv => RatesJoined
<1>. SUFFICES ASSUME RatesInv PROVE RatesJoined
    OBVIOUS
<1>1. Cardinality(UnderWay) <= Capacity
    <2>1. UnderWay \in SUBSET Holding /\ Holding \in SUBSET Fetches
        BY DEF UnderWay, Holding
    <2>2. UnderWay \in SUBSET Fetches
        BY <2>1
    <2>3. /\ Cardinality(UnderWay) \in Nat /\ Cardinality(Holding) \in Nat
          /\ IsFiniteSet(Holding)
        BY <2>1, <2>2, FetchesFinite
    <2>4. Cardinality(UnderWay) <= Cardinality(Holding)
        BY <2>1, <2>3, FS_Subset
    <2>5. Cardinality(Holding) <= Capacity
        BY CapacityAssumption DEF RatesInv, RatesTypeOK
    <2>. QED BY <2>3, <2>4, <2>5, CapacityAssumption
<1>2. CASE launcher = "returned"
    <2>1. UnderWay = {} /\ Holding = {} /\ Counted = stored
        BY <1>2 DEF RatesInv, RatesTypeOK, UnderWay, Holding, Counted
    <2>. QED BY <1>1, <1>2, <2>1, FS_EmptySet DEF RatesInv, RatesJoined
<1>. QED BY <1>1, <1>2 DEF RatesJoined

\* PrefetchFeeRates keeps it in any composition with the other calls.
LEMMA RatesInvariant == Spec => []RatesInv
<1>1. Init => RatesInv
    BY InitRates DEF Init
<1>2. RatesInv /\ [Next]_callVars => RatesInv'
    BY RatesStep, StepOfEach
<1>. QED BY <1>1, <1>2, PTL DEF Spec

\* A prefetch over any number of tokens and places returns with no goroutine left
\* and every store counted, and never has more under way than places.
THEOREM PrefetchJoined == Spec => []RatesJoined
BY RatesInvariant, JoinedInv, PTL

-----------------------------------------------------------------------------
(* GetOrders and GetInventory *)

\* What is left when an element goes: those behind it move up.
LEMMA RemoveAtIs ==
    ASSUME NEW S, NEW s \in Seq(S), NEW i \in 1..Len(s)
    PROVE  /\ RemoveAt(s, i) \in Seq(S)
           /\ Len(RemoveAt(s, i)) = Len(s) - 1
           /\ \A j \in 1..(Len(s) - 1) : RemoveAt(s, i)[j] = IF j < i THEN s[j] ELSE s[j + 1]
<1>. DEFINE a == SubSeq(s, 1, i - 1)
            b == SubSeq(s, i + 1, Len(s))
<1>0. Len(s) \in Nat /\ \A j \in 1..Len(s) : s[j] \in S
    BY LenProperties, ElementOfSeq
<1>1. a \in Seq(S) /\ Len(a) = i - 1 /\ \A j \in 1..(i - 1) : a[j] = s[j]
    <2>1. \A j \in 1..(i - 1) : s[j] \in S
        BY <1>0
    <2>. QED BY <2>1, <1>0, SubSeqProperties
<1>2. b \in Seq(S) /\ Len(b) = Len(s) - i /\ \A j \in 1..(Len(s) - i) : b[j] = s[i + j]
    <2>1. \A j \in (i + 1)..Len(s) : s[j] \in S
        BY <1>0
    <2>. QED BY <2>1, <1>0, SubSeqProperties
<1>. HIDE DEF a, b
<1>3. /\ a \o b \in Seq(S)
      /\ Len(a \o b) = Len(a) + Len(b)
      /\ \A j \in 1..(Len(a) + Len(b)) :
            (a \o b)[j] = IF j <= Len(a) THEN a[j] ELSE b[j - Len(a)]
    BY <1>1, <1>2, ConcatProperties
<1>4. ASSUME NEW j \in 1..(Len(s) - 1)
      PROVE  (a \o b)[j] = IF j < i THEN s[j] ELSE s[j + 1]
    <2>1. CASE j < i
        BY <1>0, <1>1, <1>2, <1>3, <2>1
    <2>2. CASE j >= i
        <3>1. (a \o b)[j] = b[j - (i - 1)]
            BY <1>0, <1>1, <1>2, <1>3, <2>2
        <3>2. j - (i - 1) \in 1..(Len(s) - i) /\ i + (j - (i - 1)) = j + 1
            BY <1>0, <2>2
        <3>3. b[j - (i - 1)] = s[i + (j - (i - 1))]
            BY <1>2, <3>2
        <3>4. ~(j < i)
            BY <2>2
        <3>. QED BY <3>1, <3>2, <3>3, <3>4
    <2>3. j < i \/ j >= i
        BY <1>0
    <2>. QED BY <2>1, <2>2, <2>3
<1>5. Len(a \o b) = Len(s) - 1
    BY <1>0, <1>1, <1>2, <1>3
<1>6. RemoveAt(s, i) = a \o b
    BY DEF RemoveAt, a, b
<1>. QED BY <1>3, <1>4, <1>5, <1>6

\* And when an element comes: those behind it move down.
LEMMA InsertAtIs ==
    ASSUME NEW S, NEW s \in Seq(S), NEW i \in 1..(Len(s) + 1), NEW e \in S
    PROVE  /\ InsertAt(s, i, e) \in Seq(S)
           /\ Len(InsertAt(s, i, e)) = Len(s) + 1
           /\ \A j \in 1..(Len(s) + 1) :
                InsertAt(s, i, e)[j] = IF j < i THEN s[j] ELSE IF j = i THEN e ELSE s[j - 1]
<1>. DEFINE a == SubSeq(s, 1, i - 1)
            b == SubSeq(s, i, Len(s))
            c == <<e>>
            ac == a \o c
<1>0. Len(s) \in Nat /\ \A j \in 1..Len(s) : s[j] \in S
    BY LenProperties, ElementOfSeq
<1>1. a \in Seq(S) /\ Len(a) = i - 1 /\ \A j \in 1..(i - 1) : a[j] = s[j]
    <2>1. \A j \in 1..(i - 1) : s[j] \in S
        BY <1>0
    <2>. QED BY <2>1, <1>0, SubSeqProperties
<1>2. /\ b \in Seq(S) /\ Len(b) = Len(s) - i + 1
      /\ \A j \in 1..(Len(s) - i + 1) : b[j] = s[i + j - 1]
    <2>1. \A j \in i..Len(s) : s[j] \in S
        BY <1>0
    <2>. QED BY <2>1, <1>0, SubSeqProperties
<1>3. c \in Seq(S) /\ Len(c) = 1 /\ c[1] = e
    OBVIOUS
<1>. HIDE DEF a, b, c
<1>. HIDE DEF ac
<1>4. /\ ac \in Seq(S) /\ Len(ac) = i
      /\ \A j \in 1..i : ac[j] = IF j < i THEN s[j] ELSE e
    <2>1. /\ ac \in Seq(S) /\ Len(ac) = Len(a) + Len(c)
          /\ \A j \in 1..(Len(a) + Len(c)) :
                ac[j] = IF j <= Len(a) THEN a[j] ELSE c[j - Len(a)]
        BY <1>1, <1>3, ConcatProperties DEF ac
    <2>. QED BY <1>0, <1>1, <1>3, <2>1
<1>5. /\ ac \o b \in Seq(S)
      /\ Len(ac \o b) = Len(ac) + Len(b)
      /\ \A j \in 1..(Len(ac) + Len(b)) :
            (ac \o b)[j] = IF j <= Len(ac) THEN ac[j] ELSE b[j - Len(ac)]
    BY <1>2, <1>4, ConcatProperties
<1>6. ASSUME NEW j \in 1..(Len(s) + 1)
      PROVE  (ac \o b)[j] = IF j < i THEN s[j] ELSE IF j = i THEN e ELSE s[j - 1]
    <2>1. CASE j <= i
        <3>1. j \in 1..i /\ j \in 1..(Len(ac) + Len(b)) /\ j <= Len(ac)
            BY <1>0, <1>2, <1>4, <2>1
        <3>2. (ac \o b)[j] = ac[j]
            BY <1>5, <3>1
        <3>3. ac[j] = IF j < i THEN s[j] ELSE e
            BY <1>4, <3>1
        <3>4. ~(j < i) => j = i
            BY <2>1
        <3>. QED BY <3>2, <3>3, <3>4
    <2>2. CASE j > i
        <3>1. (ac \o b)[j] = b[j - i]
            BY <1>0, <1>2, <1>4, <1>5, <2>2
        <3>2. j - i \in 1..(Len(s) - i + 1) /\ i + (j - i) - 1 = j - 1
            BY <1>0, <2>2
        <3>3. b[j - i] = s[i + (j - i) - 1]
            BY <1>2, <3>2
        <3>4. ~(j < i) /\ j # i
            BY <2>2
        <3>. QED BY <3>1, <3>2, <3>3, <3>4
    <2>3. j <= i \/ j > i
        BY <1>0
    <2>. QED BY <2>1, <2>2, <2>3
<1>7. Len(ac \o b) = Len(s) + 1
    BY <1>0, <1>2, <1>4, <1>5
<1>8. InsertAt(s, i, e) = ac \o b
    BY DEF InsertAt, a, b, c, ac
<1>. QED BY <1>5, <1>6, <1>7, <1>8

\* Rows have numbers, so each set of them can be counted.
LEMMA RowsFinite ==
    ASSUME NEW n \in Nat, NEW T, T \subseteq 1..n
    PROVE  IsFiniteSet(T) /\ Cardinality(T) \in Nat
<1>1. IsFiniteSet(1..n)
    BY FS_Interval
<1>. QED BY <1>1, FS_Subset, FS_CardinalityType

\* A page of a list without repetitions is as long as the set of its rows.
LEMMA PageIs ==
    ASSUME NEW s \in Seq(Nat), NEW o \in Nat, NEW e \in Nat, e <= Len(s),
           \A i, j \in DOMAIN s : s[i] = s[j] => i = j
    PROVE  LET p == SubSeq(s, o + 1, e)
           IN  /\ p \in Seq(Nat)
               /\ Range(p) = {s[k] : k \in {j \in DOMAIN s : o < j /\ j <= e}}
               /\ IsFiniteSet(Range(p)) /\ Cardinality(Range(p)) = Len(p)
               /\ Len(p) = IF o + 1 <= e THEN e - o ELSE 0
<1>. DEFINE p == SubSeq(s, o + 1, e)
<1>0. Len(s) \in Nat /\ DOMAIN s = 1..Len(s) /\ \A j \in 1..Len(s) : s[j] \in Nat
    BY LenProperties, ElementOfSeq
<1>1. /\ p \in Seq(Nat)
      /\ Len(p) = IF o + 1 <= e THEN e - o ELSE 0
      /\ \A j \in 1..(e - o) : p[j] = s[o + j]
    <2>1. \A j \in (o + 1)..e : s[j] \in Nat
        BY <1>0
    <2>2. /\ p \in Seq(Nat)
          /\ Len(p) = IF o + 1 <= e THEN e - (o + 1) + 1 ELSE 0
          /\ \A j \in 1..(e - (o + 1) + 1) : p[j] = s[(o + 1) + j - 1]
        BY <2>1, SubSeqProperties
    <2>. HIDE DEF p
    <2>3. e - (o + 1) + 1 = e - o /\ \A j \in Nat : (o + 1) + j - 1 = o + j
        OBVIOUS
    <2>. QED BY <2>2, <2>3
<1>. HIDE DEF p
<1>2. Len(p) \in Nat /\ DOMAIN p = 1..Len(p)
    BY <1>1, LenProperties
<1>3. Range(p) = {s[k] : k \in {j \in DOMAIN s : o < j /\ j <= e}}
    <2>1. ASSUME NEW x \in Range(p) PROVE x \in {s[k] : k \in {j \in DOMAIN s : o < j /\ j <= e}}
        <3>1. PICK j \in 1..Len(p) : x = p[j]
            BY <1>2 DEF Range
        <3>2. o + j \in DOMAIN s /\ o < o + j /\ o + j <= e /\ x = s[o + j]
            BY <1>0, <1>1, <3>1
        <3>. QED BY <3>2
    <2>2. ASSUME NEW k \in DOMAIN s, o < k, k <= e PROVE s[k] \in Range(p)
        <3>1. k \in Nat /\ o + 1 <= e /\ k - o \in 1..(e - o) /\ o + (k - o) = k
            BY <1>0, <2>2
        <3>2. p[k - o] = s[o + (k - o)] /\ Len(p) = e - o
            BY <1>1, <3>1
        <3>. QED BY <1>2, <3>1, <3>2 DEF Range
    <2>. QED BY <2>1, <2>2
<1>4. p \in Surjection(1..Len(p), Range(p))
    BY <1>2, <1>1 DEF Surjection, Range
<1>5. p \in Injection(1..Len(p), Range(p))
    <2>1. ASSUME NEW i \in 1..Len(p), NEW j \in 1..Len(p), p[i] = p[j] PROVE i = j
        <3>1. /\ o + i \in DOMAIN s /\ o + j \in DOMAIN s
              /\ s[o + i] = p[i] /\ s[o + j] = p[j]
            BY <1>0, <1>1
        <3>2. o + i = o + j
            BY <2>1, <3>1
        <3>. QED BY <3>2
    <2>. QED BY <1>4, <2>1 DEF Surjection, Injection, IsInjective
<1>6. IsFiniteSet(1..Len(p)) /\ Cardinality(1..Len(p)) = Len(p)
    <2>0. 1 \in Int /\ Len(p) \in Int
        BY <1>2
    <2>1. /\ IsFiniteSet(1..Len(p))
          /\ Cardinality(1..Len(p)) = IF 1 > Len(p) THEN 0 ELSE Len(p) - 1 + 1
        BY <2>0, FS_Interval
    <2>. QED BY <1>2, <2>1
<1>7. IsFiniteSet(Range(p)) /\ Cardinality(Range(p)) = Len(p)
    BY <1>4, <1>5, <1>6, FS_Surjection
<1>. QED BY <1>1, <1>3, <1>7 DEF p

\* A page doubles the rows of it that were there already.
LEMMA PageDoubles ==
    ASSUME NEW a \in Seq(Nat), NEW p \in Seq(Nat), IsFiniteSet(Range(a)),
           IsFiniteSet(Range(p)), Cardinality(Range(p)) = Len(p)
    PROVE  /\ a \o p \in Seq(Nat)
           /\ Range(a \o p) = Range(a) \cup Range(p)
           /\ Len(a \o p) - Cardinality(Range(a \o p))
                = Len(a) - Cardinality(Range(a)) + Cardinality(Range(p) \cap Range(a))
<1>1. /\ a \o p \in Seq(Nat) /\ Len(a \o p) = Len(a) + Len(p)
      /\ Len(a) \in Nat /\ Len(p) \in Nat
    BY ConcatProperties, LenProperties
<1>2. Range(a \o p) = Range(p) \cup Range(a)
    BY RangeConcatenation
<1>3. Cardinality(Range(p) \cup Range(a))
        = Cardinality(Range(p)) + Cardinality(Range(a)) - Cardinality(Range(p) \cap Range(a))
    BY FS_Union
<1>4. IsFiniteSet(Range(p) \cap Range(a))
    BY FS_Intersection
<1>5. /\ Cardinality(Range(a)) \in Nat
      /\ Cardinality(Range(p) \cap Range(a)) \in Nat
    BY <1>4, FS_CardinalityType
<1>. QED BY <1>1, <1>2, <1>3, <1>5

\* What the pages so far have passed, and what is still ahead of them.
Passed == {rows[i] : i \in {j \in DOMAIN rows : j <= offset}}
Ahead == {rows[i] : i \in {j \in DOMAIN rows : j > offset}}

Ids == 1..(NRows + added)

PagesTyped ==
    /\ rows \in Seq(Nat) /\ all \in Seq(Nat)
    /\ offset \in Nat /\ removed \in Nat /\ added \in Nat
    /\ outcome \in {"none", "ok", "error"}
    /\ Range(rows) \subseteq Ids /\ Range(all) \subseteq Ids
    /\ steady \subseteq Range(rows)

RowsDistinct == \A i, j \in DOMAIN rows : rows[i] = rows[j] => i = j

\* Rows the pages have missed for good, and rows they will bring again.
Skipped == (steady \cap Passed) \ Range(all)
Again == Ahead \cap Range(all)
Doubled == Len(all) - Cardinality(Range(all))

PagesRunning ==
    outcome = "none" =>
        /\ Cardinality(Skipped) <= removed
        /\ Doubled + Cardinality(Again) <= added
        /\ removed + added = 0 => offset <= Len(rows) /\ all = SubSeq(rows, 1, offset)

Untouched ==
    query = "idle" =>
        /\ rows = [i \in 1..NRows |-> i] /\ all = <<>> /\ offset = 0 /\ outcome = "none"
        /\ steady = {} /\ removed = 0 /\ added = 0

PagesInv == PagesTyped /\ RowsDistinct /\ PagesRunning /\ RowsBounded /\ Untouched

\* The sets the invariant counts are finite.
LEMMA PagesFinite ==
    ASSUME PagesTyped, NEW T, T \subseteq Ids
    PROVE  IsFiniteSet(T) /\ Cardinality(T) \in Nat
<1>1. NRows + added \in Nat
    BY RowsAssumption DEF PagesTyped
<1>. QED BY <1>1, RowsFinite DEF Ids

\* A set within another has no more elements.
LEMMA SmallerCount ==
    ASSUME PagesTyped, NEW T, T \subseteq Ids, NEW U, U \subseteq T
    PROVE  Cardinality(U) <= Cardinality(T)
BY PagesFinite, FS_Subset

\* Before the first query nothing is missing and nothing doubled.
LEMMA InitPages == Unqueried => PagesInv
<1>. SUFFICES ASSUME Unqueried PROVE PagesInv
    OBVIOUS
<1>. USE DEF Unqueried
<1>1. NRows \in Nat
    BY RowsAssumption
<1>2. rows \in Seq(Nat) /\ DOMAIN rows = 1..NRows /\ Range(rows) = 1..NRows
    BY <1>1 DEF Range
<1>3. all \in Seq(Nat) /\ Len(all) = 0 /\ Range(all) = {}
    BY DEF Range
<1>4. PagesTyped
    BY <1>1, <1>2, <1>3 DEF PagesTyped, Ids
<1>5. RowsDistinct
    BY <1>2 DEF RowsDistinct
<1>6. Skipped = {} /\ Again = {} /\ Doubled = 0
    <2>1. Passed = {} /\ Again = {}
        BY <1>2, <1>3 DEF Passed, Again
    <2>2. Cardinality(Range(all)) = 0
        BY <1>3, FS_EmptySet
    <2>. QED BY <1>3, <2>1, <2>2 DEF Skipped, Doubled
<1>7. all = SubSeq(rows, 1, offset)
    BY <1>2, SubSeqEmpty
<1>8. PagesRunning
    <2>1. Len(rows) \in Nat
        BY <1>2, LenProperties
    <2>2. Cardinality(Skipped) = 0 /\ Cardinality(Again) = 0
        BY <1>6, FS_EmptySet
    <2>3. removed = 0 /\ added = 0 /\ offset <= Len(rows)
        <3>1. removed = 0 /\ added = 0 /\ offset = 0
            OBVIOUS
        <3>. HIDE DEF Unqueried
        <3>. QED BY <2>1, <3>1
    <2>. HIDE DEF Unqueried
    <2>. QED BY <1>6, <1>7, <2>2, <2>3 DEF PagesRunning
<1>. QED BY <1>4, <1>5, <1>8 DEF PagesInv, RowsBounded, Untouched

-----------------------------------------------------------------------------
(* The steps *)

\* A query begins with no row behind it.
LEMMA BeginQueryKeeps ==
    ASSUME PagesInv, NEW what \in {"inventory", "orders"}, BeginQuery(what)
    PROVE  PagesInv'
<1>. USE DEF BeginQuery, PagesInv
<1>1. PagesTyped' /\ RowsDistinct' /\ Untouched'
    BY DEF PagesTyped, RowsDistinct, Untouched, Ids
<1>2. all = <<>> /\ offset = 0 /\ outcome = "none" /\ removed = 0 /\ added = 0
    BY DEF Untouched
<1>3. Skipped' = {} /\ Again' = {}
    <2>1. Passed' = {}
        BY <1>1, <1>2, LenProperties DEF Passed, PagesTyped
    <2>2. Again' = {}
        BY <1>2 DEF Again, Range
    <2>. QED BY <2>1, <2>2 DEF Skipped
<1>4. Doubled' = Doubled /\ Cardinality(Again) \in Nat /\ Doubled \in Int
    <2>1. Again \subseteq Ids
        BY DEF Again, PagesTyped
    <2>2. Range(all) \subseteq Ids
        BY DEF PagesTyped
    <2>3. Len(all) \in Nat /\ Cardinality(Range(all)) \in Nat
        BY <2>2, PagesFinite, LenProperties DEF PagesTyped
    <2>. QED BY <2>1, <2>3, PagesFinite DEF Doubled
<1>5. Cardinality(Skipped') = 0 /\ Cardinality(Again') = 0
    BY <1>3, FS_EmptySet
<1>6. PagesRunning'
    BY <1>2, <1>4, <1>5 DEF PagesRunning
<1>. QED BY <1>1, <1>2, <1>6 DEF RowsBounded

\* The next query is against any list.
LEMMA EndQueryKeeps == ASSUME EndQuery PROVE PagesInv'
<1>1. Unqueried'
    BY DEF EndQuery, Unqueried
<1>2. Unqueried' => PagesInv'
    BY InitPages, PTL
<1>. QED BY <1>1, <1>2

\* A query that fails returns no rows.
LEMMA PageFailsKeeps == ASSUME PagesInv, PageFails PROVE PagesInv'
BY DEF PagesInv, PageFails, QueryEnds, PagesTyped, RowsDistinct, PagesRunning, RowsBounded,
    Untouched, Ids, Range

\* The end of a page.
LEMMA CutShort ==
    ASSUME NEW n \in Nat, NEW l \in Nat
    PROVE  LET e == IF n > l THEN l ELSE n
           IN  (n <= l => e = n) /\ (n >= l => e = l)
OBVIOUS

\* A page, or the rest of the list: what it brings again was ahead before, and what
\* it has not brought was missed before.
LEMMA PageKeeps ==
    ASSUME PagesInv, query # "idle", outcome = "none",
           NEW size \in Nat, all' = all \o Page(size),
           UNCHANGED <<rows, query, steady, removed, added>>,
           \/ outcome' = "none" /\ offset' = offset + size /\ offset + size <= Len(rows)
           \/ outcome' = "ok" /\ offset' = offset /\ offset + size >= Len(rows)
    PROVE  PagesInv'
<1>. USE DEF PagesInv
<1>. DEFINE e == IF offset + size > Len(rows) THEN Len(rows) ELSE offset + size
            p == SubSeq(rows, offset + 1, e)
            met == Range(p) \cap Range(all)
<1>0. /\ Len(rows) \in Nat /\ DOMAIN rows = 1..Len(rows) /\ offset \in Nat /\ e \in Nat
      /\ e <= Len(rows) /\ rows \in Seq(Nat) /\ all \in Seq(Nat)
    BY LenProperties DEF PagesTyped
<1>1. all' = all \o p
    BY DEF Page
<1>x. /\ offset + size <= Len(rows) => e = offset + size
      /\ offset + size >= Len(rows) => e = Len(rows)
    <2>1. offset + size \in Nat
        BY <1>0
    <2>. QED BY <1>0, <2>1, CutShort
<1>. HIDE DEF e
<1>2. /\ p \in Seq(Nat)
      /\ Range(p) = {rows[k] : k \in {j \in DOMAIN rows : offset < j /\ j <= e}}
      /\ IsFiniteSet(Range(p)) /\ Cardinality(Range(p)) = Len(p)
    <2>1. \A i, j \in DOMAIN rows : rows[i] = rows[j] => i = j
        BY DEF RowsDistinct
    <2>2. rows \in Seq(Nat) /\ offset \in Nat /\ e \in Nat /\ e <= Len(rows)
        BY <1>0
    <2>. QED BY <2>1, <2>2, PageIs
<1>3. Range(p) \subseteq Range(rows) /\ Range(p) \subseteq Ids /\ Range(all) \subseteq Ids
    <2>1. \A k \in DOMAIN rows : rows[k] \in Range(rows)
        BY DEF Range
    <2>2. Range(p) \subseteq Range(rows)
        BY <1>2, <2>1
    <2>. QED BY <2>2 DEF PagesTyped
<1>. HIDE DEF p
<1>4. Range(all') = Range(all) \cup Range(p) /\ Doubled' = Doubled + Cardinality(met)
      /\ all' \in Seq(Nat)
    <2>1. IsFiniteSet(Range(all))
        BY <1>3, PagesFinite
    <2>. QED BY <1>0, <1>1, <1>2, <2>1, PageDoubles DEF Doubled
<1>5. PagesTyped' /\ RowsDistinct' /\ Untouched'
    <2>1. offset' \in Nat /\ outcome' \in {"none", "ok", "error"} /\ Range(all') \subseteq Ids
        BY <1>0, <1>3, <1>4
    <2>2. PagesTyped'
        BY <1>4, <2>1 DEF PagesTyped, Ids
    <2>. QED BY <2>2 DEF RowsDistinct, Untouched
<1>6. /\ Cardinality(Skipped) <= removed /\ Doubled + Cardinality(Again) <= added
      /\ removed + added = 0 => offset <= Len(rows) /\ all = SubSeq(rows, 1, offset)
    BY DEF PagesRunning
<1>7. /\ Again \subseteq Ids /\ met \subseteq Ids /\ Skipped \subseteq Ids
      /\ removed \in Nat /\ added \in Nat /\ Doubled \in Int
      /\ Cardinality(Again) \in Nat /\ Cardinality(met) \in Nat /\ Cardinality(Skipped) \in Nat
    <2>1. Again \subseteq Ids /\ met \subseteq Ids /\ Skipped \subseteq Ids
        BY <1>3 DEF Again, Skipped, PagesTyped
    <2>2. Cardinality(Range(all)) \in Nat
        BY <1>3, PagesFinite
    <2>. QED BY <1>0, <2>1, <2>2, PagesFinite, LenProperties DEF Doubled, PagesTyped
<1>8. \A x \in Range(rows) : \E k \in DOMAIN rows : x = rows[k]
    BY DEF Range
<1>9. CASE outcome' = "none" /\ offset' = offset + size /\ offset + size <= Len(rows)
    <2>0. e = offset + size
        BY <1>x, <1>9
    <2>1. Skipped' \subseteq Skipped
        <3>1. Passed' \subseteq Passed \cup Range(p)
            BY <1>0, <1>2, <1>9, <2>0 DEF Passed
        <3>. QED BY <1>4, <3>1 DEF Skipped
    <2>2. Again = Again' \cup met /\ Again' \cap met = {}
        <3>1. Ahead = Ahead' \cup Range(p)
            BY <1>0, <1>2, <1>9, <2>0 DEF Ahead
        <3>2. Ahead' \cap Range(p) = {}
            BY <1>0, <1>2, <1>9, <2>0 DEF Ahead, RowsDistinct
        <3>. QED BY <1>4, <3>1, <3>2 DEF Again
    <2>3. Cardinality(Again) = Cardinality(Again') + Cardinality(met)
        <3>1. Again' \subseteq Ids
            BY <1>7, <2>2
        <3>2. /\ IsFiniteSet(Again') /\ IsFiniteSet(met) /\ Cardinality(Again') \in Nat
            BY <1>7, <3>1, PagesFinite
        <3>3. Cardinality(Again' \cup met)
                = Cardinality(Again') + Cardinality(met) - Cardinality(Again' \cap met)
            BY <3>2, FS_Union
        <3>4. Cardinality(Again' \cap met) = 0
            BY <2>2, FS_EmptySet
        <3>. QED BY <1>7, <2>2, <3>2, <3>3, <3>4
    <2>4. Cardinality(Skipped') <= Cardinality(Skipped) /\ Cardinality(Skipped') \in Nat
        <3>1. Skipped' \subseteq Ids
            BY <1>7, <2>1
        <3>. QED BY <1>7, <2>1, <3>1, PagesFinite, SmallerCount
    <2>5. ASSUME removed + added = 0 PROVE all' = SubSeq(rows, 1, offset')
        <3>1. SubSeq(rows, 1, offset) \o SubSeq(rows, offset + 1, e) = SubSeq(rows, 1, e)
            <4>1. /\ 1 \in 1..(Len(rows) + 1)
                  /\ offset \in (1 - 1)..Len(rows) /\ e \in offset..Len(rows)
                BY <1>0, <1>6, <2>0, <2>5
            <4>. QED BY <1>0, <4>1, ConcatAdjacentSubSeq
        <3>. QED BY <1>1, <1>6, <1>9, <2>0, <2>5, <3>1 DEF p
    <2>6. Cardinality(Again') \in Nat
        BY <1>7, <2>2, PagesFinite
    <2>. HIDE DEF met
    <2>7. PagesRunning'
        <3>1. Cardinality(Skipped') <= removed
            BY <1>6, <1>7, <2>4
        <3>2. Doubled' + Cardinality(Again') <= added
            BY <1>4, <1>6, <1>7, <2>3, <2>6
        <3>. QED BY <1>9, <2>5, <3>1, <3>2 DEF PagesRunning
    <2>. QED BY <1>5, <1>9, <2>7 DEF RowsBounded
<1>10. CASE outcome' = "ok" /\ offset' = offset /\ offset + size >= Len(rows)
    <2>0. e = Len(rows)
        BY <1>x, <1>10
    <2>1. (steady \ Range(all')) \subseteq Skipped
        <3>0. ASSUME NEW k \in DOMAIN rows PROVE rows[k] \in Passed \cup Range(p)
            <4>1. k <= offset \/ (offset < k /\ k <= e)
                BY <1>0, <2>0
            <4>. QED BY <1>2, <4>1 DEF Passed
        <3>1. steady \subseteq Passed \cup Range(p)
            BY <1>8, <3>0 DEF PagesTyped
        <3>. QED BY <1>4, <3>1 DEF Skipped
    <2>2. Cardinality(steady \ Range(all')) <= removed
        <3>1. /\ Cardinality(steady \ Range(all')) <= Cardinality(Skipped)
              /\ Cardinality(steady \ Range(all')) \in Nat
            <4>1. (steady \ Range(all')) \subseteq Ids
                BY <1>7, <2>1
            <4>. QED BY <1>7, <2>1, <4>1, PagesFinite, SmallerCount
        <3>. QED BY <1>6, <1>7, <3>1
    <2>3. met \subseteq Again
        <3>1. Range(p) \subseteq Ahead
            BY <1>0, <1>2 DEF Ahead
        <3>. QED BY <3>1 DEF Again
    <2>4. Cardinality(met) <= Cardinality(Again)
        BY <1>7, <2>3, SmallerCount
    <2>5. ASSUME removed + added = 0 PROVE all' = rows
        <3>1. SubSeq(rows, 1, offset) \o SubSeq(rows, offset + 1, e) = SubSeq(rows, 1, e)
            <4>1. /\ 1 \in 1..(Len(rows) + 1)
                  /\ offset \in (1 - 1)..Len(rows) /\ e \in offset..Len(rows)
                BY <1>0, <1>6, <2>0, <2>5
            <4>. QED BY <1>0, <4>1, ConcatAdjacentSubSeq
        <3>2. SubSeq(rows, 1, e) = rows
            BY <1>0, <2>0, SubSeqFull
        <3>. QED BY <1>1, <1>6, <2>5, <3>1, <3>2 DEF p
    <2>. HIDE DEF met
    <2>6. Doubled' <= added
        BY <1>4, <1>6, <1>7, <2>4
    <2>7. RowsBounded'
        BY <2>2, <2>5, <2>6 DEF RowsBounded, Doubled
    <2>. QED BY <1>5, <1>10, <2>7 DEF PagesRunning
<1>. QED BY <1>9, <1>10

\* A row that goes takes at most one row past the pages unseen.
LEMMA RowGoesKeeps == ASSUME PagesInv, NEW i, RowGoes(i) PROVE PagesInv'
<1>. USE DEF PagesInv
<1>0. /\ Len(rows) \in Nat /\ DOMAIN rows = 1..Len(rows) /\ i \in 1..Len(rows)
      /\ rows \in Seq(Nat) /\ offset \in Nat /\ removed \in Nat /\ added \in Nat
      /\ \A j \in 1..Len(rows) : rows[j] \in Range(rows)
      /\ \A x \in Range(rows) : \E j \in 1..Len(rows) : x = rows[j]
    <2>1. rows \in Seq(Nat) /\ offset \in Nat /\ removed \in Nat /\ added \in Nat
        BY DEF PagesTyped
    <2>2. Len(rows) \in Nat /\ DOMAIN rows = 1..Len(rows)
        BY <2>1, LenProperties
    <2>. QED BY <2>1, <2>2 DEF RowGoes, Range
<1>1. /\ rows' \in Seq(Nat) /\ Len(rows') = Len(rows) - 1
      /\ \A j \in 1..(Len(rows) - 1) : rows'[j] = IF j < i THEN rows[j] ELSE rows[j + 1]
    <2>1. rows' = RemoveAt(rows, i)
        BY DEF RowGoes
    <2>. QED BY <1>0, <2>1, RemoveAtIs
<1>2. DOMAIN rows' = 1..(Len(rows) - 1)
    BY <1>1, LenProperties
<1>3. ASSUME NEW j \in DOMAIN rows'
      PROVE  \E k \in 1..Len(rows) :
                /\ k = (IF j < i THEN j ELSE j + 1) /\ rows'[j] = rows[k]
    <2>1. (IF j < i THEN j ELSE j + 1) \in 1..Len(rows)
        BY <1>0, <1>2
    <2>2. rows'[j] = rows[IF j < i THEN j ELSE j + 1]
        BY <1>1, <1>2
    <2>. QED BY <2>1, <2>2
<1>4. ASSUME NEW k \in 1..Len(rows), k # i
      PROVE  \E j \in DOMAIN rows' : rows'[j] = rows[k]
    <2>1. CASE k < i
        <3>1. k \in DOMAIN rows'
            BY <1>0, <1>2, <2>1
        <3>. QED BY <1>1, <1>2, <2>1, <3>1
    <2>2. CASE k > i
        <3>1. k - 1 \in DOMAIN rows' /\ ~(k - 1 < i) /\ (k - 1) + 1 = k
            BY <1>0, <1>2, <2>2
        <3>. QED BY <1>1, <1>2, <3>1
    <2>. QED BY <1>0, <1>4, <2>1, <2>2
<1>5. UNCHANGED <<query, offset, all, outcome, added>> /\ query # "idle"
      /\ removed' = removed + 1 /\ steady' = steady \ {rows[i]}
    BY DEF RowGoes
<1>6. Range(rows') \subseteq Range(rows) /\ steady' \subseteq Range(rows')
    <2>1. Range(rows') \subseteq Range(rows)
        <3>1. ASSUME NEW j \in DOMAIN rows' PROVE rows'[j] \in Range(rows)
            BY <1>0, <1>3
        <3>. QED BY <3>1 DEF Range
    <2>2. ASSUME NEW x \in steady' PROVE x \in Range(rows')
        <3>1. x \in Range(rows) /\ x # rows[i]
            BY <1>5 DEF PagesTyped
        <3>2. PICK k \in 1..Len(rows) : x = rows[k]
            BY <1>0, <3>1
        <3>3. PICK j \in DOMAIN rows' : rows'[j] = rows[k]
            BY <1>4, <3>1, <3>2
        <3>. QED BY <3>2, <3>3 DEF Range
    <2>. QED BY <2>1, <2>2
<1>7. PagesTyped'
    <2>1. removed' \in Nat /\ Ids' = Ids /\ Range(rows') \subseteq Ids
        BY <1>0, <1>5, <1>6 DEF PagesTyped, Ids
    <2>. QED BY <1>1, <1>5, <1>6, <2>1 DEF PagesTyped
<1>8. RowsDistinct'
    <2>1. ASSUME NEW j \in DOMAIN rows', NEW k \in DOMAIN rows', rows'[j] = rows'[k]
          PROVE  j = k
        <3>1. PICK m \in 1..Len(rows) : m = (IF j < i THEN j ELSE j + 1) /\ rows'[j] = rows[m]
            BY <1>3
        <3>2. PICK n \in 1..Len(rows) : n = (IF k < i THEN k ELSE k + 1) /\ rows'[k] = rows[n]
            BY <1>3
        <3>3. m = n
            BY <1>0, <2>1, <3>1, <3>2 DEF RowsDistinct
        <3>4. i \in Nat /\ j \in Nat /\ k \in Nat
            <4>1. j \in 1..(Len(rows) - 1) /\ k \in 1..(Len(rows) - 1)
                BY <1>2
            <4>2. Len(rows) \in Nat /\ i \in 1..Len(rows)
                BY <1>0
            <4>. QED BY <4>1, <4>2
        <3>5. (IF j < i THEN j ELSE j + 1) = (IF k < i THEN k ELSE k + 1)
            BY <3>1, <3>2, <3>3
        <3>. QED BY <3>4, <3>5
    <2>. QED BY <2>1 DEF RowsDistinct
<1>9. Untouched'
    BY <1>5 DEF Untouched
<1>10. /\ Again \subseteq Ids /\ Skipped \subseteq Ids /\ (steady \ Range(all)) \subseteq Ids
       /\ Doubled \in Int /\ Cardinality(Again) \in Nat /\ Cardinality(Skipped) \in Nat
       /\ IsFiniteSet(Skipped) /\ Cardinality(steady \ Range(all)) \in Nat
    <2>1. /\ Again \subseteq Ids /\ Skipped \subseteq Ids /\ Range(all) \subseteq Ids
          /\ (steady \ Range(all)) \subseteq Ids
        BY DEF Again, Skipped, PagesTyped
    <2>2. Cardinality(Range(all)) \in Nat /\ Len(all) \in Nat
        BY <2>1, PagesFinite, LenProperties DEF PagesTyped
    <2>. QED BY <2>1, <2>2, PagesFinite DEF Doubled
<1>11. Doubled' = Doubled /\ removed' + added' # 0
    BY <1>0, <1>5 DEF Doubled
<1>12. PagesRunning'
    <2>. SUFFICES ASSUME outcome = "none" PROVE PagesRunning'
        BY <1>5 DEF PagesRunning
    <2>1. Skipped' \subseteq Skipped \cup {rows[offset + 1]}
        <3>1. Passed' \subseteq Passed \cup {rows[offset + 1]}
            <4>1. ASSUME NEW j \in DOMAIN rows', j <= offset
                  PROVE  rows'[j] \in Passed \cup {rows[offset + 1]}
                <5>1. PICK k \in 1..Len(rows) :
                        k = (IF j < i THEN j ELSE j + 1) /\ rows'[j] = rows[k]
                    BY <1>3
                <5>2. k <= offset \/ k = offset + 1
                    BY <1>0, <1>2, <4>1, <5>1
                <5>. QED BY <1>0, <5>1, <5>2 DEF Passed
            <4>. QED BY <1>5, <4>1 DEF Passed
        <3>. QED BY <1>5, <3>1 DEF Skipped
    <2>2. Cardinality(Skipped') <= removed'
        <3>1. /\ IsFiniteSet(Skipped \cup {rows[offset + 1]})
              /\ Cardinality(Skipped \cup {rows[offset + 1]})
                    = IF rows[offset + 1] \in Skipped THEN Cardinality(Skipped)
                      ELSE Cardinality(Skipped) + 1
            BY <1>10, FS_AddElement
        <3>2. /\ IsFiniteSet(Skipped')
              /\ Cardinality(Skipped') <= Cardinality(Skipped \cup {rows[offset + 1]})
            BY <2>1, <3>1, FS_Subset
        <3>3. Cardinality(Skipped') \in Nat
            BY <3>2, FS_CardinalityType
        <3>4. Cardinality(Skipped) <= removed
            BY DEF PagesRunning
        <3>. QED BY <1>0, <1>5, <1>10, <3>1, <3>2, <3>3, <3>4
    <2>3. Again' \subseteq Again
        <3>1. ASSUME NEW j \in DOMAIN rows', j > offset PROVE rows'[j] \in Ahead
            <4>1. PICK k \in 1..Len(rows) :
                    k = (IF j < i THEN j ELSE j + 1) /\ rows'[j] = rows[k]
                BY <1>3
            <4>2. k > offset
                BY <1>0, <1>2, <3>1, <4>1
            <4>. QED BY <1>0, <4>1, <4>2 DEF Ahead
        <3>2. Ahead' \subseteq Ahead
            BY <1>5, <3>1 DEF Ahead
        <3>. QED BY <1>5, <3>2 DEF Again
    <2>4. Cardinality(Again') <= Cardinality(Again) /\ Cardinality(Again') \in Nat
        BY <1>10, <2>3, SmallerCount, PagesFinite
    <2>5. Doubled + Cardinality(Again) <= added
        BY DEF PagesRunning
    <2>6. Doubled' + Cardinality(Again') <= added'
        BY <1>0, <1>5, <1>10, <1>11, <2>4, <2>5
    <2>. QED BY <1>11, <2>2, <2>6 DEF PagesRunning
<1>13. RowsBounded'
    <2>. SUFFICES ASSUME outcome = "ok" PROVE RowsBounded'
        BY <1>5 DEF RowsBounded
    <2>1. (steady' \ Range(all)) \subseteq (steady \ Range(all))
        BY <1>5
    <2>2. /\ Cardinality(steady' \ Range(all)) <= Cardinality(steady \ Range(all))
          /\ Cardinality(steady' \ Range(all)) \in Nat
        <3>1. (steady' \ Range(all)) \subseteq Ids
            BY <1>10, <2>1
        <3>. QED BY <1>10, <2>1, <3>1, SmallerCount, PagesFinite
    <2>3. Cardinality(steady \ Range(all)) <= removed /\ Doubled <= added
        BY DEF RowsBounded, Doubled
    <2>4. Cardinality(steady' \ Range(all)) <= removed'
        BY <1>0, <1>5, <1>10, <2>2, <2>3
    <2>. QED BY <1>5, <1>11, <2>3, <2>4 DEF RowsBounded, Doubled
<1>. QED BY <1>7, <1>8, <1>9, <1>12, <1>13

\* A row that comes pushes at most one row of the pages so far ahead of them again.
LEMMA RowComesKeeps == ASSUME PagesInv, NEW i, RowComes(i) PROVE PagesInv'
<1>. USE DEF PagesInv
<1>. DEFINE new == NRows + added + 1
<1>0. /\ Len(rows) \in Nat /\ DOMAIN rows = 1..Len(rows) /\ i \in 1..(Len(rows) + 1)
      /\ rows \in Seq(Nat) /\ offset \in Nat /\ removed \in Nat /\ added \in Nat
      /\ \A j \in 1..Len(rows) : rows[j] \in Range(rows)
      /\ \A x \in Range(rows) : \E j \in 1..Len(rows) : x = rows[j]
    <2>1. rows \in Seq(Nat) /\ offset \in Nat /\ removed \in Nat /\ added \in Nat
        BY DEF PagesTyped
    <2>2. Len(rows) \in Nat /\ DOMAIN rows = 1..Len(rows)
        BY <2>1, LenProperties
    <2>. QED BY <2>1, <2>2 DEF RowComes, Range
<1>1. /\ UNCHANGED <<query, offset, all, outcome, steady, removed>> /\ query # "idle"
      /\ added' = added + 1 /\ rows' = InsertAt(rows, i, new)
    BY DEF RowComes
<1>2. new \in Nat /\ new \notin Ids /\ Ids' = Ids \cup {new}
    BY <1>0, <1>1, RowsAssumption DEF Ids
<1>. HIDE DEF new
<1>3. /\ rows' \in Seq(Nat) /\ Len(rows') = Len(rows) + 1
      /\ \A j \in 1..(Len(rows) + 1) :
            rows'[j] = IF j < i THEN rows[j] ELSE IF j = i THEN new ELSE rows[j - 1]
    <2>. DEFINE S == Nat
    <2>0. rows \in Seq(S) /\ i \in 1..(Len(rows) + 1) /\ new \in S
        BY <1>0, <1>2
    <2>. HIDE DEF S
    <2>1. /\ InsertAt(rows, i, new) \in Seq(S)
          /\ Len(InsertAt(rows, i, new)) = Len(rows) + 1
          /\ \A j \in 1..(Len(rows) + 1) :
                InsertAt(rows, i, new)[j]
                    = IF j < i THEN rows[j] ELSE IF j = i THEN new ELSE rows[j - 1]
        BY <2>0, InsertAtIs
    <2>. QED BY <1>1, <2>1 DEF S
<1>4. DOMAIN rows' = 1..(Len(rows) + 1)
    BY <1>3, LenProperties
<1>5. ASSUME NEW j \in DOMAIN rows'
      PROVE  \/ j = i /\ rows'[j] = new
             \/ j < i /\ j \in 1..Len(rows) /\ rows'[j] = rows[j]
             \/ j > i /\ j - 1 \in 1..Len(rows) /\ rows'[j] = rows[j - 1]
    <2>1. CASE j = i
        BY <1>0, <1>3, <1>4, <2>1
    <2>2. CASE j < i
        BY <1>0, <1>3, <1>4, <2>2
    <2>3. CASE j > i
        <3>1. ~(j < i) /\ j # i /\ j - 1 \in 1..Len(rows)
            BY <1>0, <1>4, <2>3
        <3>. QED BY <1>3, <1>4, <2>3, <3>1
    <2>. QED BY <1>0, <1>4, <2>1, <2>2, <2>3
<1>6. ASSUME NEW k \in 1..Len(rows) PROVE rows[k] \in Range(rows')
    <2>1. CASE k < i
        <3>1. k \in DOMAIN rows'
            BY <1>0, <1>4
        <3>2. rows'[k] = rows[k]
            BY <1>3, <1>4, <2>1, <3>1
        <3>. QED BY <3>1, <3>2 DEF Range
    <2>2. CASE k >= i
        <3>1. k + 1 \in DOMAIN rows' /\ ~(k + 1 < i) /\ k + 1 # i /\ (k + 1) - 1 = k
            BY <1>0, <1>4, <2>2
        <3>2. rows'[k + 1] = rows[k]
            BY <1>3, <1>4, <3>1
        <3>. QED BY <3>1, <3>2 DEF Range
    <2>. QED BY <1>0, <2>1, <2>2
<1>7. steady \subseteq Range(rows) /\ Range(rows) \subseteq Ids /\ Range(all) \subseteq Ids
    BY DEF PagesTyped
<1>8. PagesTyped'
    <2>1. Range(rows') \subseteq Ids'
        <3>1. ASSUME NEW j \in DOMAIN rows' PROVE rows'[j] \in Ids \cup {new}
            BY <1>0, <1>5, <1>7
        <3>. QED BY <1>2, <3>1 DEF Range
    <2>2. steady' \subseteq Range(rows')
        BY <1>0, <1>1, <1>6, <1>7
    <2>3. Range(all') \subseteq Ids' /\ added' \in Nat
        BY <1>0, <1>1, <1>2, <1>7
    <2>. QED BY <1>1, <1>3, <2>1, <2>2, <2>3 DEF PagesTyped
<1>9. RowsDistinct'
    <2>1. \A k \in 1..Len(rows) : rows[k] # new
        BY <1>0, <1>2, <1>7
    <2>2. \A m, n \in 1..Len(rows) : rows[m] = rows[n] => m = n
        BY <1>0 DEF RowsDistinct
    <2>3. ASSUME NEW j \in DOMAIN rows', NEW k \in DOMAIN rows', rows'[j] = rows'[k]
          PROVE  j = k
        <3>1. CASE j = i /\ rows'[j] = new
            BY <1>5, <2>1, <2>3, <3>1
        <3>2. CASE k = i /\ rows'[k] = new
            BY <1>5, <2>1, <2>3, <3>2
        <3>3. CASE j # i /\ k # i
            <4>1. PICK m \in 1..Len(rows) : m = (IF j < i THEN j ELSE j - 1) /\ rows'[j] = rows[m]
                BY <1>0, <1>4, <1>5, <3>3
            <4>2. PICK n \in 1..Len(rows) : n = (IF k < i THEN k ELSE k - 1) /\ rows'[k] = rows[n]
                BY <1>0, <1>4, <1>5, <3>3
            <4>3. m = n
                BY <2>2, <2>3, <4>1, <4>2
            <4>. QED BY <1>0, <1>4, <3>3, <4>1, <4>2, <4>3
        <3>4. /\ (j = i /\ rows'[j] = new) \/ j # i
              /\ (k = i /\ rows'[k] = new) \/ k # i
            BY <1>5
        <3>. QED BY <3>1, <3>2, <3>3, <3>4
    <2>. QED BY <2>3 DEF RowsDistinct
<1>10. Untouched'
    BY <1>1 DEF Untouched
<1>11. /\ Again \subseteq Ids /\ Skipped \subseteq Ids
       /\ Doubled \in Int /\ Cardinality(Again) \in Nat /\ IsFiniteSet(Again)
    <2>1. Again \subseteq Ids /\ Skipped \subseteq Ids
        BY <1>7 DEF Again, Skipped
    <2>2. Cardinality(Range(all)) \in Nat /\ Len(all) \in Nat
        BY <1>7, PagesFinite, LenProperties DEF PagesTyped
    <2>. QED BY <2>1, <2>2, PagesFinite DEF Doubled
<1>12. Doubled' = Doubled /\ removed' + added' # 0
    BY <1>0, <1>1 DEF Doubled
<1>13. PagesRunning'
    <2>. SUFFICES ASSUME outcome = "none" PROVE PagesRunning'
        BY <1>1 DEF PagesRunning
    <2>1. Skipped' \subseteq Skipped
        <3>1. Passed' \subseteq Passed \cup {new}
            <4>1. ASSUME NEW j \in DOMAIN rows', j <= offset PROVE rows'[j] \in Passed \cup {new}
                <5>1. CASE j < i /\ j \in 1..Len(rows) /\ rows'[j] = rows[j]
                    BY <1>0, <4>1, <5>1 DEF Passed
                <5>2. CASE j > i /\ j - 1 \in 1..Len(rows) /\ rows'[j] = rows[j - 1]
                    <6>1. j - 1 <= offset
                        BY <1>0, <1>4, <4>1
                    <6>. QED BY <1>0, <5>2, <6>1 DEF Passed
                <5>. QED BY <1>5, <5>1, <5>2
            <4>. QED BY <1>1, <4>1 DEF Passed
        <3>2. new \notin steady
            BY <1>2, <1>7
        <3>. QED BY <1>1, <3>1, <3>2 DEF Skipped
    <2>2. Cardinality(Skipped') <= removed'
        <3>1. Cardinality(Skipped') <= Cardinality(Skipped)
            BY <1>11, <2>1, SmallerCount
        <3>2. Cardinality(Skipped) <= removed
            BY DEF PagesRunning
        <3>3. Cardinality(Skipped) \in Nat /\ Cardinality(Skipped') \in Nat
            BY <1>11, <2>1, PagesFinite
        <3>. QED BY <1>0, <1>1, <3>1, <3>2, <3>3
    <2>3. Again' \subseteq Again \cup {rows[offset]}
        <3>1. Ahead' \subseteq Ahead \cup {rows[offset], new}
            <4>1. ASSUME NEW j \in DOMAIN rows', j > offset
                  PROVE  rows'[j] \in Ahead \cup {rows[offset], new}
                <5>1. CASE j < i /\ j \in 1..Len(rows) /\ rows'[j] = rows[j]
                    BY <1>0, <4>1, <5>1 DEF Ahead
                <5>2. CASE j > i /\ j - 1 \in 1..Len(rows) /\ rows'[j] = rows[j - 1]
                    <6>1. j - 1 > offset \/ j - 1 = offset
                        BY <1>0, <1>4, <4>1
                    <6>. QED BY <1>0, <5>2, <6>1 DEF Ahead
                <5>. QED BY <1>5, <5>1, <5>2
            <4>. QED BY <1>1, <4>1 DEF Ahead
        <3>2. new \notin Range(all)
            BY <1>2, <1>7
        <3>. QED BY <1>1, <3>1, <3>2 DEF Again
    <2>4. Cardinality(Again') <= Cardinality(Again) + 1 /\ Cardinality(Again') \in Nat
        <3>1. /\ IsFiniteSet(Again \cup {rows[offset]})
              /\ Cardinality(Again \cup {rows[offset]})
                    = IF rows[offset] \in Again THEN Cardinality(Again) ELSE Cardinality(Again) + 1
            BY <1>11, FS_AddElement
        <3>2. /\ IsFiniteSet(Again')
              /\ Cardinality(Again') <= Cardinality(Again \cup {rows[offset]})
            BY <2>3, <3>1, FS_Subset
        <3>3. Cardinality(Again') \in Nat
            BY <3>2, FS_CardinalityType
        <3>. QED BY <1>11, <3>1, <3>2, <3>3
    <2>5. Doubled + Cardinality(Again) <= added
        BY DEF PagesRunning
    <2>6. Doubled' + Cardinality(Again') <= added'
        BY <1>0, <1>1, <1>11, <1>12, <2>4, <2>5
    <2>. QED BY <1>12, <2>2, <2>6 DEF PagesRunning
<1>14. RowsBounded'
    <2>. SUFFICES ASSUME outcome = "ok" PROVE RowsBounded'
        BY <1>1 DEF RowsBounded
    <2>1. Cardinality(steady \ Range(all)) <= removed /\ Doubled <= added
        BY DEF RowsBounded, Doubled
    <2>2. Doubled' <= added'
        BY <1>0, <1>1, <1>11, <1>12, <2>1
    <2>. QED BY <1>1, <1>12, <2>1, <2>2 DEF RowsBounded, Doubled
<1>. QED BY <1>8, <1>9, <1>10, <1>13, <1>14

\* A page of the inventory is short exactly when the list has no more.
LEMMA ShortPage ==
    ASSUME PagesInv
    PROVE  Len(Page(pageSize)) < pageSize <=> offset + pageSize > Len(rows)
<1>0. /\ Len(rows) \in Nat /\ offset \in Nat /\ rows \in Seq(Nat) /\ pageSize \in Nat \ {0}
    BY PagesAssumption, LenProperties DEF PagesInv, PagesTyped
<1>1. CASE ~(offset + pageSize > Len(rows))
    <2>1. /\ offset + pageSize <= Len(rows) /\ offset + 1 <= offset + pageSize
          /\ offset + pageSize \in Nat
        BY <1>0, <1>1
    <2>2. Page(pageSize) = SubSeq(rows, offset + 1, offset + pageSize)
        BY <1>1 DEF Page
    <2>3. Len(SubSeq(rows, offset + 1, offset + pageSize)) = offset + pageSize - offset
        BY <1>0, <2>1, PageIs DEF PagesInv, RowsDistinct
    <2>. QED BY <1>0, <1>1, <2>2, <2>3
<1>2. CASE offset + pageSize > Len(rows)
    <2>1. Page(pageSize) = SubSeq(rows, offset + 1, Len(rows))
        BY <1>2 DEF Page
    <2>2. Len(SubSeq(rows, offset + 1, Len(rows)))
            = IF offset + 1 <= Len(rows) THEN Len(rows) - offset ELSE 0
        BY <1>0, PageIs DEF PagesInv, RowsDistinct
    <2>. QED BY <1>0, <1>2, <2>1, <2>2
<1>. QED BY <1>1, <1>2

\* Each loop takes a page in one of the two ways of PageKeeps.
LEMMA PagingKeeps == ASSUME PagesInv, Paging PROVE PagesInv'
<1>0. /\ Len(rows) \in Nat /\ offset \in Nat /\ rows \in Seq(Nat)
      /\ pageSize \in Nat \ {0} /\ ServerPage \in Nat \ {0}
    BY PagesAssumption, LenProperties DEF PagesInv, PagesTyped
<1>1. CASE InventoryPage
    <2>3. CASE Len(Page(pageSize)) < pageSize
        <3>1. offset + pageSize >= Len(rows)
            BY <1>0, <2>3, ShortPage
        <3>2. /\ query # "idle" /\ outcome = "none" /\ all' = all \o Page(pageSize)
              /\ UNCHANGED <<rows, query, steady, removed, added>>
              /\ outcome' = "ok" /\ offset' = offset
            BY <1>1, <2>3 DEF InventoryPage, Asking, QueryEnds
        <3>. QED BY <1>0, <3>1, <3>2, PageKeeps
    <2>4. CASE ~(Len(Page(pageSize)) < pageSize)
        <3>1. offset + pageSize <= Len(rows)
            BY <1>0, <2>4, ShortPage
        <3>2. /\ query # "idle" /\ outcome = "none" /\ all' = all \o Page(pageSize)
              /\ UNCHANGED <<rows, query, steady, removed, added>>
              /\ outcome' = "none" /\ offset' = offset + pageSize
            BY <1>1, <2>4 DEF InventoryPage, Asking
        <3>. QED BY <1>0, <3>1, <3>2, PageKeeps
    <2>. QED BY <2>3, <2>4
<1>2. CASE OrdersArray
    <2>1. /\ query # "idle" /\ outcome = "none" /\ all' = all \o Page(Len(rows))
          /\ UNCHANGED <<rows, query, steady, removed, added>>
          /\ outcome' = "ok" /\ offset' = offset
        BY <1>2 DEF OrdersArray, Asking, QueryEnds
    <2>2. offset + Len(rows) >= Len(rows)
        BY <1>0
    <2>. QED BY <1>0, <2>1, <2>2, PageKeeps
<1>3. CASE OrdersPage
    <2>1. /\ query # "idle" /\ outcome = "none" /\ all' = all \o Page(ServerPage)
          /\ UNCHANGED <<rows, query, steady, removed, added>>
        BY <1>3 DEF OrdersPage, Asking, QueryEnds
    <2>2. \/ outcome' = "none" /\ offset' = offset + ServerPage /\ offset + ServerPage <= Len(rows)
          \/ outcome' = "ok" /\ offset' = offset /\ offset + ServerPage >= Len(rows)
        <3>1. CASE offset + ServerPage >= Len(rows)
            BY <1>3, <3>1 DEF OrdersPage, Asking, QueryEnds
        <3>2. CASE ~(offset + ServerPage >= Len(rows))
            <4>1. offset + ServerPage <= Len(rows)
                BY <1>0, <3>2
            <4>. QED BY <1>3, <3>2, <4>1 DEF OrdersPage, Asking
        <3>. QED BY <3>1, <3>2
    <2>. QED BY <1>0, <2>1, <2>2, PageKeeps
<1>. QED BY <1>1, <1>2, <1>3, PageFailsKeeps DEF Paging

\* Every step of a query or of the service keeps the invariant.
LEMMA PagesStep == PagesInv /\ [PagesNext]_pageVars => PagesInv'
<1>1. ASSUME PagesInv, UNCHANGED pageVars PROVE PagesInv'
    BY <1>1 DEF pageVars, PagesInv, PagesTyped, RowsDistinct, PagesRunning, RowsBounded,
        Untouched, Skipped, Again, Doubled, Passed, Ahead, Ids, Range
<1>. QED BY <1>1, BeginQueryKeeps, RowGoesKeeps, RowComesKeeps, PagingKeeps, EndQueryKeeps
    DEF PagesNext

\* So the invariant holds of the composition: what RowsBounded says at the end of a
\* query, it says on the way.
LEMMA PagesInvariant == Spec => []PagesInv
<1>1. Init => PagesInv
    BY InitPages DEF Init
<1>2. PagesInv /\ [Next]_callVars => PagesInv'
    BY PagesStep, StepOfEach
<1>. QED BY <1>1, <1>2, PTL DEF Spec

\* However a list changes between its pages, whatever their size: no more rows that were
\* there all the time are missing than rows have gone, no more are doubled than rows
\* have come, and a list that does not change is fetched as it is.
THEOREM ListsBounded == Spec => []RowsBounded
<1>1. PagesInv => RowsBounded
    BY DEF PagesInv
<1>. QED BY <1>1, PagesInvariant, PTL

-----------------------------------------------------------------------------
(* Why the calls return *)

\* What is left of each call to do: steps of InitAuth, attempts and pauses of
\* httpGet, rows that the pages have not reached, steps of a prefetch and of its
\* goroutines.
AuthLeft ==
    CASE auth = "create" -> 4 [] auth = "created" -> 3 [] auth = "derive" -> 2
      [] auth = "derived" -> 1 [] OTHER -> 0

GammaLeft ==
    CASE gamma = "ask" -> 2 * (retryAttempts - Len(answers))
      [] gamma = "sleep" -> 2 * (retryAttempts - Len(answers)) + 1
      [] OTHER -> 0

QueryLeft ==
    IF outcome # "none" THEN 0
    ELSE IF offset < Len(rows) THEN Len(rows) - offset + 1 ELSE 1

StepsFrom ==
    [step \in FetchSteps |->
        CASE step = "none" -> 6 [] step = "ask" -> 5 [] step = "store" -> 4
          [] step = "count" -> 3 [] step = "release" -> 2 [] step = "leave" -> 1
          [] step = "done" -> 0]
Todo == {job \in Fetches \X (1..6) : job[2] <= StepsFrom[fetch[job[1]]]}
RatesLeft ==
    Cardinality(Todo) + (CASE launcher = "launch" -> 2 [] launcher = "wait" -> 1 [] OTHER -> 0)

\* A call that moves has less left to do than before, whatever it was answered.
AuthShrinks == [][auth # "idle" /\ auth' # auth => AuthLeft' < AuthLeft]_callVars
GammaShrinks ==
    [][gamma' # gamma /\ gamma \in {"ask", "sleep"} => GammaLeft' < GammaLeft]_callVars
QueryShrinks ==
    [][outcome = "none" /\ <<outcome, offset>>' # <<outcome, offset>>
        => QueryLeft' < QueryLeft]_callVars
RatesShrink ==
    [][<<launcher, fetch>>' # <<launcher, fetch>> /\ launcher \in {"launch", "wait"}
        => RatesLeft' < RatesLeft]_callVars

\* A prefetch that has not returned never waits for nobody: the launcher may go
\* on, or a goroutine that it waits for may, one with a place to give back too.
NeverStuck ==
    launcher \in {"launch", "wait"} =>
        \/ launcher = "launch" /\ (launched = NTokens \/ sem < Capacity)
        \/ launcher = "wait" /\ \A i \in Fetches : fetch[i] = "done"
        \/ \E i \in Fetches : /\ fetch[i] \notin {"none", "done"}
                              /\ fetch[i] = "release" => sem > 0

\* InitAuth: create, then derive, then back to its caller.
LEMMA AuthLess ==
    ASSUME [AuthNext]_authVars, auth # "idle", auth' # auth
    PROVE  AuthLeft' < AuthLeft
BY DEF AuthNext, authVars, BeginAuth, Authenticate, CreateArrives, DeriveArrives, Succeeds,
    CreateFails, DeriveFails, AuthReturns, OthersCreate, KeyDeleted, Makes, AuthLeft

\* httpGet: an attempt, a pause, three times at most.
LEMMA GammaLess ==
    ASSUME GammaInv, GammaInv', [GammaNext]_gammaVars, gamma \in {"ask", "sleep"}, gamma' # gamma
    PROVE  GammaLeft' < GammaLeft
<1>. USE DEF GammaInv, retryAttempts
<1>1. Len(answers) \in Nat /\ Len(answers') \in Nat
    BY LenProperties
<1>2. CASE gamma = "ask"
    <2>1. PICK answer \in Answers :
            answers' = Append(answers, answer) /\ gamma' \in {"sleep", "returned"}
        BY <1>2 DEF GammaNext, gammaVars, BeginFetch, Fetch, EndFetch, Sleep, Attempt, Refused,
            Fetched, FetchReturns, Answers, Transient
    <2>2. Len(answers') = Len(answers) + 1 /\ Len(answers) < 3
        BY <1>2, <2>1
    <2>. QED BY <1>1, <1>2, <2>1, <2>2 DEF GammaLeft
<1>3. CASE gamma = "sleep"
    <2>1. gamma' = "ask" /\ answers' = answers
        BY <1>3 DEF GammaNext, gammaVars, BeginFetch, Fetch, EndFetch, Sleep, Attempt, Refused,
            Fetched
    <2>. QED BY <1>1, <1>3, <2>1 DEF GammaLeft
<1>. QED BY <1>2, <1>3

\* GetOrders and GetInventory: a page that is not the last one is not empty.
LEMMA QueryLess ==
    ASSUME PagesInv, [PagesNext]_pageVars, outcome = "none",
           <<outcome, offset>>' # <<outcome, offset>>
    PROVE  QueryLeft' < QueryLeft
<1>0. /\ Len(rows) \in Nat /\ offset \in Nat /\ rows \in Seq(Nat)
      /\ pageSize \in Nat \ {0} /\ ServerPage \in Nat \ {0}
    BY PagesAssumption, LenProperties DEF PagesInv, PagesTyped
<1>1. CASE outcome' # "none"
    BY <1>0, <1>1 DEF QueryLeft
<1>2. CASE outcome' = "none"
    <2>1. PICK size \in Nat \ {0} :
            offset' = offset + size /\ offset + size <= Len(rows) /\ rows' = rows
        <3>1. CASE InventoryPage
            <4>1. offset + pageSize <= Len(rows)
                <5>1. ~(Len(Page(pageSize)) < pageSize)
                    BY <1>2, <3>1 DEF InventoryPage, QueryEnds
                <5>. QED BY <1>0, <5>1, ShortPage
            <4>2. offset' = offset + pageSize /\ rows' = rows
                BY <1>2, <3>1 DEF InventoryPage, QueryEnds
            <4>. QED BY <1>0, <4>1, <4>2
        <3>2. CASE OrdersPage
            <4>1. ~(offset + ServerPage >= Len(rows))
                BY <1>2, <3>2 DEF OrdersPage, QueryEnds
            <4>2. offset' = offset + ServerPage /\ rows' = rows
                BY <1>2, <3>2, <4>1 DEF OrdersPage
            <4>. QED BY <1>0, <4>1, <4>2
        <3>. QED BY <1>2, <3>1, <3>2
            DEF PagesNext, pageVars, BeginQuery, RowGoes, RowComes, Paging, OrdersArray,
                PageFails, EndQuery, QueryEnds
    <2>. QED BY <1>0, <1>2, <2>1 DEF QueryLeft
<1>. QED BY <1>1, <1>2

\* A step of the prefetch does the jobs it does, and brings no new ones.
LEMMA RatesLess ==
    ASSUME RatesInv, RatesInv', [RatesNext]_ratesVars, launcher \in {"launch", "wait"},
           <<launcher, fetch>>' # <<launcher, fetch>>
    PROVE  RatesLeft' < RatesLeft
<1>0. fetch \in [Fetches -> FetchSteps] /\ fetch' \in [Fetches -> FetchSteps]
    BY DEF RatesInv, RatesTypeOK
<1>1. IsFiniteSet(Todo) /\ Cardinality(Todo) \in Nat
    <2>1. IsFiniteSet(Fetches) /\ IsFiniteSet(1..6)
        <3>1. IsFiniteSet(1..NTokens)
            BY TokensAssumption, FS_Interval
        <3>2. IsFiniteSet(1..6)
            <4>1. 1 \in Int /\ 6 \in Int
                OBVIOUS
            <4>. QED BY <4>1, FS_Interval
        <3>. QED BY <3>1, <3>2 DEF Fetches
    <2>2. IsFiniteSet(Fetches \X (1..6))
        BY <2>1, FS_Product
    <2>3. Todo \in SUBSET (Fetches \X (1..6))
        BY DEF Todo
    <2>. QED BY <2>2, <2>3, FS_Subset, FS_CardinalityType
<1>2. CASE AllLaunched \/ WaitEnds
    <2>1. /\ Todo' = Todo
          /\ \/ launcher = "launch" /\ launcher' = "wait"
             \/ launcher = "wait" /\ launcher' = "returned"
        BY <1>2 DEF AllLaunched, WaitEnds, Todo
    <2>. QED BY <1>1, <2>1 DEF RatesLeft
<1>3. ASSUME NEW i \in Fetches, NEW step \in FetchSteps, fetch' = [fetch EXCEPT ![i] = step],
             StepsFrom[step] < StepsFrom[fetch[i]], launcher' = launcher
      PROVE  RatesLeft' < RatesLeft
    <2>0. \A s \in FetchSteps : StepsFrom[s] \in 0..6
        BY DEF StepsFrom, FetchSteps
    <2>1. Todo' \in SUBSET Todo
        <3>1. ASSUME NEW job \in Fetches \X (1..6), job[2] <= StepsFrom[fetch'[job[1]]]
              PROVE  job[2] <= StepsFrom[fetch[job[1]]]
            BY <1>0, <1>3, <2>0, <3>1
        <3>. QED BY <3>1 DEF Todo
    <2>2. Todo' # Todo
        <3>. DEFINE job == <<i, StepsFrom[fetch[i]]>>
        <3>1. StepsFrom[fetch[i]] \in 1..6 /\ fetch'[i] = step
            BY <1>0, <1>3, <2>0
        <3>2. job \in Todo
            BY <3>1 DEF Todo
        <3>3. job \notin Todo'
            BY <1>3, <2>0, <3>1 DEF Todo
        <3>. QED BY <3>2, <3>3
    <2>3. /\ IsFiniteSet(Todo') /\ Cardinality(Todo') <= Cardinality(Todo)
          /\ Cardinality(Todo') # Cardinality(Todo)
        BY <1>1, <2>1, <2>2, FS_Subset
    <2>4. Cardinality(Todo') \in Nat
        BY <2>3, FS_CardinalityType
    <2>. QED BY <1>1, <1>3, <2>3, <2>4 DEF RatesLeft
<1>4. CASE Launch
    <2>. DEFINE i == launched + 1
    <2>1. i \in Fetches /\ fetch[i] = "none" /\ "ask" \in FetchSteps
        BY <1>4, TokensAssumption DEF Launch, RatesInv, RatesTypeOK, Fetches, FetchSteps
    <2>2. StepsFrom["ask"] < StepsFrom["none"]
        BY DEF StepsFrom, FetchSteps
    <2>3. fetch' = [fetch EXCEPT ![i] = "ask"] /\ launcher' = launcher
        BY <1>4 DEF Launch
    <2>. QED BY <1>3, <2>1, <2>2, <2>3
<1>5. ASSUME NEW i \in Fetches, FetchStep(i) PROVE RatesLeft' < RatesLeft
    <2>1. PICK step \in FetchSteps : /\ fetch' = [fetch EXCEPT ![i] = step]
                                     /\ StepsFrom[step] < StepsFrom[fetch[i]]
        BY <1>5 DEF FetchStep, FetchGoes, RateArrives, RateFails, StoreRate, CountRate, Release,
            Leave, StepsFrom, FetchSteps
    <2>2. launcher' = launcher
        BY <1>5 DEF FetchStep, RateArrives, RateFails, StoreRate, CountRate, Release, Leave
    <2>. QED BY <1>3, <2>1, <2>2
<1>. QED BY <1>2, <1>4, <1>5
    DEF RatesNext, ratesVars, PrefetchLoop, BeginPrefetch, EndPrefetch

\* A full channel has holders, and a holder can give its place back.
LEMMA NeverStuckInv == RatesInv => NeverStuck
<1>. SUFFICES ASSUME RatesInv, launcher \in {"launch", "wait"} PROVE NeverStuck
    BY DEF NeverStuck
<1>1. \A i \in Fetches : fetch[i] = "release" => sem > 0
    <2>. SUFFICES ASSUME NEW i \in Fetches, fetch[i] = "release" PROVE sem > 0
        OBVIOUS
    <2>1. Holding \in SUBSET Fetches /\ Holding # {}
        BY DEF Holding
    <2>2. IsFiniteSet(Holding) /\ Cardinality(Holding) \in Nat
        BY <2>1, FetchesFinite
    <2>3. Cardinality(Holding) # 0
        BY <2>1, <2>2, FS_EmptySet
    <2>. QED BY <2>2, <2>3 DEF RatesInv
<1>2. CASE launcher = "launch" /\ launched # NTokens /\ ~(sem < Capacity)
    <2>1. Holding # {}
        BY <1>2, FS_EmptySet, CapacityAssumption DEF RatesInv, RatesTypeOK
    <2>2. PICK i \in Fetches : fetch[i] \in {"ask", "store", "count", "release"}
        BY <2>1 DEF Holding
    <2>. QED BY <1>1, <2>2 DEF NeverStuck
<1>3. CASE launcher = "wait" /\ ~(\A i \in Fetches : fetch[i] = "done")
    <2>1. PICK i \in Fetches : fetch[i] # "done"
        BY <1>3
    <2>2. fetch[i] # "none"
        BY <1>3 DEF RatesInv, Fetches
    <2>. QED BY <1>1, <2>1, <2>2 DEF NeverStuck
<1>. QED BY <1>2, <1>3 DEF NeverStuck

\* Whatever the services answer, every step of a call brings its end nearer.
THEOREM CallsShrink == Spec => AuthShrinks /\ GammaShrinks /\ QueryShrinks /\ RatesShrink
<1>1. [Next]_callVars => [auth # "idle" /\ auth' # auth => AuthLeft' < AuthLeft]_callVars
    BY StepOfEach, AuthLess
<1>2. GammaInv /\ GammaInv' /\ [Next]_callVars =>
        [gamma' # gamma /\ gamma \in {"ask", "sleep"} => GammaLeft' < GammaLeft]_callVars
    BY StepOfEach, GammaLess
<1>3. PagesInv /\ [Next]_callVars =>
        [outcome = "none" /\ <<outcome, offset>>' # <<outcome, offset>>
            => QueryLeft' < QueryLeft]_callVars
    BY StepOfEach, QueryLess
<1>4. RatesInv /\ RatesInv' /\ [Next]_callVars =>
        [<<launcher, fetch>>' # <<launcher, fetch>> /\ launcher \in {"launch", "wait"}
            => RatesLeft' < RatesLeft]_callVars
    BY StepOfEach, RatesLess
<1>. QED BY <1>1, <1>2, <1>3, <1>4, GammaInvariant, PagesInvariant, RatesInvariant, PTL
        DEF Spec, AuthShrinks, GammaShrinks, QueryShrinks, RatesShrink

\* The semaphore of a prefetch never has everybody wait, whatever its capacity.
THEOREM PrefetchNeverStuck == Spec => []NeverStuck
BY RatesInvariant, NeverStuckInv, PTL
=============================================================================
