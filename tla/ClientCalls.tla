----------------------------- MODULE ClientCalls -----------------------------
(***************************************************************************)
(* A goroutine that uses one clob.Client and the Gamma functions: it makes *)
(* one call at a time, in any order, and none that signs its requests      *)
(* before InitAuth has succeeded (L2Headers has no credentials to use).    *)
(***************************************************************************)
EXTENDS InitAuth, FeePrefetch, AccountQueries, GammaFetch

callVars == <<authVars, ratesVars, pageVars, gammaVars>>

Init == Unauthenticated /\ RatesIdle /\ Unqueried /\ GammaIdle

Resting == auth = "idle" /\ launcher = "idle" /\ query = "idle" /\ gamma = "idle"

Begin ==
    /\ Resting
    /\ \/ BeginAuth /\ UNCHANGED <<ratesVars, pageVars, gammaVars>>
       \/ creds # NoCreds /\ BeginPrefetch /\ UNCHANGED <<authVars, pageVars, gammaVars>>
       \/ /\ \/ creds # NoCreds /\ BeginQuery("orders")
             \/ BeginQuery("inventory")
          /\ UNCHANGED <<authVars, ratesVars, gammaVars>>
       \/ /\ \E who \in Fetchers : BeginFetch(who)
          /\ UNCHANGED <<authVars, ratesVars, pageVars>>

AuthGoes == Authenticate /\ UNCHANGED <<ratesVars, pageVars, gammaVars>>

LoopGoes == PrefetchLoop /\ UNCHANGED <<authVars, pageVars, gammaVars>>

WorkerGoes(i) == FetchStep(i) /\ UNCHANGED <<authVars, pageVars, gammaVars>>

QueryGoes == Paging /\ UNCHANGED <<authVars, ratesVars, gammaVars>>

GammaGoes == Fetch /\ UNCHANGED <<authVars, ratesVars, pageVars>>

End ==
    \/ EndPrefetch /\ UNCHANGED <<authVars, pageVars, gammaVars>>
    \/ EndQuery /\ UNCHANGED <<authVars, ratesVars, gammaVars>>
    \/ EndFetch /\ UNCHANGED <<authVars, ratesVars, pageVars>>

Outside ==
    \/ (OthersCreate \/ KeyDeleted) /\ UNCHANGED <<ratesVars, pageVars, gammaVars>>
    \/ /\ \E i \in 1..(NRows + MaxAdded) : RowGoes(i) \/ RowComes(i)
       /\ UNCHANGED <<authVars, ratesVars, gammaVars>>

Next ==
    \/ Begin \/ AuthGoes \/ LoopGoes \/ QueryGoes \/ GammaGoes \/ End \/ Outside
    \/ \E i \in Fetches : WorkerGoes(i)

Spec == Init /\ [][Next]_callVars

\* Every request ends, by its answer or by the timeout of its client (10 to 30
\* seconds), every sleep ends, and the scheduler runs every goroutine.  The
\* exchange answers a page with a cursor that is further on.
Fairness ==
    /\ WF_callVars(AuthGoes)
    /\ WF_callVars(LoopGoes)
    /\ WF_callVars(QueryGoes)
    /\ WF_callVars(GammaGoes)
    /\ \A i \in Fetches : WF_callVars(WorkerGoes(i))

FairSpec == Spec /\ Fairness

\* Whatever the services answer, every call returns: it retries a bounded number
\* of times, pages no further than its list, and no failed fetch keeps a place
\* that a later one waits for.
CallsReturn ==
    /\ auth # "idle" ~> auth = "idle"
    /\ launcher # "idle" ~> launcher \in {"returned", "idle"}
    /\ query # "idle" ~> outcome # "none" \/ query = "idle"
    /\ gamma # "idle" ~> gamma \in {"returned", "idle"}
=============================================================================
