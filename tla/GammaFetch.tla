----------------------------- MODULE GammaFetch -----------------------------
(***************************************************************************)
(* httpGet of polymarket/scanner.go and its callers FetchEventsBySlug,     *)
(* FetchMarket and FetchMarketTokensContext.  Cancelling the context makes *)
(* a request fail, as an unreachable service does; the pause between two   *)
(* attempts takes no notice of it.                                         *)
(***************************************************************************)
EXTENDS Naturals, Sequences

retryAttempts == 3

\* A transport or read error, a status from 500 on, another one but 200, or 200.
Transient == {"unreachable", "unavailable"}
Answers == Transient \cup {"refused", "ok"}

Fetchers == {"events", "market", "tokens"}

\* What a body of status 200 decodes to: an array, an object with a slug or
\* without, a market with fewer than two tokens, or nothing of the kind.
Bodies == {"array", "object", "blank", "fewTokens", "garbage"}

VARIABLES
    gamma,          \* where httpGet is
    fetcher,        \* its caller
    answers,        \* the answers so far
    slept,          \* seconds
    got             \* what the caller returned

gammaVars == <<gamma, fetcher, answers, slept, got>>

GammaIdle ==
    /\ gamma = "idle"
    /\ fetcher = "none"
    /\ answers = <<>>
    /\ slept = 0
    /\ got = "none"

BeginFetch(who) ==
    /\ gamma = "idle"
    /\ gamma' = "ask"
    /\ fetcher' = who
    /\ UNCHANGED <<answers, slept, got>>

FetchReturns(result) ==
    /\ gamma' = "returned"
    /\ got' = result

\* Mutant: an answer of 4xx is tried again.
RetriesAnything(answer) ==
    /\ gamma = "ask"
    /\ answer # "ok"
    /\ answers' = Append(answers, answer)
    /\ IF Len(answers) + 1 < retryAttempts
         THEN gamma' = "sleep" /\ UNCHANGED got
         ELSE FetchReturns("exhausted")
    /\ UNCHANGED <<fetcher, slept>>

Attempt(answer) ==
    /\ gamma = "ask"
    /\ answer \in Transient
    /\ answers' = Append(answers, answer)
    /\ IF Len(answers) + 1 < retryAttempts
         THEN gamma' = "sleep" /\ UNCHANGED got
         ELSE FetchReturns("exhausted")
    /\ UNCHANGED <<fetcher, slept>>

\* backoff: twice as long after the second attempt.
Sleep ==
    /\ gamma = "sleep"
    /\ gamma' = "ask"
    /\ slept' = slept + 2 ^ Len(answers)
    /\ UNCHANGED <<fetcher, answers, got>>

Refused ==
    /\ gamma = "ask"
    /\ answers' = Append(answers, "refused")
    /\ FetchReturns("refused")
    /\ UNCHANGED <<fetcher, slept>>

\* An event without a slug is no event and no error.
Decoded(body) ==
    CASE fetcher = "events" ->
            IF body \in {"array", "object"} THEN "value" ELSE IF body = "blank" THEN "empty" ELSE "malformed"
      [] fetcher = "market" -> IF body \in {"array", "garbage"} THEN "malformed" ELSE "value"
      [] fetcher = "tokens" -> IF body = "object" THEN "value" ELSE "malformed"

Fetched(body) ==
    /\ gamma = "ask"
    /\ answers' = Append(answers, "ok")
    /\ FetchReturns(Decoded(body))
    /\ UNCHANGED <<fetcher, slept>>

EndFetch ==
    /\ gamma = "returned"
    /\ gamma' = "idle"
    /\ fetcher' = "none"
    /\ answers' = <<>>
    /\ slept' = 0
    /\ got' = "none"

Fetch ==
    \/ \E answer \in Answers : Attempt(answer)
    \/ Sleep \/ Refused
    \/ \E body \in Bodies : Fetched(body)

GammaNext == (\E who \in Fetchers : BeginFetch(who)) \/ Fetch \/ EndFetch

-----------------------------------------------------------------------------
(* Properties *)

\* The last answer decides, and is the only one that may: "exhausted" is said of
\* three transient failures and of nothing else, with six seconds of pauses.
LastAnswerDecides ==
    gamma = "returned" =>
        LET last == Len(answers) IN
        /\ \A i \in 1..(last - 1) : answers[i] \in Transient
        /\ got = "exhausted" <=> answers[last] \in Transient
        /\ got = "exhausted" => last = retryAttempts /\ slept = 6
        /\ got = "refused" <=> answers[last] = "refused"
=============================================================================
