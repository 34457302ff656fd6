----------------------------- MODULE MCMarketWS -----------------------------
\* Three configured tokens in two batches, and one the program adds later.
EXTENDS MarketWS, TLC

MCTokenIDs == <<"t1", "t2", "t3">>

MCOneToken == <<"t1">>
MCAppTokens == {{"t1"}}
AnyName == Permutations(Conns) \cup Permutations(Apps)
=============================================================================
