-------------------------- MODULE MCTickSizeCache --------------------------
\* Three entries, one token twice: a full and a partial batch.  The other
\* goroutine asks for the token that is there twice.
EXTENDS TickSizeCache

MCTokenIDs == <<"t1", "t1", "t2">>
=============================================================================
