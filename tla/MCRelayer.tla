----------------------------- MODULE MCRelayer -----------------------------
\* Gas is counted in thousands, calldata in kilobytes.  With the outer limit of
\* 10M the third estimate is the first one too large beside the small calldata;
\* the large calldata leaves no gas for any call.
EXTENDS Relayer

MCEstimates == {8334, 8335}
MCPayloads == {[zero |-> 1, other |-> 1], [zero |-> 0, other |-> 620]}
=============================================================================
