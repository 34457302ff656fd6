---------------------------- MODULE MCClientCalls ----------------------------
\* Three tokens over two slots; five rows over pages of two.
EXTENDS ClientCalls
=============================================================================
