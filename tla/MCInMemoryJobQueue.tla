------------------------- MODULE MCInMemoryJobQueue -------------------------
EXTENDS InMemoryJobQueue, TLC
=============================================================================
