--------------------------- MODULE MCInboundsPage ---------------------------
\* Edits of a panel small enough for the list to be broadcast.
EXTENDS InboundsPage
===========================================================================
