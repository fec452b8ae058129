-------------------------- MODULE MCInboundDialog --------------------------
EXTENDS ShareLinks
===========================================================================
