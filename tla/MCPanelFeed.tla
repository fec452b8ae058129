---------------------------- MODULE MCPanelFeed ----------------------------
\* The overview page over two connections, with the smallest queues.
EXTENDS PanelFeed
===========================================================================
