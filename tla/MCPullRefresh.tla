--------------------------- MODULE MCPullRefresh ----------------------------
EXTENDS PullRefresh
=============================================================================
