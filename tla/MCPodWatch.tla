----------------------------- MODULE MCPodWatch -----------------------------
EXTENDS PodWatch
=============================================================================
