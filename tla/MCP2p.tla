--------------------------------- MODULE MCP2p ---------------------------------
EXTENDS P2p
Fits == {1}
================================================================================
