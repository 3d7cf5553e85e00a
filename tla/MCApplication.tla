----------------------------- MODULE MCApplication -----------------------------
EXTENDS Application
\* A single TUN interface (VNIC) and two UDP ports (sockets).
OneConn == {0}
TwoConns == {0, 1}
================================================================================
