--------------------------- MODULE MCReconnection ---------------------------
\* Two sockets, so that a superseded one can outlive its successor's start;
\* a unit of time is five seconds for the transport's deadlines, and a token
\* takes two of them.
EXTENDS Reconnection

=============================================================================
