------------------------- MODULE MCWebsocketSession -------------------------
EXTENDS WebsocketSession

\* Two awaiters of one id, of which the server sends one message.
SameId == [a \in Awaiter |-> "x"]
Rivals == <<[id |-> "x", len |-> 2], [id |-> "y", len |-> 1]>>
=============================================================================
