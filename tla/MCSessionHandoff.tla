-------------------------- MODULE MCSessionHandoff --------------------------
EXTENDS SessionHandoff

Good == [local |-> TRUE, fresh |-> TRUE, valid |-> TRUE, payload |-> 0]

\* Requests that pass every gate, that one gate refuses, and whose result is cut
\* off.
Requests == {Good, [Good EXCEPT !.local = FALSE], [Good EXCEPT !.fresh = FALSE],
             [Good EXCEPT !.valid = FALSE], [Good EXCEPT !.payload = 1]}

\* Two of the eight logs.
TwoLogs == <<"session.manifest", "session.events.lls">>
=============================================================================
