\* Two writers and two awaiters of one id against the owner, the two threads of
\* the session and the callback; the messages fit the buffer.
SPECIFICATION Spec
CONSTANTS
  Writer = {w1, w2}
  Close = Close
  Awaiter = {a1, a2}
  Want <- SameId
  Incoming <- Rivals
  MaxBuffer = 2
INVARIANTS TypeOK NoUseAfterFree TxFifo FlushedBeforeFree MessagesAccounted LostToRival
PROPERTY CallsReturn
