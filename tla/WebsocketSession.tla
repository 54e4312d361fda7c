-------------------------- MODULE WebsocketSession --------------------------
(***************************************************************************)
(* One session of WebsocketAPI (curl_websocket_api.cpp): the thread that   *)
(* owns the session (ws_init, then ws_finalize by the user or at exit),    *)
(* the TX thread (flush_messages_loop), the RX thread (curl_loop and the   *)
(* callback libcurl makes in it), and user threads that write frames and   *)
(* await responses.                                                        *)
(*                                                                         *)
(* A step is one critical section of the session mutex, or one call of     *)
(* libcurl, which the code makes outside of it.  Every wait on the trigger *)
(* is bounded by WS_MAX_WAIT, so it ends with its predicate true or, with  *)
(* the predicate false, at the timeout; notifications only shorten it.     *)
(***************************************************************************)
EXTENDS Naturals, Sequences

CONSTANTS Writer,     \* threads that write; each writes the frame named after it
          Close,      \* the close frame of ws_finalize
          Awaiter,    \* threads that await a response
          Want,       \* Want[a]: the frame id that a awaits
          Incoming,   \* messages of the server: <<[id, len], ...>>, len in chunks
          MaxBuffer   \* kWsMaxRxBufferBytes, in chunks

Message == 1 .. Len(Incoming)

ASSUME SessionAssumption ==
    /\ Close \notin Writer
    /\ MaxBuffer \in Nat
    /\ Len(Incoming) \in Nat
    /\ \A m \in Message : Incoming[m].len \in Nat \ {0}

VARIABLES owner,      \* where the owner of the session stands
          opened,     \* ws_init has returned the session id
          tx,         \* where the TX thread stands
          rx,         \* where the RX thread stands
          running,    \* still_running
          handshake,  \* handshake_ready
          shutdown,   \* shutdown_requested
          freed,      \* the curl handles were cleaned up
          removed,    \* the session is gone from the maps
          txq,        \* the TX deque
          accepted,   \* history: frames pushed to the TX deque
          taken,      \* history: frames given to curl_ws_send
          wr,         \* wr[w]: where writer w stands
          conn,       \* the connection, as libcurl sees it
          arrived,    \* messages libcurl has handed to the callback whole
          part,       \* chunks of the next one that it has handed over
          buffer,     \* the RX buffer, a sequence of chunks
          rxq,        \* the RX deque, a sequence of messages
          aw,         \* aw[a]: where awaiter a stands
          got         \* got[a]: the message returned to a, or 0

ownerVars == <<owner, opened, freed, removed>>
flagVars == <<running, handshake, shutdown>>
txVars == <<tx, txq, accepted, taken>>
rxVars == <<rx, conn, arrived, part, buffer, rxq>>
userVars == <<wr, aw, got>>
vars == <<ownerVars, flagVars, txVars, rxVars, userVars>>

OwnerPc == {"new", "add", "handshake", "init_failed", "established", "finalize",
            "flush", "loop", "join_tx", "join_rx", "free", "remove", "gone", "threw"}
TxPc == {"none", "wait", "send", "done"}
RxPc == {"none", "top", "perform", "publish", "wait", "info", "end", "done"}
Frame == Writer \cup {Close}

\* The chunks of message m.
Chunks(m) == [k \in 1 .. Incoming[m].len |-> <<m, k>>]

\* The state is well formed; threads exist from the step that starts them, and
\* the session leaves the maps only after its handles were cleaned up.
TypeOK ==
    /\ owner \in OwnerPc /\ tx \in TxPc /\ rx \in RxPc
    /\ running \in {0, 1}
    /\ {opened, handshake, shutdown, freed, removed} \subseteq BOOLEAN
    /\ txq \in Seq(Frame) /\ accepted \in Seq(Frame) /\ taken \in Seq(Frame)
    /\ wr \in [Writer -> {"idle", "entered", "accepted", "rejected", "threw"}]
    /\ conn \in {"connecting", "open", "closed", "refused"}
    /\ arrived \in 0 .. Len(Incoming)
    /\ IF arrived = Len(Incoming) THEN part = 0
       ELSE part \in 0 .. Incoming[arrived + 1].len - 1
    /\ rxq \in Seq(Message)
    /\ aw \in [Awaiter -> {"idle", "waiting", "found", "returned", "timeout",
                           "lost", "threw"}]
    /\ got \in [Awaiter -> {0} \cup Message]
    /\ tx = "none" <=> owner \in {"new", "threw"}
    /\ removed => freed

Init ==
    /\ owner = "new" /\ opened = FALSE /\ freed = FALSE /\ removed = FALSE
    /\ running = 1 /\ handshake = FALSE /\ shutdown = FALSE
    /\ tx = "none" /\ txq = <<>> /\ accepted = <<>> /\ taken = <<>>
    /\ rx = "none" /\ conn = "connecting"
    /\ arrived = 0 /\ part = 0 /\ buffer = <<>> /\ rxq = <<>>
    /\ wr = [w \in Writer |-> "idle"]
    /\ aw = [a \in Awaiter |-> "idle"]
    /\ got = [a \in Awaiter |-> 0]

-----------------------------------------------------------------------------
(* The owner: ws_init.                                                     *)

Owner(from, to) == owner = from /\ owner' = to

\* A step of the owner that changes nothing but where it stands.
OwnerGoes(from, to) ==
    /\ Owner(from, to)
    /\ UNCHANGED <<opened, freed, removed, flagVars, txVars, rxVars, userVars>>

\* initialize_curl_ws_session: the maps are filled and the TX thread starts.
Initialize ==
    /\ Owner("new", "add")
    /\ tx' = "wait"
    /\ UNCHANGED <<opened, freed, removed, flagVars, txq, accepted, taken, rxVars,
                   userVars>>

\* libcurl has no handle for the session: log_fatal throws.
InitializeFails == OwnerGoes("new", "threw")

\* curl_multi_add_handle succeeds and the RX thread starts.
AddHandle ==
    /\ Owner("add", "handshake")
    /\ rx' = "top"
    /\ UNCHANGED <<opened, freed, removed, flagVars, txVars, conn, arrived, part,
                   buffer, rxq, userVars>>

\* It fails: the TX thread is told to stop; there is no RX thread to join.
AddHandleFails ==
    /\ Owner("add", "join_tx")
    /\ shutdown' = TRUE
    /\ running' = 0
    /\ UNCHANGED <<opened, freed, removed, handshake, txVars, rxVars, userVars>>

\* The wait for the handshake ends with the flag set, and ws_init returns the
\* session id,
HandshakeReady ==
    /\ Owner("handshake", "established")
    /\ handshake
    /\ opened' = TRUE
    /\ UNCHANGED <<freed, removed, flagVars, txVars, rxVars, userVars>>

\* or with the flag not set: the loop has stopped, or WS_MAX_WAIT is over.
HandshakeFails == ~ handshake /\ OwnerGoes("handshake", "init_failed")

\* ws_init blocks writes, which also skips the close frame, and finalizes.
InitGivesUp ==
    /\ Owner("init_failed", "finalize")
    /\ shutdown' = TRUE
    /\ UNCHANGED <<opened, freed, removed, running, handshake, txVars, rxVars, userVars>>

-----------------------------------------------------------------------------
(* The owner: ws_finalize.                                                 *)

\* The user, or finit at the exit of the process, finalizes the session.
CallFinalize == OwnerGoes("established", "finalize")

\* One critical section queues the close frame and blocks further writes.
RequestShutdown ==
    /\ Owner("finalize", "flush")
    /\ shutdown' = TRUE
    /\ IF shutdown THEN UNCHANGED <<txq, accepted>>
       ELSE /\ txq' = Append(txq, Close)
            /\ accepted' = Append(accepted, Close)
    /\ UNCHANGED <<opened, freed, removed, running, handshake, tx, taken, rxVars, userVars>>

\* ws_wait_to_flush and ws_wait_loop_to_finish: the predicate holds or
\* WS_MAX_WAIT is over, and the owner goes on in either case.
FlushWaited == OwnerGoes("flush", "loop")

LoopWaited_NoJoin == OwnerGoes("loop", "free")   \* mutant: the threads are not joined
LoopWaited == OwnerGoes("loop", "join_tx")

JoinTx == tx = "done" /\ OwnerGoes("join_tx", "join_rx")
JoinRx == rx \in {"none", "done"} /\ OwnerGoes("join_rx", "free")

CleanupHandles ==
    /\ Owner("free", "remove")
    /\ freed' = TRUE
    /\ UNCHANGED <<opened, removed, flagVars, txVars, rxVars, userVars>>

\* Mutant: the session leaves the maps before the handles are cleaned up.
RemoveSession_Early ==
    /\ Owner("free", "gone")
    /\ removed' = TRUE
    /\ UNCHANGED <<opened, freed, flagVars, txVars, rxVars, userVars>>

RemoveSession ==
    /\ Owner("remove", "gone")
    /\ removed' = TRUE
    /\ UNCHANGED <<opened, freed, flagVars, txVars, rxVars, userVars>>

OwnerStep ==
    \/ Initialize \/ InitializeFails \/ AddHandle \/ AddHandleFails
    \/ HandshakeReady \/ HandshakeFails \/ InitGivesUp
    \/ RequestShutdown \/ FlushWaited \/ LoopWaited
    \/ JoinTx \/ JoinRx \/ CleanupHandles \/ RemoveSession

-----------------------------------------------------------------------------
(* The TX thread: flush_messages_loop.                                     *)

TxStops ==
    /\ tx = "wait" /\ shutdown /\ txq = <<>>
    /\ tx' = "done"
    /\ UNCHANGED <<ownerVars, flagVars, txq, accepted, taken, rxVars, userVars>>

\* Mutant: the thread takes the newest frame.
TxTakes_Newest ==
    /\ tx = "wait" /\ txq # <<>>
    /\ txq' = SubSeq(txq, 1, Len(txq) - 1)
    /\ taken' = Append(taken, txq[Len(txq)])
    /\ tx' = "send"
    /\ UNCHANGED <<ownerVars, flagVars, accepted, rxVars, userVars>>

TxTakes ==
    /\ tx = "wait" /\ txq # <<>>
    /\ txq' = Tail(txq)
    /\ taken' = Append(taken, Head(txq))
    /\ tx' = "send"
    /\ UNCHANGED <<ownerVars, flagVars, accepted, rxVars, userVars>>

\* send_ws_frame, outside the mutex; its result is only logged.
TxSends ==
    /\ tx = "send"
    /\ tx' = "wait"
    /\ UNCHANGED <<ownerVars, flagVars, txq, accepted, taken, rxVars, userVars>>

TxStep == TxStops \/ TxTakes \/ TxSends

-----------------------------------------------------------------------------
(* The RX thread: curl_loop and websocket_RX_callback.                     *)

\* The loop tests shutdown_requested at its head, after curl_multi_perform and
\* after curl_multi_wait.
Continue_Always(l) == rx' = l       \* mutant: it does not
Continue(l) == rx' = IF shutdown THEN "end" ELSE l

rxRest == <<conn, arrived, part, buffer, rxq>>

RxHead ==
    /\ rx = "top"
    /\ Continue("perform")
    /\ UNCHANGED <<ownerVars, flagVars, txVars, rxRest, userVars>>

\* In curl_multi_perform: the server accepts the upgrade, the connection fails
\* before that, or it is closed after that.
Connection ==
    /\ rx = "perform"
    /\ \/ conn = "connecting" /\ conn' \in {"open", "refused"}
       \/ conn = "open" /\ conn' = "closed"
    /\ UNCHANGED <<ownerVars, flagVars, txVars, rx, arrived, part, buffer, rxq,
                   userVars>>

\* json_fast_validity_check: the buffer is one whole message.
IsMessage(b) == \E m \in Message : b = Chunks(m)

\* The chunk libcurl hands over next is the one at <<arrived + 1, part + 1>>.
Advance ==
    /\ arrived < Len(Incoming)
    /\ IF part + 1 = Incoming[arrived + 1].len
       THEN arrived' = arrived + 1 /\ part' = 0
       ELSE arrived' = arrived /\ part' = part + 1

\* The buffer with that chunk, cleared when it is over the cap.
Filled ==
    LET appended == Append(buffer, <<arrived + 1, part + 1>>)
    IN IF Len(appended) > MaxBuffer THEN <<>> ELSE appended

\* Mutant: the deque keeps the newest message only.
RxCallback_Newest ==
    /\ rx = "perform" /\ conn = "open"
    /\ Advance
    /\ IF IsMessage(Filled) THEN buffer' = <<>> /\ rxq' = <<Filled[1][1]>>
                            ELSE buffer' = Filled /\ rxq' = rxq
    /\ UNCHANGED <<ownerVars, flagVars, txVars, rx, conn, userVars>>

\* websocket_RX_callback: a chunk is appended; a buffer over the cap is
\* cleared; a buffer that is a message goes to the RX deque and is cleared.
RxCallback ==
    /\ rx = "perform" /\ conn = "open"
    /\ Advance
    /\ IF IsMessage(Filled) THEN buffer' = <<>> /\ rxq' = Append(rxq, Filled[1][1])
                            ELSE buffer' = Filled /\ rxq' = rxq
    /\ UNCHANGED <<ownerVars, flagVars, txVars, rx, conn, userVars>>

\* curl_multi_perform returns and the number of running transfers is published;
\* an error ends the loop.
RxPublishes ==
    /\ rx = "perform"
    /\ running' = IF conn \in {"closed", "refused"} THEN 0 ELSE 1
    /\ rx' \in {"publish", "end"}
    /\ UNCHANGED <<ownerVars, handshake, shutdown, txVars, rxRest, userVars>>

RxPerformed ==
    /\ rx = "publish"
    /\ Continue("wait")
    /\ UNCHANGED <<ownerVars, flagVars, txVars, rxRest, userVars>>

\* curl_multi_wait returns within a second; an error ends the loop.
RxWaited ==
    /\ rx = "wait"
    /\ Continue("info") \/ rx' = "end"
    /\ UNCHANGED <<ownerVars, flagVars, txVars, rxRest, userVars>>

\* The response code is 101 from the moment the server accepted the upgrade.
\* The loop ends when no transfer runs.
RxReadsInfo ==
    /\ rx = "info"
    /\ handshake' = (handshake \/ conn \in {"open", "closed"})
    /\ rx' = IF running = 0 THEN "end" ELSE "top"
    /\ UNCHANGED <<ownerVars, running, shutdown, txVars, rxRest, userVars>>

RxEnds ==
    /\ rx = "end"
    /\ running' = 0
    /\ rx' = "done"
    /\ UNCHANGED <<ownerVars, handshake, shutdown, txVars, rxRest, userVars>>

\* The steps the RX thread takes of itself, and those of the server in them.
RxStep == RxHead \/ RxPublishes \/ RxPerformed \/ RxWaited \/ RxReadsInfo \/ RxEnds
NetworkStep == Connection \/ RxCallback

-----------------------------------------------------------------------------
(* User threads: ws_write_* and ws_await_and_retrieve_server_response.     *)

\* The getters of a ws_write_* find the session, or throw once it is removed.
WriteEnters(w) ==
    /\ opened
    /\ wr[w] = "idle"
    /\ wr' = [wr EXCEPT ![w] = IF removed THEN "threw" ELSE "entered"]
    /\ UNCHANGED <<ownerVars, flagVars, txVars, rxVars, aw, got>>

\* Mutant: the flag is tested when the session is looked up, not under the lock.
WritePushes_Unguarded(w) ==
    /\ wr[w] = "entered"
    /\ wr' = [wr EXCEPT ![w] = "accepted"]
    /\ txq' = Append(txq, w)
    /\ accepted' = Append(accepted, w)
    /\ UNCHANGED <<ownerVars, flagVars, tx, taken, rxVars, aw, got>>

\* Under the session mutex the frame is queued, or refused with an empty id.
WritePushes(w) ==
    /\ wr[w] = "entered"
    /\ IF shutdown
       THEN wr' = [wr EXCEPT ![w] = "rejected"] /\ UNCHANGED <<txq, accepted>>
       ELSE /\ wr' = [wr EXCEPT ![w] = "accepted"]
            /\ txq' = Append(txq, w)
            /\ accepted' = Append(accepted, w)
    /\ UNCHANGED <<ownerVars, flagVars, tx, taken, rxVars, aw, got>>

\* The messages in the RX deque that a awaits.
Matching(a) == {i \in 1 .. Len(rxq) : Incoming[rxq[i]].id = Want[a]}

AwaitEnters(a) ==
    /\ opened
    /\ aw[a] = "idle"
    /\ aw' = [aw EXCEPT ![a] = IF removed THEN "threw" ELSE "waiting"]
    /\ UNCHANGED <<ownerVars, flagVars, txVars, rxVars, wr, got>>

\* ws_wait_server_response: a match is in the deque, or WS_MAX_WAIT is over.
\* The mutex is released in between.
AwaitWaited(a) ==
    /\ aw[a] = "waiting"
    /\ aw' = [aw EXCEPT ![a] = IF Matching(a) # {} THEN "found" ELSE "timeout"]
    /\ UNCHANGED <<ownerVars, flagVars, txVars, rxVars, wr, got>>

Remove(i) == SubSeq(rxq, 1, i - 1) \o SubSeq(rxq, i + 1, Len(rxq))

\* Mutant: the message is returned and left in the deque.
AwaitRetrieves_Copies(a) ==
    /\ aw[a] = "found"
    /\ \E i \in Matching(a) : got' = [got EXCEPT ![a] = rxq[i]]
    /\ aw' = [aw EXCEPT ![a] = "returned"]
    /\ UNCHANGED <<ownerVars, flagVars, txVars, rxVars, wr>>

\* The newest match leaves the deque and is returned; it may be gone by now.
AwaitRetrieves(a) ==
    /\ aw[a] = "found"
    /\ IF Matching(a) = {}
       THEN aw' = [aw EXCEPT ![a] = "lost"] /\ UNCHANGED <<rxq, got>>
       ELSE \E i \in Matching(a) :
               /\ \A k \in Matching(a) : k <= i
               /\ got' = [got EXCEPT ![a] = rxq[i]]
               /\ rxq' = Remove(i)
               /\ aw' = [aw EXCEPT ![a] = "returned"]
    /\ UNCHANGED <<ownerVars, flagVars, txVars, rx, conn, arrived, part, buffer, wr>>

\* The calls that are under way; whether a user makes one is up to the user.
UserStep ==
    \/ \E w \in Writer : WritePushes(w)
    \/ \E a \in Awaiter : AwaitWaited(a) \/ AwaitRetrieves(a)
UserCall ==
    \/ CallFinalize
    \/ \E w \in Writer : WriteEnters(w)
    \/ \E a \in Awaiter : AwaitEnters(a)

\* The session is gone and every user call has returned.
AllReturned ==
    /\ owner \in {"gone", "threw"}
    /\ \A w \in Writer : wr[w] # "entered"
    /\ \A a \in Awaiter : aw[a] \notin {"waiting", "found"}
    /\ UNCHANGED vars

Next == OwnerStep \/ TxStep \/ RxStep \/ NetworkStep \/ UserStep \/ UserCall
        \/ AllReturned

\* Every thread that can run is scheduled, and the waits have their timeouts.
\* The server owes nothing.
Fairness ==
    /\ WF_vars(OwnerStep) /\ WF_vars(TxStep) /\ WF_vars(RxStep)
    /\ \A a \in Awaiter : WF_vars(AwaitWaited(a) \/ AwaitRetrieves(a))

Spec == Init /\ [][Next]_vars /\ Fairness

-----------------------------------------------------------------------------
\* No thread uses the curl handles once they are cleaned up, whichever of the
\* owner's waits timed out.
NoUseAfterFree == freed => tx \in {"none", "done"} /\ rx \in {"none", "done"}

\* "TX is FIFO": what was given to libcurl and what is still queued are the
\* accepted frames in the order they were accepted, each of them once.
TxFifo == accepted = taken \o txq

\* Once the handles are cleaned up every frame whose write returned an id was
\* given to libcurl, and for a session that was opened the close frame came last.
FlushedBeforeFree ==
    freed => /\ taken = accepted
             /\ opened => taken # <<>> /\ taken[Len(taken)] = Close

\* Every message the callback has seen whole, and that fits the buffer, waits in
\* the RX deque or was returned to one awaiter, the one that wanted it.
Holders(m) == {i \in 1 .. Len(rxq) : rxq[i] = m}
Receivers(m) == {a \in Awaiter : got[a] = m}
MessagesAccounted ==
    \A m \in 1 .. arrived : Incoming[m].len <= MaxBuffer =>
        \/ /\ \E i \in Holders(m) : Holders(m) = {i}
           /\ Receivers(m) = {}
        \/ /\ Holders(m) = {}
           /\ \E a \in Receivers(m) : Receivers(m) = {a} /\ Want[a] = Incoming[m].id

\* An awaiter whose response was there when it waited, and is not when it takes
\* it, lost it to another awaiter of the same id.
LostToRival ==
    \A a \in Awaiter : aw[a] = "lost" =>
        \E b \in Awaiter \ {a} : got[b] # 0 /\ Incoming[got[b]].id = Want[a]

\* ws_init, ws_finalize and the awaits return, whatever the server does.
CallsReturn ==
    /\ owner \notin {"new", "established"} ~> owner \in {"established", "gone", "threw"}
    /\ \A a \in Awaiter : aw[a] = "waiting" ~> aw[a] \in {"returned", "timeout", "lost"}
=============================================================================
