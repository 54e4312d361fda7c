----------------------- MODULE WebsocketSessionProofs -----------------------
(***************************************************************************)
(* Proofs about WebsocketSession, for any number of writers and awaiters   *)
(* and any messages of the server: the order of the frames, their flush    *)
(* before the cleanup, the lifetime of the curl handles, and what becomes  *)
(* of the messages received.                                               *)
(*                                                                         *)
(* Lifecycle relates the owner's position to the threads it has joined.    *)
(* Blocked says what shutdown_requested stands for: no frame is queued     *)
(* after it, and in an opened session the close frame was the last one.    *)
(* RivalInv says who took the response an awaiter lost.  BufferInv says    *)
(* what the callback has collected, and SharesInv that the deque and the   *)
(* awaiters share out the messages that have arrived.                      *)
(***************************************************************************)
EXTENDS WebsocketSession, SequenceTheorems, TLAPS

SendType ==
    /\ tx \in TxPc /\ rx \in RxPc
    /\ shutdown \in BOOLEAN /\ opened \in BOOLEAN /\ freed \in BOOLEAN
    /\ txq \in Seq(Frame) /\ accepted \in Seq(Frame) /\ taken \in Seq(Frame)

Lifecycle ==
    /\ owner \in {"join_rx", "free", "remove", "gone"} => tx = "done"
    /\ owner \in {"free", "remove", "gone"} => rx \in {"none", "done"}
    /\ freed => owner \in {"remove", "gone"}
    /\ opened => owner \notin {"new", "add", "handshake", "init_failed", "threw"}
    /\ owner \in {"new", "add", "handshake", "init_failed"} => ~ shutdown
    /\ tx = "none" <=> owner \in {"new", "threw"}

Blocked ==
    /\ tx = "done" => shutdown /\ txq = <<>>
    /\ shutdown /\ opened => accepted # <<>> /\ accepted[Len(accepted)] = Close

IInv == SendType /\ Lifecycle /\ Blocked /\ TxFifo

\* Nothing is queued, and no handle was freed, at the start.
LEMMA InitInv == Init => IInv
<1> SUFFICES ASSUME Init PROVE IInv
    OBVIOUS
<1>1. SendType
  <2>1. shutdown \in BOOLEAN /\ opened \in BOOLEAN /\ freed \in BOOLEAN
      BY Zenon DEF Init
  <2>2. /\ tx \in TxPc /\ rx \in RxPc
        /\ txq \in Seq(Frame) /\ accepted \in Seq(Frame) /\ taken \in Seq(Frame)
      BY SMT DEF Init, TxPc, RxPc
  <2> QED BY <2>1, <2>2, Zenon DEF SendType
<1>2. Lifecycle /\ Blocked
    BY Zenon DEF Init, Lifecycle, Blocked
<1>3. TxFifo
    BY DEF Init, TxFifo
<1> QED BY <1>1, <1>2, <1>3 DEF IInv

\* Queueing a frame keeps the order, and makes it the last accepted one.
LEMMA PushFifo ==
    ASSUME NEW f \in Frame, SendType, TxFifo,
           txq' = Append(txq, f), accepted' = Append(accepted, f), taken' = taken
    PROVE  /\ TxFifo'
           /\ txq' \in Seq(Frame) /\ accepted' \in Seq(Frame)
           /\ accepted' # <<>> /\ accepted'[Len(accepted')] = f
<1>1. /\ Append(txq, f) \in Seq(Frame) /\ Append(accepted, f) \in Seq(Frame)
      /\ Append(accepted, f) # <<>>
      /\ Append(accepted, f)[Len(Append(accepted, f))] = f
    BY AppendProperties DEF SendType
<1>2. taken \o Append(txq, f) = Append(taken \o txq, f)
    BY DEF SendType
<1> QED BY <1>1, <1>2 DEF TxFifo

\* Taking the oldest frame keeps the order.
LEMMA TakeFifo ==
    ASSUME SendType, TxFifo, txq # <<>>,
           txq' = Tail(txq), taken' = Append(taken, Head(txq)), accepted' = accepted
    PROVE  TxFifo' /\ txq' \in Seq(Frame) /\ taken' \in Seq(Frame)
<1>1. Head(txq) \in Frame /\ Tail(txq) \in Seq(Frame)
    BY HeadTailProperties DEF SendType
<1>2. txq = <<Head(txq)>> \o Tail(txq)
    BY <1>1 DEF SendType
<1>3. Append(taken, Head(txq)) \o Tail(txq) = taken \o (<<Head(txq)>> \o Tail(txq))
    BY <1>1 DEF SendType
<1> QED BY <1>1, <1>2, <1>3 DEF TxFifo, SendType

\* The transmit side's invariant is inductive.
LEMMA StepInv == IInv /\ [Next]_vars => IInv'
<1> SUFFICES ASSUME IInv, [Next]_vars PROVE IInv'
    OBVIOUS
<1> USE DEF IInv
<1> DEFINE Queues == <<txq, accepted, taken>>
<1>q. UNCHANGED Queues => TxFifo'
    BY DEF TxFifo
<1>1. CASE UNCHANGED vars
    BY <1>1, <1>q DEF vars, ownerVars, flagVars, txVars, rxVars, SendType, Lifecycle, Blocked
<1>2. CASE OwnerStep \/ CallFinalize
  <2> USE DEF Owner, OwnerGoes, ownerVars, flagVars, txVars, rxVars, SendType,
              Lifecycle, Blocked, TxPc, RxPc
  <2>1. CASE Initialize \/ InitializeFails
      BY <2>1, <1>q DEF Initialize, InitializeFails
  <2>2. CASE AddHandle
      BY <2>2, <1>q DEF AddHandle
  <2>2a. CASE AddHandleFails
    <3>1. SendType' BY <2>2a DEF AddHandleFails
    <3>2. Lifecycle' BY <2>2a, Zenon DEF AddHandleFails
    <3>3. Blocked' BY <2>2a, Zenon DEF AddHandleFails
    <3> QED BY <3>1, <3>2, <3>3, <2>2a, <1>q DEF AddHandleFails
  <2>3. CASE HandshakeReady
      BY <2>3, <1>q DEF HandshakeReady
  <2>3a. CASE HandshakeFails
      BY <2>3a, <1>q DEF HandshakeFails
  <2>3b. CASE InitGivesUp
      BY <2>3b, <1>q DEF InitGivesUp
  <2>4. CASE RequestShutdown
    <3>1. CASE shutdown
        BY <2>4, <3>1, <1>q DEF RequestShutdown
    <3>2. CASE ~ shutdown
        BY <2>4, <3>2, PushFifo DEF RequestShutdown, Frame
    <3> QED BY <3>1, <3>2
  <2>5. CASE CallFinalize \/ FlushWaited \/ LoopWaited
      BY <2>5, <1>q DEF CallFinalize, FlushWaited, LoopWaited
  <2>6. CASE JoinTx \/ JoinRx
      BY <2>6, <1>q DEF JoinTx, JoinRx
  <2>7. CASE CleanupHandles
    <3>1. SendType' BY <2>7 DEF CleanupHandles
    <3>2. Lifecycle' BY <2>7, Zenon DEF CleanupHandles
    <3>3. Blocked' BY <2>7 DEF CleanupHandles
    <3> QED BY <3>1, <3>2, <3>3, <2>7, <1>q DEF CleanupHandles
  <2>8. CASE RemoveSession
      BY <2>8, <1>q DEF RemoveSession
  <2> QED
      BY <1>2, <2>1, <2>2, <2>2a, <2>3, <2>3a, <2>3b, <2>4, <2>5, <2>6, <2>7, <2>8
      DEF OwnerStep
<1>3. CASE TxStep
  <2> USE DEF ownerVars, flagVars, rxVars, SendType, Lifecycle, Blocked, TxPc
  <2>1. CASE TxStops \/ TxSends
      BY <2>1, <1>q DEF TxStops, TxSends
  <2>2. CASE TxTakes
      BY <2>2, TakeFifo DEF TxTakes
  <2> QED BY <1>3, <2>1, <2>2 DEF TxStep
<1>4. CASE RxStep \/ NetworkStep
  <2>1. /\ UNCHANGED <<ownerVars, txVars, shutdown>>
        /\ rx' \in RxPc /\ (rx \in {"none", "done"} => rx' = rx)
      BY <1>4 DEF RxStep, NetworkStep, RxHead, RxPublishes, RxPerformed, RxWaited,
                  RxReadsInfo, RxEnds, Connection, RxCallback, Continue, flagVars,
                  SendType, RxPc
  <2> QED
      BY <2>1, <1>q DEF ownerVars, txVars, SendType, Lifecycle, Blocked
<1>5. ASSUME NEW w \in Writer, WritePushes(w) PROVE IInv'
  <2> USE DEF ownerVars, flagVars, rxVars, SendType, Lifecycle, Blocked
  <2>1. CASE shutdown
      BY <1>5, <2>1, <1>q DEF WritePushes
  <2>2. CASE ~ shutdown
      BY <1>5, <2>2, PushFifo DEF WritePushes, Frame
  <2> QED BY <2>1, <2>2
<1>6. ASSUME \/ \E w \in Writer : WriteEnters(w)
             \/ \E a \in Awaiter : AwaitEnters(a) \/ AwaitWaited(a) \/ AwaitRetrieves(a)
             \/ AllReturned
      PROVE IInv'
  <2>1. UNCHANGED <<ownerVars, txVars, shutdown, rx>>
      BY <1>6 DEF WriteEnters, AwaitEnters, AwaitWaited, AwaitRetrieves, AllReturned,
                  vars, flagVars, rxVars
  <2> QED
      BY <2>1, <1>q DEF ownerVars, txVars, SendType, Lifecycle, Blocked
<1> QED
    BY <1>1, <1>2, <1>3, <1>4, <1>5, <1>6 DEF Next, UserStep, UserCall

\* The transmit side's invariant holds throughout.
LEMMA Invariance == Spec => []IInv
BY InitInv, StepInv, PTL DEF Spec

\* No thread uses the curl handles after ws_finalize cleaned them up.
THEOREM HandlesOutliveThreads == Spec => []NoUseAfterFree
<1>1. IInv => NoUseAfterFree
    BY DEF IInv, SendType, Lifecycle, NoUseAfterFree
<1> QED BY <1>1, Invariance, PTL

\* Frames reach libcurl in the order in which the writes were accepted.
THEOREM TransmitIsFifo == Spec => []TxFifo
<1>1. IInv => TxFifo
    BY DEF IInv
<1> QED BY <1>1, Invariance, PTL

\* No accepted frame is left behind when the handles are cleaned up, and the
\* close frame of an opened session is the last.
THEOREM NothingLeftBehind == Spec => []FlushedBeforeFree
<1>1. IInv => FlushedBeforeFree
  <2> SUFFICES ASSUME IInv, freed PROVE FlushedBeforeFree
      BY DEF FlushedBeforeFree
  <2>1. tx = "done" /\ txq = <<>> /\ shutdown
      BY DEF IInv, Lifecycle, Blocked
  <2>2. taken = accepted
      BY <2>1 DEF IInv, TxFifo, SendType
  <2> QED BY <2>1, <2>2 DEF IInv, Blocked, FlushedBeforeFree
<1> QED BY <1>1, Invariance, PTL

-----------------------------------------------------------------------------
(* Type correctness.  The rest of the state: the owner's, the users', and  *)
(* the receiving side's.                                                   *)

OwnerType ==
    /\ owner \in OwnerPc
    /\ removed \in BOOLEAN
    /\ owner \in {"remove", "gone"} => freed
    /\ removed => owner = "gone"

FlagType ==
    /\ running \in {0, 1}
    /\ handshake \in BOOLEAN
    /\ wr \in [Writer -> {"idle", "entered", "accepted", "rejected", "threw"}]
    /\ conn \in {"connecting", "open", "closed", "refused"}

CursorType ==
    /\ arrived \in 0 .. Len(Incoming)
    /\ IF arrived = Len(Incoming) THEN part = 0
       ELSE part \in 0 .. Incoming[arrived + 1].len - 1

AwaitPc == {"idle", "waiting", "found", "returned", "timeout", "lost", "threw"}

ReceiveType ==
    /\ rxq \in Seq(Message)
    /\ aw \in [Awaiter -> AwaitPc]
    /\ got \in [Awaiter -> {0} \cup Message]

SessionType == IInv /\ OwnerType /\ FlagType /\ CursorType /\ ReceiveType

\* The session's types hold at the start.
LEMMA InitType == Init => SessionType
<1> SUFFICES ASSUME Init PROVE SessionType
    OBVIOUS
<1>1. OwnerType
    BY Zenon DEF Init, OwnerType, OwnerPc
<1>2. FlagType
  <2>1. handshake \in BOOLEAN
      BY Zenon DEF Init
  <2> QED BY <2>1 DEF Init, FlagType
<1>3. CursorType
    BY SessionAssumption DEF Init, CursorType, Message
<1>4. ReceiveType
    BY DEF Init, ReceiveType, AwaitPc
<1> QED BY <1>1, <1>2, <1>3, <1>4, InitInv DEF SessionType

\* A message that left the buffer is one of the server's.
LEMMA FilledIsMessage ==
    ASSUME NEW b, IsMessage(b)
    PROVE  b[1][1] \in Message
<1>1. PICK m \in Message : b = Chunks(m)
    BY DEF IsMessage
<1>2. 1 \in 1 .. Incoming[m].len
    BY SessionAssumption
<1>3. b[1] = <<m, 1>>
    BY <1>1, <1>2 DEF Chunks
<1> QED BY <1>3

\* What Remove leaves of a deque.
LEMMA RemoveIs ==
    ASSUME rxq \in Seq(Message), NEW i \in 1 .. Len(rxq)
    PROVE  /\ Remove(i) \in Seq(Message)
           /\ Len(Remove(i)) = Len(rxq) - 1
           /\ \A k \in 1 .. Len(rxq) - 1 :
                 Remove(i)[k] = IF k < i THEN rxq[k] ELSE rxq[k + 1]
<1> DEFINE left == SubSeq(rxq, 1, i - 1)
           right == SubSeq(rxq, i + 1, Len(rxq))
<1>0. Len(rxq) \in Nat
    OBVIOUS
<1>1. /\ left \in Seq(Message) /\ Len(left) = i - 1
      /\ \A k \in 1 .. i - 1 : left[k] = rxq[k]
    BY <1>0
<1>2. /\ right \in Seq(Message) /\ Len(right) = Len(rxq) - i
      /\ \A k \in 1 .. Len(rxq) - i : right[k] = rxq[k + i]
    BY <1>0
<1>3. Remove(i) = left \o right
    BY DEF Remove
<1> HIDE DEF left, right
<1>4. /\ left \o right \in Seq(Message)
      /\ Len(left \o right) = Len(left) + Len(right)
      /\ \A k \in 1 .. Len(left) + Len(right) :
            (left \o right)[k] = IF k <= Len(left) THEN left[k] ELSE right[k - Len(left)]
    BY <1>1, <1>2, ConcatProperties
<1>5. Len(left) + Len(right) = Len(rxq) - 1
    BY <1>0, <1>1, <1>2
<1>6. ASSUME NEW k \in 1 .. Len(rxq) - 1
      PROVE  Remove(i)[k] = IF k < i THEN rxq[k] ELSE rxq[k + 1]
  <2>1. CASE k < i
      BY <2>1, <1>0, <1>1, <1>3, <1>4, <1>5
  <2>2. CASE ~ (k < i)
    <3>1. (left \o right)[k] = right[k - (i - 1)]
        BY <2>2, <1>0, <1>1, <1>4, <1>5
    <3>2. k - (i - 1) \in 1 .. Len(rxq) - i
        BY <2>2, <1>0
    <3>3. right[k - (i - 1)] = rxq[(k - (i - 1)) + i]
        BY <3>2, <1>2
    <3>4. (k - (i - 1)) + i = k + 1
        BY <1>0
    <3>5. Remove(i)[k] = rxq[k + 1]
        BY <3>1, <3>3, <3>4, <1>3
    <3> QED BY <3>5, <2>2
  <2> QED BY <2>1, <2>2
<1> QED BY <1>3, <1>4, <1>5, <1>6

\* The cursor stays inside the messages.
LEMMA AdvanceType == CursorType /\ Advance => CursorType'
<1> SUFFICES ASSUME CursorType, Advance PROVE CursorType'
    OBVIOUS
<1> USE SessionAssumption DEF CursorType, Advance, Message
<1>1. arrived \in Nat /\ arrived + 1 \in Message /\ part \in Nat
      /\ part < Incoming[arrived + 1].len /\ Incoming[arrived + 1].len \in Nat
    OBVIOUS
<1>2. CASE part + 1 = Incoming[arrived + 1].len
  <2>1. arrived' = arrived + 1 /\ part' = 0
      BY <1>2
  <2>2. CASE arrived' = Len(Incoming)
      BY <2>1, <2>2, <1>1
  <2>3. CASE arrived' # Len(Incoming)
    <3>1. arrived' + 1 \in Message
        BY <2>1, <2>3, <1>1
    <3>2. Incoming[arrived' + 1].len \in Nat \ {0}
        BY <3>1
    <3> QED BY <3>2, <2>1, <2>3, <1>1
  <2> QED BY <2>2, <2>3
<1>3. CASE part + 1 # Incoming[arrived + 1].len
    BY <1>3, <1>1
<1> QED BY <1>2, <1>3

\* Every step keeps the types, with the transmit side's invariant.
LEMMA StepType == SessionType /\ [Next]_vars => SessionType'
<1> SUFFICES ASSUME SessionType, [Next]_vars PROVE SessionType'
    OBVIOUS
<1> USE DEF SessionType
<1>i. IInv'
    BY StepInv
<1>1. CASE UNCHANGED vars
    BY <1>1, <1>i DEF vars, ownerVars, flagVars, rxVars, userVars, OwnerType, FlagType,
                      CursorType, ReceiveType
<1>2. CASE OwnerStep \/ CallFinalize
  <2> USE DEF Owner, OwnerGoes, ownerVars, flagVars, rxVars, userVars
  <2>1. UNCHANGED <<handshake, conn, arrived, part, rxq, wr, aw, got>>
        /\ (running' = running \/ running' = 0)
      BY <1>2 DEF OwnerStep, Initialize, InitializeFails, AddHandle, AddHandleFails,
                  HandshakeReady, HandshakeFails, InitGivesUp, RequestShutdown,
                  FlushWaited, LoopWaited, JoinTx, JoinRx, CleanupHandles,
                  RemoveSession, CallFinalize
  <2>2. FlagType' /\ CursorType' /\ ReceiveType'
      BY <2>1 DEF FlagType, CursorType, ReceiveType
  <2>3. OwnerType'
    <3> USE DEF OwnerType, OwnerPc
    <3>1. CASE ~ (CleanupHandles \/ RemoveSession)
      <4>1. /\ UNCHANGED <<freed, removed>>
            /\ owner \notin {"remove", "gone"}
            /\ owner' \in OwnerPc \ {"remove", "gone"}
          BY <1>2, <3>1
          DEF OwnerStep, Initialize, InitializeFails, AddHandle, AddHandleFails,
              HandshakeReady, HandshakeFails, InitGivesUp, RequestShutdown,
              FlushWaited, LoopWaited, JoinTx, JoinRx, CallFinalize
      <4> QED BY <4>1
    <3>2. CASE CleanupHandles
        BY <3>2, Zenon DEF CleanupHandles
    <3>3. CASE RemoveSession
        BY <3>3, Zenon DEF RemoveSession
    <3> QED BY <3>1, <3>2, <3>3
  <2> QED BY <2>2, <2>3, <1>i
<1>3. CASE TxStep
  <2>1. UNCHANGED <<ownerVars, flagVars, rxVars, userVars>>
      BY <1>3 DEF TxStep, TxStops, TxTakes, TxSends
  <2> QED
      BY <2>1, <1>i DEF ownerVars, flagVars, rxVars, userVars, OwnerType, FlagType,
                        CursorType, ReceiveType
<1>4. CASE RxStep \/ Connection
  <2> USE DEF ownerVars, flagVars, rxVars, rxRest, userVars, Continue
  <2>1. UNCHANGED <<ownerVars, arrived, part, rxq, userVars>>
      BY <1>4 DEF RxStep, RxHead, RxPublishes, RxPerformed, RxWaited, RxReadsInfo,
                  RxEnds, Connection
  <2>2. running' \in {0, 1} /\ conn' \in {"connecting", "open", "closed", "refused"}
      BY <1>4 DEF RxStep, RxHead, RxPublishes, RxPerformed, RxWaited, RxReadsInfo,
                  RxEnds, Connection, FlagType
  <2>3. handshake' \in BOOLEAN
      BY <1>4, Zenon DEF RxStep, RxHead, RxPublishes, RxPerformed, RxWaited,
                         RxReadsInfo, RxEnds, Connection, FlagType
  <2>4. OwnerType'
      BY <2>1 DEF OwnerType
  <2>5. FlagType'
      BY <2>1, <2>2, <2>3 DEF FlagType
  <2> QED BY <2>1, <2>4, <2>5, <1>i DEF CursorType, ReceiveType
<1>5. CASE RxCallback
  <2>1. /\ UNCHANGED <<ownerVars, flagVars, conn, userVars>>
        /\ Advance
        /\ IF IsMessage(Filled) THEN rxq' = Append(rxq, Filled[1][1]) ELSE rxq' = rxq
      BY <1>5 DEF RxCallback
  <2>2. rxq' \in Seq(Message)
      BY <2>1, FilledIsMessage DEF ReceiveType
  <2> QED
      BY <2>1, <2>2, <1>i, AdvanceType
      DEF ownerVars, flagVars, userVars, OwnerType, FlagType, ReceiveType
<1>6. ASSUME NEW w \in Writer, WritePushes(w) \/ WriteEnters(w) PROVE SessionType'
  <2> USE DEF ownerVars, flagVars, rxVars
  <2>1. UNCHANGED <<ownerVars, flagVars, rxVars, aw, got>>
        /\ \E x \in {"threw", "entered", "rejected", "accepted"} :
              wr' = [wr EXCEPT ![w] = x]
      BY <1>6 DEF WritePushes, WriteEnters
  <2> QED
      BY <2>1, <1>i DEF OwnerType, FlagType, CursorType, ReceiveType
<1>7. ASSUME NEW a \in Awaiter, AwaitEnters(a) \/ AwaitWaited(a) \/ AwaitRetrieves(a)
      PROVE  SessionType'
  <2> USE DEF ownerVars, flagVars, rxVars
  <2>1. UNCHANGED <<ownerVars, flagVars, conn, arrived, part, wr>>
      BY <1>7 DEF AwaitEnters, AwaitWaited, AwaitRetrieves
  <2>2. \E x \in AwaitPc : aw' = [aw EXCEPT ![a] = x]
      BY <1>7 DEF AwaitEnters, AwaitWaited, AwaitRetrieves, AwaitPc
  <2>3. rxq' \in Seq(Message) /\ got' \in [Awaiter -> {0} \cup Message]
    <3>1. CASE UNCHANGED <<rxq, got>>
        BY <3>1 DEF ReceiveType
    <3>2. ASSUME NEW i \in Matching(a), got' = [got EXCEPT ![a] = rxq[i]], rxq' = Remove(i)
          PROVE  rxq' \in Seq(Message) /\ got' \in [Awaiter -> {0} \cup Message]
      <4>1. i \in 1 .. Len(rxq) /\ rxq[i] \in Message
          BY DEF Matching, ReceiveType
      <4> QED BY <4>1, <3>2, RemoveIs DEF ReceiveType
    <3> QED BY <1>7, <3>1, <3>2 DEF AwaitEnters, AwaitWaited, AwaitRetrieves
  <2> QED
      BY <2>1, <2>2, <2>3, <1>i DEF OwnerType, FlagType, CursorType, ReceiveType
<1> QED
    BY <1>1, <1>2, <1>3, <1>4, <1>5, <1>6, <1>7
    DEF Next, NetworkStep, UserStep, UserCall, AllReturned

\* Types hold throughout.
LEMMA TypeInvariance == Spec => []SessionType
BY InitType, StepType, PTL DEF Spec

\* Every thread stands at one of its positions and every queue holds frames or
\* messages; the session leaves the maps only after the cleanup.
THEOREM TypeCorrect == Spec => []TypeOK
<1>1. SessionType => TypeOK
  <2> SUFFICES ASSUME SessionType PROVE TypeOK
      OBVIOUS
  <2> USE DEF SessionType, IInv, SendType, Lifecycle, OwnerType, FlagType, CursorType,
              ReceiveType, AwaitPc
  <2>1. {opened, handshake, shutdown, freed, removed} \subseteq BOOLEAN
      BY Zenon
  <2>2. removed => freed
      BY Zenon
  <2>3. tx = "none" <=> owner \in {"new", "threw"}
      BY Zenon
  <2> QED BY <2>1, <2>2, <2>3 DEF TypeOK
<1> QED BY <1>1, TypeInvariance, PTL

-----------------------------------------------------------------------------
(* The RX deque.  An awaiter that found its response still has one to take *)
(* until a rival of the same id takes it; what an awaiter was given, it    *)
(* keeps.                                                                  *)

Rival(a) == \E b \in Awaiter \ {a} : got[b] # 0 /\ Incoming[got[b]].id = Want[a]

RivalInv ==
    \A a \in Awaiter :
        /\ aw[a] # "returned" => got[a] = 0
        /\ aw[a] = "found" => Matching(a) # {} \/ Rival(a)
        /\ aw[a] = "lost" => Rival(a)

\* The steps that are not an awaiter's: they take nothing from the deque.
LEMMA OthersOnlyAppend ==
    ASSUME SessionType, [Next]_vars,
           ~ \E a \in Awaiter : AwaitEnters(a) \/ AwaitWaited(a) \/ AwaitRetrieves(a)
    PROVE  /\ UNCHANGED <<aw, got>>
           /\ UNCHANGED rxq \/ RxCallback
<1> USE DEF ownerVars, flagVars, rxVars, rxRest, txVars, userVars
<1>1. CASE OwnerStep \/ CallFinalize
    BY <1>1 DEF Owner, OwnerGoes, OwnerStep, Initialize, InitializeFails, AddHandle,
                AddHandleFails, HandshakeReady, HandshakeFails, InitGivesUp,
                RequestShutdown, FlushWaited, LoopWaited, JoinTx, JoinRx,
                CleanupHandles, RemoveSession, CallFinalize
<1>2. CASE TxStep \/ RxStep
    BY <1>2 DEF TxStep, TxStops, TxTakes, TxSends, RxStep, RxHead, RxPublishes,
                RxPerformed, RxWaited, RxReadsInfo, RxEnds
<1>3. CASE NetworkStep
    BY <1>3 DEF NetworkStep, Connection, RxCallback
<1>4. CASE \E w \in Writer : WritePushes(w) \/ WriteEnters(w)
    BY <1>4 DEF WritePushes, WriteEnters
<1>5. CASE AllReturned \/ UNCHANGED vars
    BY <1>5 DEF AllReturned, vars
<1> QED BY <1>1, <1>2, <1>3, <1>4, <1>5 DEF Next, UserStep, UserCall

\* A chunk that completes a message puts it behind those that wait.
LEMMA CallbackAppends ==
    ASSUME SessionType, UNCHANGED rxq \/ RxCallback
    PROVE  /\ Len(rxq) \in Nat /\ Len(rxq') \in Nat /\ Len(rxq) <= Len(rxq')
           /\ \A i \in 1 .. Len(rxq) : rxq'[i] = rxq[i]
<1>1. rxq \in Seq(Message)
    BY DEF SessionType, ReceiveType
<1>2. CASE UNCHANGED rxq
    BY <1>1, <1>2
<1>3. CASE rxq' = Append(rxq, Filled[1][1]) /\ Filled[1][1] \in Message
    BY <1>1, <1>3, AppendProperties
<1> QED BY <1>2, <1>3, FilledIsMessage DEF RxCallback

\* A match that an awaiter leaves in the deque is still there for the others.
LEMMA OthersMatchStays ==
    ASSUME SessionType, NEW a, NEW i \in 1 .. Len(rxq), rxq' = Remove(i),
           NEW k \in Matching(a), k # i
    PROVE  Matching(a)' # {}
<1>1. k \in 1 .. Len(rxq) /\ Incoming[rxq[k]].id = Want[a] /\ rxq \in Seq(Message)
    BY DEF Matching, SessionType, ReceiveType
<1>2. Len(rxq') = Len(rxq) - 1 /\ Len(rxq) \in Nat
    BY <1>1, RemoveIs
<1>3. PICK j \in 1 .. Len(rxq') : rxq'[j] = rxq[k]
  <2>1. CASE k < i
    <3>1. k \in 1 .. Len(rxq) - 1
        BY <2>1, <1>1, <1>2
    <3> QED BY <3>1, <2>1, <1>1, <1>2, RemoveIs
  <2>2. CASE k > i
    <3>1. k - 1 \in 1 .. Len(rxq) - 1 /\ ~ (k - 1 < i) /\ (k - 1) + 1 = k
        BY <2>2, <1>1, <1>2
    <3>2. Remove(i)[k - 1] = rxq[(k - 1) + 1]
        BY <3>1, <1>1, RemoveIs
    <3> QED BY <3>1, <3>2, <1>2
  <2> QED BY <2>1, <2>2, <1>1
<1> QED BY <1>1, <1>3 DEF Matching

\* A response found is lost only by the step that gives it to a rival.
LEMMA RivalStep == SessionType /\ RivalInv /\ [Next]_vars => RivalInv'
<1> SUFFICES ASSUME SessionType, RivalInv, [Next]_vars,
                    NEW a \in Awaiter
             PROVE  /\ aw'[a] # "returned" => got'[a] = 0
                    /\ aw'[a] = "found" => Matching(a)' # {} \/ Rival(a)'
                    /\ aw'[a] = "lost" => Rival(a)'
    BY DEF RivalInv
<1>a. /\ aw[a] # "returned" => got[a] = 0
      /\ aw[a] = "found" => Matching(a) # {} \/ Rival(a)
      /\ aw[a] = "lost" => Rival(a)
    BY DEF RivalInv
<1>t. aw \in [Awaiter -> AwaitPc] /\ got \in [Awaiter -> {0} \cup Message]
    BY DEF SessionType, ReceiveType
<1>1. CASE UNCHANGED <<aw, got>> /\ (UNCHANGED rxq \/ RxCallback)
  <2>1. Rival(a) => Rival(a)'
      BY <1>1 DEF Rival
  <2>2. Matching(a) # {} => Matching(a)' # {}
      BY <1>1, CallbackAppends DEF Matching
  <2> QED BY <1>1, <1>a, <2>1, <2>2
<1>2. ASSUME NEW b \in Awaiter, AwaitEnters(b) \/ AwaitWaited(b)
      PROVE  /\ aw'[a] # "returned" => got'[a] = 0
             /\ aw'[a] = "found" => Matching(a)' # {} \/ Rival(a)'
             /\ aw'[a] = "lost" => Rival(a)'
  <2>1. UNCHANGED <<rxq, got>>
      BY <1>2 DEF AwaitEnters, AwaitWaited, rxVars
  <2>2. Rival(a)' = Rival(a) /\ Matching(a)' = Matching(a)
      BY <2>1 DEF Rival, Matching
  <2>3. CASE a # b
      BY <2>1, <2>2, <2>3, <1>2, <1>a, <1>t DEF AwaitEnters, AwaitWaited
  <2>4. CASE a = b
      BY <2>1, <2>2, <2>4, <1>2, <1>a, <1>t DEF AwaitEnters, AwaitWaited
  <2> QED BY <2>3, <2>4
<1>3. ASSUME NEW b \in Awaiter, AwaitRetrieves(b), Matching(b) = {}
      PROVE  /\ aw'[a] # "returned" => got'[a] = 0
             /\ aw'[a] = "found" => Matching(a)' # {} \/ Rival(a)'
             /\ aw'[a] = "lost" => Rival(a)'
  <2>1. /\ UNCHANGED <<rxq, got>> /\ aw[b] = "found"
        /\ aw' = [aw EXCEPT ![b] = "lost"]
      BY <1>3 DEF AwaitRetrieves
  <2>2. Rival(a)' = Rival(a) /\ Matching(a)' = Matching(a)
      BY <2>1 DEF Rival, Matching
  <2>3. CASE a # b
      BY <2>1, <2>2, <2>3, <1>a, <1>t
  <2>4. CASE a = b
      BY <2>1, <2>2, <2>4, <1>3, <1>a, <1>t
  <2> QED BY <2>3, <2>4
<1>4. ASSUME NEW b \in Awaiter, AwaitRetrieves(b), Matching(b) # {}
      PROVE  /\ aw'[a] # "returned" => got'[a] = 0
             /\ aw'[a] = "found" => Matching(a)' # {} \/ Rival(a)'
             /\ aw'[a] = "lost" => Rival(a)'
  <2>1. PICK i \in Matching(b) : /\ got' = [got EXCEPT ![b] = rxq[i]]
                                 /\ rxq' = Remove(i)
                                 /\ aw' = [aw EXCEPT ![b] = "returned"]
      BY <1>4 DEF AwaitRetrieves
  <2>2. /\ aw[b] = "found" /\ got[b] = 0
        /\ i \in 1 .. Len(rxq) /\ rxq[i] \in Message /\ Incoming[rxq[i]].id = Want[b]
      BY <1>4 DEF AwaitRetrieves, RivalInv, Matching, SessionType, ReceiveType
  <2>3. CASE a = b
      BY <2>1, <2>3, <1>t
  <2>4. CASE a # b
    <3>1. aw'[a] = aw[a] /\ got'[a] = got[a]
        BY <2>1, <2>4, <1>t
    <3>2. Rival(a) => Rival(a)'
      <4>1. \A c \in Awaiter : got[c] # 0 => got'[c] = got[c]
          BY <2>1, <2>2, <1>t
      <4> QED BY <4>1 DEF Rival
    <3>3. Matching(a) # {} => Matching(a)' # {} \/ Rival(a)'
      <4>1. CASE Want[a] = Want[b]
        <5>1. got'[b] = rxq[i] /\ rxq[i] # 0
            BY <2>1, <2>2, <1>t DEF Message
        <5> QED BY <4>1, <5>1, <2>2, <2>4 DEF Rival
      <4>2. CASE Want[a] # Want[b] /\ Matching(a) # {}
        <5>1. PICK k \in Matching(a) : TRUE
            BY <4>2
        <5>2. k # i
            BY <4>2, <2>2 DEF Matching
        <5> QED BY <5>2, <2>1, <2>2, OthersMatchStays
      <4> QED BY <4>1, <4>2
    <3> QED BY <3>1, <3>2, <3>3, <1>a
  <2> QED BY <2>3, <2>4
<1> QED BY <1>1, <1>2, <1>3, <1>4, OthersOnlyAppend

\* Types and RivalInv hold throughout.
LEMMA RivalInvariance == Spec => [](SessionType /\ RivalInv)
<1>1. Init => RivalInv
    BY DEF Init, RivalInv
<1> QED BY <1>1, InitType, StepType, RivalStep, PTL DEF Spec

\* An awaiter whose response was there when its wait ended, and is not when it
\* takes it, lost it to another awaiter of the same id.
THEOREM LossesHaveARival == Spec => []LostToRival
<1>1. RivalInv => LostToRival
    BY DEF RivalInv, Rival, LostToRival
<1> QED BY <1>1, RivalInvariance, PTL

-----------------------------------------------------------------------------
(* No message is lost or handed out twice, when every message of the       *)
(* server fits the buffer (one that does not corrupts the one behind it).  *)

AllFit == \A m \in Message : Incoming[m].len <= MaxBuffer

\* The buffer holds what the callback has seen of the next message.
BufferInv == buffer = [k \in 1 .. part |-> <<arrived + 1, k>>]

\* The deque and the awaiters share out the messages that have arrived.
SharesInv ==
    /\ \A i \in 1 .. Len(rxq) : rxq[i] \in 1 .. arrived
    /\ \A i, j \in 1 .. Len(rxq) : rxq[i] = rxq[j] => i = j
    /\ \A a \in Awaiter : got[a] # 0 =>
          /\ got[a] \in 1 .. arrived /\ Incoming[got[a]].id = Want[a]
          /\ \A i \in 1 .. Len(rxq) : rxq[i] # got[a]
          /\ \A b \in Awaiter : got[b] = got[a] => b = a
    /\ \A m \in 1 .. arrived : \/ \E i \in 1 .. Len(rxq) : rxq[i] = m
                               \/ \E a \in Awaiter : got[a] = m

\* The buffer becomes a message with the last chunk of it, and only then.
LEMMA CallbackFills ==
    ASSUME AllFit, SessionType, BufferInv, RxCallback
    PROVE  /\ BufferInv'
           /\ \/ arrived' = arrived + 1 /\ rxq' = Append(rxq, arrived + 1)
              \/ arrived' = arrived /\ rxq' = rxq
<1> DEFINE n == part + 1
           b == [k \in 1 .. n |-> <<arrived + 1, k>>]
<1>0. Advance /\ CursorType
    BY DEF RxCallback, SessionType
<1>1. /\ arrived \in Nat /\ arrived + 1 \in Message /\ part \in Nat
      /\ Incoming[arrived + 1].len \in Nat /\ n <= Incoming[arrived + 1].len
      /\ n <= MaxBuffer /\ MaxBuffer \in Nat
    BY <1>0, SessionAssumption DEF Advance, CursorType, Message, AllFit
<1>2. Append(buffer, <<arrived + 1, n>>) = b
    BY <1>1 DEF BufferInv
<1>3. Len(b) = n
    BY <1>1
<1>4. Filled = b
  <2> HIDE DEF b
  <2>1. ~ (Len(b) > MaxBuffer)
      BY <1>1, <1>3
  <2> QED BY <1>2, <2>1, Zenon DEF Filled, n
<1>5. b[1] = <<arrived + 1, 1>> /\ b[1][1] = arrived + 1
    BY <1>1
<1>6. IsMessage(b) <=> n = Incoming[arrived + 1].len
  <2>1. ASSUME IsMessage(b) PROVE n = Incoming[arrived + 1].len
    <3>1. PICK m \in Message : b = Chunks(m)
        BY <2>1 DEF IsMessage
    <3>2. Incoming[m].len \in Nat \ {0}
        BY SessionAssumption
    <3>3. Chunks(m)[1] = <<m, 1>>
        BY <3>2 DEF Chunks
    <3>4. m = arrived + 1
      <4>1. <<m, 1>> = <<arrived + 1, 1>>
        <5> HIDE DEF b
        <5> QED BY <3>1, <3>3, <1>5, Zenon
      <4> QED BY <4>1
    <3>5. Len(Chunks(m)) = Incoming[m].len
        BY <3>2 DEF Chunks
    <3> QED BY <3>1, <3>4, <3>5, <1>3
  <2>2. ASSUME n = Incoming[arrived + 1].len PROVE IsMessage(b)
      BY <2>2, <1>1 DEF IsMessage, Chunks
  <2> QED BY <2>1, <2>2
<1>7. CASE n = Incoming[arrived + 1].len
  <2>1. arrived' = arrived + 1 /\ part' = 0
      BY <1>7, <1>0 DEF Advance
  <2>2. buffer' = <<>> /\ rxq' = Append(rxq, arrived + 1)
      BY <1>4, <1>5, <1>6, <1>7 DEF RxCallback
  <2> QED BY <2>1, <2>2 DEF BufferInv
<1>8. CASE n # Incoming[arrived + 1].len
  <2>1. arrived' = arrived /\ part' = n
      BY <1>8, <1>0 DEF Advance
  <2>2. buffer' = b /\ rxq' = rxq
      BY <1>4, <1>6, <1>8 DEF RxCallback
  <2> QED BY <2>1, <2>2 DEF BufferInv
<1> QED BY <1>7, <1>8

\* A message that arrives joins the deque, and nobody has it yet.
LEMMA SharesAppend ==
    ASSUME SessionType, SharesInv, UNCHANGED got,
           arrived' = arrived + 1, rxq' = Append(rxq, arrived + 1)
    PROVE  SharesInv'
<1>0. /\ rxq \in Seq(Message) /\ Len(rxq) \in Nat /\ arrived \in Nat
      /\ got \in [Awaiter -> {0} \cup Message]
    BY SessionAssumption DEF SessionType, ReceiveType, CursorType, Message
<1>1. /\ Len(rxq') = Len(rxq) + 1 /\ rxq'[Len(rxq) + 1] = arrived + 1
      /\ \A i \in 1 .. Len(rxq) : rxq'[i] = rxq[i]
    BY <1>0
<1>2. \A i \in 1 .. Len(rxq') : rxq'[i] \in 1 .. arrived'
    BY <1>0, <1>1 DEF SharesInv
<1>3. \A i, j \in 1 .. Len(rxq') : rxq'[i] = rxq'[j] => i = j
    BY <1>0, <1>1 DEF SharesInv
<1>4. ASSUME NEW a \in Awaiter, got'[a] # 0
      PROVE  /\ got'[a] \in 1 .. arrived' /\ Incoming[got'[a]].id = Want[a]
             /\ \A i \in 1 .. Len(rxq') : rxq'[i] # got'[a]
             /\ \A c \in Awaiter : got'[c] = got'[a] => c = a
  <2>1. /\ got[a] \in 1 .. arrived /\ Incoming[got[a]].id = Want[a]
        /\ \A i \in 1 .. Len(rxq) : rxq[i] # got[a]
        /\ \A c \in Awaiter : got[c] = got[a] => c = a
      BY <1>4 DEF SharesInv
  <2> QED BY <2>1, <1>0, <1>1
<1>5. ASSUME NEW m \in 1 .. arrived'
      PROVE  \/ \E i \in 1 .. Len(rxq') : rxq'[i] = m
             \/ \E a \in Awaiter : got'[a] = m
  <2>1. CASE m = arrived + 1
      BY <2>1, <1>0, <1>1
  <2>2. CASE m \in 1 .. arrived
      BY <2>2, <1>0, <1>1 DEF SharesInv
  <2> QED BY <2>1, <2>2, <1>0
<1> QED BY <1>2, <1>3, <1>4, <1>5 DEF SharesInv

\* A message that an awaiter takes leaves the deque, and it alone.
LEMMA SharesTake ==
    ASSUME SessionType, SharesInv, UNCHANGED arrived, NEW b \in Awaiter, got[b] = 0,
           NEW i \in 1 .. Len(rxq), Incoming[rxq[i]].id = Want[b],
           got' = [got EXCEPT ![b] = rxq[i]], rxq' = Remove(i)
    PROVE  SharesInv'
<1>0. /\ rxq \in Seq(Message) /\ Len(rxq) \in Nat /\ arrived \in Nat
      /\ got \in [Awaiter -> {0} \cup Message]
    BY SessionAssumption DEF SessionType, ReceiveType, CursorType, Message
<1>1. /\ Len(rxq') = Len(rxq) - 1
      /\ \A k \in 1 .. Len(rxq') : rxq'[k] = IF k < i THEN rxq[k] ELSE rxq[k + 1]
    BY <1>0, RemoveIs
<1>2. \A k \in 1 .. Len(rxq') : \E l \in 1 .. Len(rxq) \ {i} : rxq'[k] = rxq[l]
    BY <1>0, <1>1
<1>3. \A l \in 1 .. Len(rxq) \ {i} : \E k \in 1 .. Len(rxq') : rxq'[k] = rxq[l]
  <2> SUFFICES ASSUME NEW l \in 1 .. Len(rxq) \ {i}
               PROVE  \E k \in 1 .. Len(rxq') : rxq'[k] = rxq[l]
      OBVIOUS
  <2>1. CASE l < i
      BY <2>1, <1>0, <1>1
  <2>2. CASE l > i
    <3>1. l - 1 \in 1 .. Len(rxq') /\ ~ (l - 1 < i) /\ (l - 1) + 1 = l
        BY <2>2, <1>0, <1>1
    <3>2. rxq'[l - 1] = rxq[(l - 1) + 1]
        BY <3>1, <1>1
    <3> QED BY <3>1, <3>2
  <2> QED BY <2>1, <2>2, <1>0
<1>4. got'[b] = rxq[i] /\ \A a \in Awaiter \ {b} : got'[a] = got[a]
    BY <1>0
<1>5. \A k \in 1 .. Len(rxq') : rxq'[k] \in 1 .. arrived'
    BY <1>2 DEF SharesInv
<1>6. \A k, l \in 1 .. Len(rxq') : rxq'[k] = rxq'[l] => k = l
    BY <1>0, <1>1 DEF SharesInv
<1>7. ASSUME NEW a \in Awaiter, got'[a] # 0
      PROVE  /\ got'[a] \in 1 .. arrived' /\ Incoming[got'[a]].id = Want[a]
             /\ \A k \in 1 .. Len(rxq') : rxq'[k] # got'[a]
             /\ \A c \in Awaiter : got'[c] = got'[a] => c = a
  <2>1. CASE a = b
    <3>1. got'[a] \in 1 .. arrived' /\ Incoming[got'[a]].id = Want[a]
        BY <2>1, <1>4 DEF SharesInv
    <3>2. \A k \in 1 .. Len(rxq') : rxq'[k] # got'[a]
        BY <2>1, <1>2, <1>4 DEF SharesInv
    <3>3. \A c \in Awaiter : got'[c] = got'[a] => c = a
      <4> SUFFICES ASSUME NEW c \in Awaiter, got'[c] = got'[a], c # a PROVE FALSE
          OBVIOUS
      <4>1. got[c] = rxq[i] /\ rxq[i] # 0
          BY <2>1, <1>4, <1>7
      <4> QED BY <4>1 DEF SharesInv
    <3> QED BY <3>1, <3>2, <3>3
  <2>2. CASE a # b
    <3>1. /\ got'[a] = got[a] /\ got[a] \in 1 .. arrived
          /\ Incoming[got[a]].id = Want[a]
          /\ \A k \in 1 .. Len(rxq) : rxq[k] # got[a]
          /\ \A c \in Awaiter : got[c] = got[a] => c = a
        BY <2>2, <1>4, <1>7 DEF SharesInv
    <3>2. \A k \in 1 .. Len(rxq') : rxq'[k] # got'[a]
        BY <3>1, <1>2
    <3>3. \A c \in Awaiter : got'[c] = got'[a] => c = a
        BY <3>1, <1>4
    <3> QED BY <3>1, <3>2, <3>3
  <2> QED BY <2>1, <2>2
<1>8. ASSUME NEW m \in 1 .. arrived'
      PROVE  \/ \E k \in 1 .. Len(rxq') : rxq'[k] = m
             \/ \E a \in Awaiter : got'[a] = m
  <2>1. CASE \E a \in Awaiter : got[a] = m
    <3>1. m # 0
        BY <1>0
    <3> QED BY <2>1, <3>1, <1>4
  <2>2. CASE \E k \in 1 .. Len(rxq) : rxq[k] = m
      BY <2>2, <1>3, <1>4
  <2> QED BY <2>1, <2>2 DEF SharesInv
<1> QED BY <1>5, <1>6, <1>7, <1>8 DEF SharesInv

\* Only the callback moves the cursor and fills the buffer.
LEMMA OnlyCallbackFills ==
    ASSUME [Next]_vars, ~ RxCallback
    PROVE  UNCHANGED <<arrived, part, buffer>>
<1> USE DEF ownerVars, flagVars, rxVars, rxRest, txVars, userVars
<1>1. CASE OwnerStep \/ CallFinalize
    BY <1>1 DEF Owner, OwnerGoes, OwnerStep, Initialize, InitializeFails, AddHandle,
                AddHandleFails, HandshakeReady, HandshakeFails, InitGivesUp,
                RequestShutdown, FlushWaited, LoopWaited, JoinTx, JoinRx,
                CleanupHandles, RemoveSession, CallFinalize
<1>2. CASE TxStep \/ RxStep \/ Connection
    BY <1>2 DEF TxStep, TxStops, TxTakes, TxSends, RxStep, RxHead, RxPublishes,
                RxPerformed, RxWaited, RxReadsInfo, RxEnds, Connection
<1>3. CASE \E w \in Writer : WritePushes(w) \/ WriteEnters(w)
    BY <1>3 DEF WritePushes, WriteEnters
<1>4. CASE \E a \in Awaiter : AwaitEnters(a) \/ AwaitWaited(a) \/ AwaitRetrieves(a)
    BY <1>4 DEF AwaitEnters, AwaitWaited, AwaitRetrieves
<1>5. CASE AllReturned \/ UNCHANGED vars
    BY <1>5 DEF AllReturned, vars
<1> QED BY <1>1, <1>2, <1>3, <1>4, <1>5 DEF Next, NetworkStep, UserStep, UserCall

\* No step loses a message, doubles one or hands it to two awaiters.
LEMMA SharesStep ==
    ASSUME AllFit, SessionType, RivalInv, BufferInv, SharesInv, [Next]_vars
    PROVE  BufferInv' /\ SharesInv'
<1>1. CASE RxCallback
  <2>1. UNCHANGED got
      BY <1>1 DEF RxCallback, userVars
  <2>2. CASE arrived' = arrived /\ rxq' = rxq
      BY <1>1, <2>1, <2>2, CallbackFills DEF SharesInv
  <2>3. CASE arrived' = arrived + 1 /\ rxq' = Append(rxq, arrived + 1)
      BY <1>1, <2>1, <2>3, CallbackFills, SharesAppend
  <2> QED BY <1>1, <2>2, <2>3, CallbackFills
<1>2. CASE ~ RxCallback
  <2>1. BufferInv' /\ UNCHANGED arrived
      BY <1>2, OnlyCallbackFills DEF BufferInv
  <2>2. CASE UNCHANGED <<rxq, got>>
      BY <2>1, <2>2 DEF SharesInv
  <2>3. ASSUME NEW b \in Awaiter, AwaitRetrieves(b), ~ UNCHANGED <<rxq, got>>
        PROVE  SharesInv'
    <3>1. PICK i \in Matching(b) : /\ got' = [got EXCEPT ![b] = rxq[i]]
                                   /\ rxq' = Remove(i)
        BY <2>3 DEF AwaitRetrieves
    <3>2. i \in 1 .. Len(rxq) /\ Incoming[rxq[i]].id = Want[b] /\ got[b] = 0
        BY <2>3 DEF AwaitRetrieves, RivalInv, Matching
    <3> QED BY <3>1, <3>2, <2>1, SharesTake
  <2>4. (\E a \in Awaiter : AwaitEnters(a) \/ AwaitWaited(a)) => UNCHANGED <<rxq, got>>
      BY DEF AwaitEnters, AwaitWaited, rxVars
  <2> QED BY <1>2, <2>1, <2>2, <2>3, <2>4, OthersOnlyAppend
<1> QED BY <1>1, <1>2

\* Every message that the callback has seen whole waits in the deque or went to
\* one awaiter of its id, and only to that one, when all of them fit the buffer.
THEOREM NoMessageLostOrDoubled ==
    ASSUME AllFit
    PROVE  Spec => []MessagesAccounted
<1>1. Init => BufferInv /\ SharesInv
    BY DEF Init, BufferInv, SharesInv
<1>2. SessionType /\ RivalInv /\ BufferInv /\ SharesInv /\ [Next]_vars
        => BufferInv' /\ SharesInv'
    BY SharesStep
<1>3. SessionType /\ SharesInv => MessagesAccounted
  <2> SUFFICES ASSUME SessionType, SharesInv, NEW m \in 1 .. arrived
               PROVE  \/ /\ \E i \in Holders(m) : Holders(m) = {i}
                         /\ Receivers(m) = {}
                      \/ /\ Holders(m) = {}
                         /\ \E a \in Receivers(m) :
                               Receivers(m) = {a} /\ Want[a] = Incoming[m].id
      BY DEF MessagesAccounted
  <2>0. m # 0
      BY SessionAssumption DEF SessionType, CursorType
  <2>1. CASE \E i \in 1 .. Len(rxq) : rxq[i] = m
      BY <2>0, <2>1 DEF SharesInv, Holders, Receivers
  <2>2. CASE \E a \in Awaiter : got[a] = m
      BY <2>0, <2>2 DEF SharesInv, Holders, Receivers
  <2> QED BY <2>1, <2>2 DEF SharesInv
<1> QED BY <1>1, <1>2, <1>3, RivalInvariance, PTL DEF Spec
=============================================================================
