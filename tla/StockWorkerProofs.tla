-------------------------- MODULE StockWorkerProofs --------------------------
(***************************************************************************)
(* Proofs about the plugin's two threads: the mailbox between them, for    *)
(* every set of events, and the socket worker with the callbacks that feed *)
(* it, for any number of connections and packets and any size of the ring. *)
(***************************************************************************)
EXTENDS StockWorker, TLAPS, WellFoundedInduction

-----------------------------------------------------------------------------
(* The mailbox.                                                            *)

\* Before the first decide the slot is free on both sides.
LEMMA MailInvInit == MailInit => MailInv
<1> SUFFICES ASSUME MailInit PROVE MailInv
  OBVIOUS
<1>1. MailTypeOK
  BY ZenonT(30) DEF MailInit, MailTypeOK, Phases, CallerAt, WorkerAt
<1>2. NoLostWake
  BY ZenonT(30) DEF MailInit, NoLostWake
<1> QED BY ZenonT(30), <1>1, <1>2 DEF MailInit, MailInv

\* Every atomic access, buffer access and futex call of either thread keeps
\* the slot's ownership consistent with the phase word.
LEMMA MailInvStep == MailInv /\ [MailNext]_mailVars => MailInv'
<1> SUFFICES ASSUME MailInv, [MailNext]_mailVars PROVE MailInv'
  OBVIOUS
<1> USE EventAssumption DEF MailInv, MailTypeOK, NoLostWake, Phases, CallerAt, WorkerAt,
    callerVars, workerVars
<1>1. ASSUME NEW e \in Events, Enter(e) PROVE MailInv'
  BY ZenonT(30), <1>1 DEF Enter
<1>2. CASE WriteRequest
  BY ZenonT(30), <1>2 DEF WriteRequest
<1>3. CASE PublishRequest
  BY <1>3 DEF PublishRequest
<1>4. CASE Load
  BY <1>4 DEF Load
<1>5. CASE ReadReply
  BY ZenonT(30), <1>5 DEF ReadReply
<1>6. CASE ReleaseSlot
  BY <1>6 DEF ReleaseSlot, Return
<1>7. CASE Abandon
  <2>1. CASE phase = seen
    BY <1>7, <2>1 DEF Abandon, Return
  <2>2. CASE phase # seen
    BY <1>7, <2>2 DEF Abandon
  <2> QED BY ZenonT(30), <2>1, <2>2
<1>8. CASE Sleep
  BY <1>8 DEF Sleep
<1>9. CASE WakeUp
  BY <1>9 DEF WakeUp
<1>10. CASE Expire
  BY <1>10 DEF Expire
<1>11. CASE Take
  BY <1>11 DEF Take
<1>12. CASE Acknowledge
  BY ZenonT(30), <1>12 DEF Acknowledge
<1>13. CASE CopyRequest
  BY <1>13 DEF CopyRequest
<1>14. ASSUME NEW packet \in {taken, NoEvent}, WriteReply(packet) PROVE MailInv'
  BY <1>14 DEF WriteReply
<1>15. CASE PublishReply
  BY <1>15 DEF PublishReply
<1>16. CASE DropReply
  BY ZenonT(30), <1>16 DEF DropReply
<1>17. CASE Wake
  BY <1>17 DEF Wake
<1>18. CASE UNCHANGED mailVars
  BY <1>18 DEF mailVars
<1> QED
  BY ZenonT(30), <1>1, <1>2, <1>3, <1>4, <1>5, <1>6, <1>7, <1>8, <1>9, <1>10, <1>11, <1>12, <1>13,
     <1>14, <1>15, <1>16, <1>17, <1>18
  DEF MailNext, CallerStep, WorkerStep, CompleteStep

\* The slot's ownership follows the phase word at every step (decision_mailbox.hpp).
THEOREM SlotOwnership == MailSpec => []MailInv
BY MailInvInit, MailInvStep, PTL DEF MailSpec

\* The plain buffers are free of data races.
THEOREM NoDataRace == MailSpec => []BuffersUnshared
<1>1. MailInv => BuffersUnshared
  BY DEF MailInv, BuffersUnshared
<1> QED BY <1>1, SlotOwnership, PTL

\* No completed reply is slept over.
THEOREM NoWakeLost == MailSpec => []NoLostWake
<1>1. MailInv => NoLostWake
  BY DEF MailInv
<1> QED BY <1>1, SlotOwnership, PTL

\* decide asks and returns as DecisionSlot allows: every return is the decision
\* on the event asked about, or none.  (That it returns is left to TLC.)
THEOREM MailboxImplementsSlot == MailSpec => Slot!SlotSafety
<1>1. MailInit => Slot!SlotInit
  BY ZenonT(30) DEF MailInit, Slot!SlotInit
<1>2. ASSUME MailInv, [MailNext]_mailVars
      PROVE  [Slot!SlotNext]_(Slot!slotVars)
  <2> USE EventAssumption DEF Slot!SlotNext, Slot!slotVars, callerVars
  <2>1. ASSUME NEW e \in Events, Enter(e) PROVE Slot!Ask(e)
    BY ZenonT(30), <1>2, <2>1 DEF Enter, Slot!Ask, MailInv
  <2>2. CASE ReleaseSlot
    BY ZenonT(30), <1>2, <2>2 DEF ReleaseSlot, Return, Slot!Answer, Slot!GiveUp, MailInv
  <2>3. CASE Abandon
    BY ZenonT(30), <1>2, <2>3 DEF Abandon, Return, Slot!GiveUp, MailInv
  <2>4. CASE WriteRequest \/ PublishRequest \/ Load \/ ReadReply \/ Sleep \/ WakeUp \/ Expire
    BY ZenonT(30), <2>4 DEF WriteRequest, PublishRequest, Load, ReadReply, Sleep, WakeUp, Expire
  <2>5. CASE WorkerStep
    BY ZenonT(30), <2>5 DEF WorkerStep, Take, Acknowledge, CopyRequest, WriteReply, CompleteStep,
       PublishReply, DropReply, Wake
  <2>6. CASE UNCHANGED mailVars
    BY <2>6 DEF mailVars
  <2> QED BY <1>2, <2>1, <2>2, <2>3, <2>4, <2>5, <2>6 DEF MailNext, CallerStep
<1> QED BY <1>1, <1>2, SlotOwnership, PTL DEF MailSpec, Slot!SlotSafety


-----------------------------------------------------------------------------
(* The two threads: what each leaves alone.                                *)

\* The steps of the compositor's thread, and of the clock.
CompositorMoves ==
  \/ Compositor \/ Deadline \/ Callback \/ LoseProof \/ CloseStream \/ DrainRequest \/ Status

\* A callback writes nothing of the worker thread's own.
LEMMA CompositorFrame ==
  ASSUME CompositorMoves
  PROVE  UNCHANGED <<link, conn, accepted, wire, connectionNonce, connectionGeneration,
                     closedGeneration, parked, transactionActive, worker, taken>>
<1>1. CASE InDecide \/ Deadline
  BY ZenonT(30), <1>1 DEF InDecide, Deadline, Expire, CallerStep, WriteRequest, PublishRequest, Load,
     ReadReply, ReleaseSlot, Abandon, Sleep, WakeUp, workerVars, workerSide, linkVars, connVars
<1>2. CASE ~(InDecide \/ Deadline)
  BY ZenonT(30), <1>2 DEF CompositorMoves, Compositor, Callback, Start, LoseProof, CloseStream,
     DrainRequest, Status, BindLook, BindNonce, BindCheck, AfterBinding, Propose, Decide, Enter,
     QueueOutcome, NotifyLoad, NotifyReady, NotifyNonce, Enqueue, Invalidate, RequestClose,
     RetireGeneration, Commit, others, mailOwn, workerVars, workerSide, linkVars, connVars
<1> QED
  BY ZenonT(30), <1>1, <1>2

\* The worker thread writes nothing of a callback's own.
LEMMA SocketFrame ==
  ASSUME SocketWorker
  PROVE  UNCHANGED <<cb, task, lockFirst, heard, heardNonce, note, readyGeneration, nonce, stamp,
                     initialReconciled, parkRequested, retirementGeneration, drain, closeRequested>>
         \/ ClearClose
BY ZenonT(30) DEF SocketWorker, ParkDown, BeginAttempt, ClearClose, DialFails, Authenticate,
   PublishGeneration, PublishReady, CheckClose, CheckPark, Deliver, DeliveryFails, RingEmpty,
   TakeEvent, PollIdle, FreeAbandoned, BeginTransaction, Exchange, Complete, EndTransaction,
   ClearReady, CloseSocket, Jump, env, compositorSide, cbVars, bindVars, parkVars, flags

-----------------------------------------------------------------------------
(* The types, one variable at a time.                                      *)

WorkerSideTypes ==
  /\ link \in LinkAt
  /\ conn \in Generations /\ connectionNonce \in Generations /\ connectionGeneration \in Generations
  /\ closedGeneration \in Generations
  /\ accepted \in BOOLEAN /\ parked \in BOOLEAN /\ transactionActive \in BOOLEAN

CallbackTypes ==
  /\ cb \in CallbackAt /\ task \in Tasks
  /\ heard \in Generations /\ heardNonce \in Generations
  /\ readyGeneration \in Generations /\ nonce \in Generations /\ retirementGeneration \in Generations
  /\ lockFirst \in BOOLEAN /\ initialReconciled \in BOOLEAN /\ parkRequested \in BOOLEAN
  /\ note \in Packets \cup {NoEvent}
  /\ stamp \in 0..MaxStamp
  /\ drain \in {"Running", "Draining", "Detached"}

FlagTypes == ready \in BOOLEAN /\ closeRequested \in BOOLEAN

RingTypes ==
  /\ notifications \in Seq(Packets \X Generations) /\ Len(notifications) <= RingSize
  /\ wire \in Seq(Packets)

\* WorkerTypeOK, taken apart.
LEMMA TypesApart ==
  WorkerTypeOK <=> MailTypeOK /\ WorkerSideTypes /\ CallbackTypes /\ FlagTypes /\ RingTypes
BY ZenonT(60) DEF WorkerTypeOK, WorkerSideTypes, CallbackTypes, FlagTypes, RingTypes

\* And put together again after a step.
LEMMA TypesTogether ==
  ASSUME MailTypeOK', WorkerSideTypes', CallbackTypes', FlagTypes', RingTypes'
  PROVE  WorkerTypeOK'
BY ZenonT(60) DEF WorkerTypeOK, WorkerSideTypes, CallbackTypes, FlagTypes, RingTypes

-----------------------------------------------------------------------------
(* The worker thread's own state.                                          *)

\* The worker's place and what it has published of its connection move together.
LEMMA LinkStep ==
  ASSUME WorkerSideTypes, FlagTypes, LinkAgrees, SocketWorker
  PROVE  /\ LinkAgrees'
         /\ link' \in LinkAt
         /\ conn' \in Generations /\ connectionNonce' \in Generations
         /\ connectionGeneration' \in Generations /\ closedGeneration' \in Generations
         /\ connectionGeneration <= connectionGeneration'
         /\ link = "named" => link' = "named" \/ connectionGeneration < connectionGeneration'
<1> USE BoundAssumption DEF WorkerSideTypes, FlagTypes, LinkAgrees, Generations, LinkAt, Connected
<1>1. CASE Authenticate
  BY <1>1 DEF Authenticate, env, flags
<1>2. CASE PublishGeneration
  BY <1>2 DEF PublishGeneration, locals, env, flags
<1>3. CASE PublishReady
  BY <1>3 DEF PublishReady, locals, sockets, connVars
<1>4. CASE ClearReady
  BY <1>4 DEF ClearReady, locals, sockets, connVars
<1>5. CASE CloseSocket
  BY <1>5 DEF CloseSocket, locals, env, flags
<1>6. CASE UNCHANGED <<conn, connVars, ready>> /\ link = link'
  BY <1>6 DEF connVars
<1>7. CASE /\ UNCHANGED <<conn, connVars, ready>>
           /\ \/ link \in Connected /\ link' \in Connected
              \/ link = "top" /\ link' = "begin"
              \/ link = "begin" /\ link' = "dial"
              \/ link = "dial" /\ link' = "top"
  BY <1>7 DEF connVars
<1> HIDE DEF WorkerSideTypes, FlagTypes, LinkAgrees, Generations, LinkAt
<1> QED
  BY ZenonT(30), <1>1, <1>2, <1>3, <1>4, <1>5, <1>6, <1>7
  DEF SocketWorker, ParkDown, BeginAttempt, ClearClose, DialFails, CheckClose, CheckPark, Deliver,
      DeliveryFails, RingEmpty, TakeEvent, PollIdle, FreeAbandoned, BeginTransaction, Exchange,
      Complete, EndTransaction, Jump, locals, sockets, linkVars, workerSide, env, flags

\* What is left of the worker thread's types.
LEMMA SocketTypes ==
  ASSUME WorkerSideTypes, FlagTypes, LinkAgrees, SocketWorker
  PROVE  WorkerSideTypes' /\ FlagTypes'
<1>1. accepted' \in BOOLEAN /\ parked' \in BOOLEAN /\ transactionActive' \in BOOLEAN
  BY ZenonT(30) DEF WorkerSideTypes, SocketWorker, ParkDown, BeginAttempt, ClearClose, DialFails,
     Authenticate, PublishGeneration, PublishReady, CheckClose, CheckPark, Deliver, DeliveryFails,
     RingEmpty, TakeEvent, PollIdle, FreeAbandoned, BeginTransaction, Exchange, Complete,
     EndTransaction, ClearReady, CloseSocket, Jump, locals, sockets, linkVars, workerSide
<1>2. ready' \in BOOLEAN /\ closeRequested' \in BOOLEAN
  BY ZenonT(30) DEF FlagTypes, SocketWorker, ParkDown, BeginAttempt, ClearClose, DialFails,
     Authenticate, PublishGeneration, PublishReady, CheckClose, CheckPark, Deliver, DeliveryFails,
     RingEmpty, TakeEvent, PollIdle, FreeAbandoned, BeginTransaction, Exchange, Complete,
     EndTransaction, ClearReady, CloseSocket, Jump, env, flags
<1> QED
  BY ZenonT(30), <1>1, <1>2, LinkStep DEF WorkerSideTypes, FlagTypes

\* Every step of either thread is one of the mailbox, or leaves it alone.
LEMMA MailMoves ==
  ASSUME Next, cb = "decide" => [nonce |-> nonce, stamp |-> stamp + 1] \in Events
  PROVE  [MailNext]_mailVars
<1>1. CASE UNCHANGED mailOwn
  BY ZenonT(30), <1>1 DEF mailOwn, mailVars
<1>2. CASE TakeEvent \/ FreeAbandoned \/ BeginTransaction \/ Exchange \/ Complete
  BY ZenonT(30), <1>2 DEF TakeEvent, FreeAbandoned, BeginTransaction, Exchange, Complete, MailNext, WorkerStep
<1>3. CASE InDecide \/ Deadline
  BY ZenonT(30), <1>3 DEF InDecide, Deadline, MailNext
<1>4. CASE Decide
  BY ZenonT(30), <1>1, <1>4 DEF Decide, MailNext
<1> QED
  BY ZenonT(30), <1>1, <1>2, <1>3, <1>4
  DEF Next, SocketWorker, ParkDown, BeginAttempt, ClearClose, DialFails, Authenticate,
      PublishGeneration, PublishReady, CheckClose, CheckPark, Deliver, DeliveryFails, RingEmpty,
      PollIdle, EndTransaction, ClearReady, CloseSocket, Jump, Compositor, Callback, Start,
      LoseProof, CloseStream, DrainRequest, Status, BindLook, BindNonce, BindCheck, AfterBinding,
      Propose, QueueOutcome, NotifyLoad, NotifyReady, NotifyNonce, Enqueue, Invalidate, RequestClose,
      RetireGeneration, Commit, others

\* The worker is inside the mailbox only where its loop is, and never with an empty request.
LEMMA TransactionStep ==
  ASSUME MailInv, TransactionAgrees, Next
  PROVE  TransactionAgrees'
<1> USE EventAssumption DEF TransactionAgrees
<1>1. CASE TakeEvent
  BY ZenonT(30), <1>1 DEF TakeEvent, Take, MailInv, MailTypeOK, CallerAt, Phases, workerSide, linkVars, callerVars
<1>2. CASE FreeAbandoned
  BY ZenonT(30), <1>2 DEF FreeAbandoned, Acknowledge, sockets
<1>3. CASE BeginTransaction
  BY ZenonT(30), <1>3 DEF BeginTransaction, CopyRequest, callerVars
<1>4. CASE Exchange
  BY ZenonT(30), <1>4 DEF Exchange, WriteReply, sockets
<1>5. CASE Complete
  BY ZenonT(30), <1>5 DEF Complete, CompleteStep, PublishReply, DropReply, Wake, sockets
<1>6. CASE EndTransaction
  BY ZenonT(30), <1>6 DEF EndTransaction, mailOwn, workerVars
<1>7. CASE CompositorMoves
  <2>1. UNCHANGED <<link, transactionActive, worker, taken>>
    BY ZenonT(30), <1>7, CompositorFrame
  <2>2. request' = request \/ WriteRequest
    BY ZenonT(30), <1>7
    DEF CompositorMoves, Compositor, InDecide, Deadline, Expire, CallerStep, PublishRequest, Load,
        ReadReply, ReleaseSlot, Abandon, Sleep, WakeUp, Callback, Start, LoseProof, CloseStream,
        DrainRequest, Status, BindLook, BindNonce, BindCheck, AfterBinding, Propose, Decide, Enter,
        QueueOutcome, NotifyLoad, NotifyReady, NotifyNonce, Enqueue, Invalidate, RequestClose,
        RetireGeneration, Commit, others, mailOwn
  <2>3. WriteRequest => request' # NoEvent
    BY ZenonT(30) DEF WriteRequest, MailInv
  <2> QED
    BY ZenonT(30), <2>1, <2>2, <2>3
<1>8. CASE /\ UNCHANGED <<transactionActive, worker, taken, request>>
           /\ \/ link' = link
              \/ /\ link \notin {"exchange", "settled"} /\ link' \notin {"exchange", "settled"}
                 /\ link = "take" => worker = "free"
  BY ZenonT(30), <1>8 DEF MailInv, MailTypeOK, WorkerAt
<1> QED
  BY ZenonT(30), <1>1, <1>2, <1>3, <1>4, <1>5, <1>6, <1>7, <1>8
  DEF Next, SocketWorker, CompositorMoves, ParkDown, BeginAttempt, ClearClose, DialFails,
      Authenticate, PublishGeneration, PublishReady, CheckClose, CheckPark, Deliver, DeliveryFails,
      RingEmpty, PollIdle, ClearReady, CloseSocket, Jump, locals, sockets, linkVars, workerSide,
      mailOwn, workerVars, env

-----------------------------------------------------------------------------
(* The compositor's thread.                                                *)

\* A callback may only withdraw readiness, which leaves the link's account true.
LEMMA LinkUnderCallbacks ==
  ASSUME FlagTypes, LinkAgrees, CompositorMoves
  PROVE  LinkAgrees' /\ FlagTypes'
<1>1. (ready' = ready \/ ready' = FALSE) /\ (closeRequested' = closeRequested \/ closeRequested' = TRUE)
  BY ZenonT(30) DEF CompositorMoves, Compositor, InDecide, Deadline, Callback, Start, LoseProof,
     CloseStream, DrainRequest, Status, BindLook, BindNonce, BindCheck, AfterBinding, Propose, Decide,
     QueueOutcome, NotifyLoad, NotifyReady, NotifyNonce, Enqueue, Invalidate, RequestClose,
     RetireGeneration, Commit, others, env, flags
<1>2. UNCHANGED <<link, conn, connectionNonce, connectionGeneration>>
  BY ZenonT(30), CompositorFrame
<1>3. /\ (connectionNonce = conn)'
      /\ (conn = IF link = "named" THEN connectionGeneration + 1 ELSE connectionGeneration)'
      /\ (link \in Connected \cup {"named", "numbered"} => conn # 0)'
  BY ZenonT(30), <1>2 DEF LinkAgrees
<1>4. (ready => link \in Connected)'
  BY ZenonT(30), <1>1, <1>2 DEF LinkAgrees
<1> QED
  BY ZenonT(30), <1>1, <1>3, <1>4 DEF LinkAgrees, FlagTypes

\* What a callback knows of its binding, its room and the drain.
CallbackInv ==
  /\ CallbackTypes /\ BoundAsPair /\ BindingAgrees /\ RoomAgrees /\ DrainAgrees

\* The packet a bound callback makes next is a packet.
LEMMA NextPacket ==
  ASSUME CallbackTypes, nonce # 0, stamp < MaxStamp
  PROVE  /\ [nonce |-> nonce, stamp |-> stamp + 1] \in Packets
         /\ [nonce |-> nonce, stamp |-> stamp + 1] # NoEvent
<1>1. nonce \in 1..MaxGeneration /\ stamp + 1 \in 1..MaxStamp
  BY BoundAssumption DEF CallbackTypes, Generations
<1>2. [nonce |-> nonce, stamp |-> stamp + 1] \in Packets
  BY ZenonT(30), <1>1 DEF Packets
<1> QED
  BY ZenonT(30), <1>2, PacketAssumption, EventAssumption

\* The binding read in two halves is a pair once the generation is found unmoved.
LEMMA BindStep ==
  ASSUME WorkerSideTypes, LinkAgrees, CallbackInv, BindLook \/ BindNonce \/ BindCheck
  PROVE  CallbackInv'
<1> USE BoundAssumption
    DEF WorkerSideTypes, LinkAgrees, CallbackInv, CallbackTypes, BoundAsPair, BindingAgrees,
        RoomAgrees, DrainAgrees, Generations, CallbackAt, Notifying, Connected
<1>1. CASE BindLook
  <2>1. /\ cb = "bind"
        /\ UNCHANGED <<task, lockFirst, heardNonce, note, readyGeneration, nonce, stamp, caller, drain,
                       parkRequested, retirementGeneration, notifications, connectionGeneration>>
    BY ZenonT(30), <1>1 DEF BindLook, others, mailOwn, callerVars, workerSide, connVars, parkVars, binding
  <2>2. CASE cb' = "bindNonce" /\ heard' = connectionGeneration /\ initialReconciled' = initialReconciled
             /\ ready
    BY <2>1, <2>2
  <2>3. CASE cb' = "unbound" /\ heard' = heard /\ initialReconciled' = FALSE
    BY ZenonT(30), <2>1, <2>3
  <2> QED
    BY ZenonT(30), <1>1, <2>2, <2>3 DEF BindLook
<1>2. CASE BindNonce
  BY <1>2 DEF BindNonce, others, mailOwn, callerVars, workerSide, linkVars, connVars, parkVars, bindVars
<1>3. CASE BindCheck
  <2>1. /\ cb = "bindCheck"
        /\ UNCHANGED <<task, lockFirst, heard, heardNonce, note, caller, drain, parkRequested,
                       retirementGeneration, notifications, connectionGeneration>>
    BY ZenonT(30), <1>3 DEF BindCheck, others, mailOwn, callerVars, workerSide, connVars, parkVars
  <2>2. CASE cb' = "unbound" /\ UNCHANGED bindVars
    BY ZenonT(30), <2>1, <2>2 DEF bindVars
  <2>3. CASE cb' = "bound" /\ heard = readyGeneration /\ UNCHANGED bindVars
    BY ZenonT(30), <2>1, <2>3 DEF bindVars
  <2>4. CASE /\ ready /\ heard = connectionGeneration
             /\ cb' = "bound" /\ readyGeneration' = heard /\ nonce' = heardNonce /\ stamp' = 0
             /\ initialReconciled' = FALSE
    <3>1. link # "named" /\ heard # 0 /\ ~(heard < connectionGeneration)
      BY <2>1, <2>4
    <3>2. heardNonce = heard
      BY ZenonT(30), <2>1, <3>1
    <3>3. CallbackTypes' /\ BoundAsPair'
      <4>1. BoundAsPair'
        BY ZenonT(30), <2>4, <3>2
      <4>2. 0 \in 0..MaxStamp
        OBVIOUS
      <4>3. CallbackTypes'
        BY ZenonT(30), <2>1, <2>4, <4>2
      <4> QED BY ZenonT(30), <4>1, <4>3
    <3>4. BindingAgrees' /\ RoomAgrees' /\ DrainAgrees'
      BY ZenonT(30), <2>1, <2>4, <3>1, <3>2
    <3> QED
      BY ZenonT(30), <3>3, <3>4
  <2> QED
    BY ZenonT(30), <1>3, <2>2, <2>3, <2>4 DEF BindCheck, StillCurrent
<1> QED
  BY ZenonT(30), <1>1, <1>2, <1>3

\* What every step of a callback outside ensureConnectionBinding leaves alone.
BindingKept ==
  UNCHANGED <<heardNonce, readyGeneration, nonce, parkRequested, retirementGeneration, drain, caller>>

\* A bound callback hands notify its next packet.
LEMMA EmitStep ==
  ASSUME CallbackInv, NEW t \in Tasks, NEW lock \in BOOLEAN, Emit(t, lock), BindingKept,
         heard' = heard, initialReconciled' = initialReconciled,
         nonce # 0, drain = "Running", caller = "out", t # "status",
         t = "key" => stamp + 3 <= MaxStamp
  PROVE  CallbackInv'
<1>1. /\ stamp' = stamp + 1 /\ stamp < MaxStamp
      /\ note' \in Packets /\ note' # NoEvent
      /\ task' = t /\ lockFirst' = lock /\ cb' = "notify"
  BY ZenonT(30), NextPacket DEF CallbackInv, Emit
<1>2. stamp' \in 0..MaxStamp /\ (t = "key" => stamp' + 2 <= MaxStamp)
  BY <1>1, BoundAssumption DEF CallbackInv, CallbackTypes
<1>3. CallbackTypes'
  BY ZenonT(30), <1>1, <1>2 DEF CallbackInv, CallbackTypes, BindingKept, CallbackAt
<1>4. BoundAsPair' /\ BindingAgrees'
  BY ZenonT(30), <1>1 DEF CallbackInv, BoundAsPair, BindingAgrees, BindingKept
<1>5. RoomAgrees' /\ DrainAgrees'
  BY ZenonT(30), <1>1, <1>2 DEF CallbackInv, RoomAgrees, DrainAgrees, BindingKept, Notifying
<1> QED
  BY ZenonT(30), <1>3, <1>4, <1>5 DEF CallbackInv

\* A callback goes on elsewhere, with the room it checked for.
LEMMA GotoStep ==
  ASSUME CallbackInv, NEW at \in CallbackAt, Goto(at), BindingKept, heard' \in Generations,
         initialReconciled' \in BOOLEAN, initialReconciled' => nonce # 0,
         drain = "Running", caller = "out",
         at \notin {"bindNonce", "bindCheck", "deciding", "notify", "bound", "retire", "commit"},
         at = "decide" => stamp + 2 <= MaxStamp /\ nonce # 0,
         at \in Notifying => cb \in Notifying,
         at \in {"notifyNonce", "enqueue"} => Len(notifications') < RingSize
  PROVE  CallbackInv'
<1>1. cb' = at /\ UNCHANGED <<task, lockFirst, note, stamp>>
  BY ZenonT(30) DEF Goto
<1>3. CallbackTypes'
  BY ZenonT(30), <1>1 DEF CallbackInv, CallbackTypes, BindingKept
<1>4. BoundAsPair' /\ BindingAgrees'
  BY ZenonT(30), <1>1 DEF CallbackInv, BoundAsPair, BindingAgrees, BindingKept, CallbackAt, Notifying
<1>5. RoomAgrees' /\ DrainAgrees'
  BY ZenonT(30), <1>1 DEF CallbackInv, RoomAgrees, DrainAgrees, BindingKept, Notifying
<1> QED
  BY ZenonT(30), <1>3, <1>4, <1>5 DEF CallbackInv

\* Inside a callback, past its beginning, no drain has begun and nothing waits in the mailbox.
LEMMA CallbackUnderWay ==
  ASSUME CallbackInv, cb \in Notifying \cup {"bind", "bindNonce", "bindCheck", "bound", "unbound",
                                           "propose", "decide"}
  PROVE  drain = "Running" /\ caller = "out"
BY ZenonT(30) DEF CallbackInv, DrainAgrees, Notifying

\* What each callback does once it knows whether it is bound keeps what it knows.
LEMMA AfterBindingStep ==
  ASSUME CallbackInv, AfterBinding \/ Propose \/ QueueOutcome
  PROVE  CallbackInv'
<1>1. BindingKept /\ heard' = heard /\ heard \in Generations /\ heard' \in Generations
  BY ZenonT(30) DEF AfterBinding, Propose, QueueOutcome, BindingKept, binding, others, mailOwn,
     callerVars, parkVars, CallbackInv, CallbackTypes
<1>2. drain = "Running" /\ caller = "out"
  BY ZenonT(30) DEF AfterBinding, Propose, QueueOutcome, CallbackInv, DrainAgrees
<1>3. (initialReconciled => nonce # 0) /\ initialReconciled \in BOOLEAN /\ task \in Tasks
  BY ZenonT(30) DEF CallbackInv, BindingAgrees, CallbackTypes
<1>4. CASE /\ \E t \in Tasks : t # "key" /\ t # "status" /\ \E lock \in BOOLEAN : Emit(t, lock)
           /\ initialReconciled' = initialReconciled /\ nonce # 0
  BY ZenonT(30), <1>1, <1>2, <1>4, EmitStep
<1>5. CASE Emit("key", TRUE) /\ stamp + 3 <= MaxStamp /\ initialReconciled' = initialReconciled /\ nonce # 0
  <2>1. "key" \in Tasks /\ "key" # "status" /\ TRUE \in BOOLEAN
    BY ZenonT(30) DEF Tasks
  <2> QED
    BY ZenonT(30), <1>1, <1>2, <1>5, <2>1, EmitStep
<1>6. CASE /\ Goto("idle") \/ Goto("propose") \/ Goto("invalidate")
           /\ initialReconciled' = initialReconciled \/ initialReconciled' = FALSE
  <2>1. PICK at \in {"idle", "propose", "invalidate"} : Goto(at)
    BY ZenonT(30), <1>6
  <2>2. /\ at \in CallbackAt /\ at \notin {"bindNonce", "bindCheck", "deciding", "notify", "bound", "retire", "commit"}
        /\ at # "decide" /\ at \notin Notifying /\ at \notin {"notifyNonce", "enqueue"}
    BY ZenonT(30) DEF CallbackAt, Notifying
  <2>3. initialReconciled' \in BOOLEAN /\ (initialReconciled' => nonce # 0)
    <3>1. CASE initialReconciled' = initialReconciled
      BY ZenonT(30), <1>3, <3>1
    <3>2. CASE initialReconciled' = FALSE
      BY ZenonT(30), <3>2
    <3> QED
      BY ZenonT(30), <1>6, <3>1, <3>2
  <2> QED
    BY ZenonT(30), <1>1, <1>2, <2>1, <2>2, <2>3, GotoStep
<1>7. CASE Goto("decide") /\ stamp + 2 <= MaxStamp /\ initialReconciled' = initialReconciled /\ nonce # 0
  <2>1. /\ "decide" \in CallbackAt
        /\ "decide" \notin {"bindNonce", "bindCheck", "deciding", "notify", "bound", "retire", "commit"}
        /\ "decide" \notin Notifying /\ "decide" \notin {"notifyNonce", "enqueue"}
    BY ZenonT(30) DEF CallbackAt, Notifying
  <2> QED
    BY ZenonT(30), <1>1, <1>2, <1>3, <1>7, <2>1, GotoStep
<1>8. CASE /\ cb' = "bind" /\ task' = "change" /\ UNCHANGED <<lockFirst, note, stamp>>
           /\ initialReconciled' = FALSE
  BY ZenonT(30), <1>1, <1>2, <1>8
  DEF CallbackInv, CallbackTypes, BoundAsPair, BindingAgrees, RoomAgrees, DrainAgrees, BindingKept,
      CallbackAt, Tasks, Notifying
<1>9. CASE AfterBinding
  <2>1. cb = "bound" => nonce # 0
    BY ZenonT(30) DEF CallbackInv, BindingAgrees
  <2>2. CASE task = "key"
    <3>1. CASE Goto("propose") /\ initialReconciled' = initialReconciled
      BY ZenonT(30), <1>6, <3>1
    <3>2. CASE /\ cb = "bound" /\ (\E lock \in BOOLEAN : Emit("boundary", lock))
               /\ initialReconciled' = initialReconciled
      BY ZenonT(30), <1>4, <2>1, <3>2 DEF Tasks
    <3> QED
      BY ZenonT(30), <1>9, <2>2, <3>1, <3>2 DEF AfterBinding
  <2>3. CASE /\ task = "focus" \/ task = "change"
             /\ cb = "bound" /\ (\E lock \in BOOLEAN : Emit(task, lock))
             /\ initialReconciled' = initialReconciled
    <3>1. task # "key" /\ task # "status"
      BY ZenonT(30), <2>3
    <3> QED
      BY ZenonT(30), <1>3, <1>4, <2>1, <2>3, <3>1
  <2>4. CASE /\ task = "focus" \/ task = "change"
             /\ Goto(IF task = "focus" THEN "idle" ELSE "invalidate")
             /\ initialReconciled' = initialReconciled
    <3>1. Goto("idle") \/ Goto("invalidate")
      BY ZenonT(30), <2>4
    <3> QED
      BY ZenonT(30), <1>6, <2>4, <3>1
  <2>5. CASE Goto("idle") /\ initialReconciled' = FALSE
    BY ZenonT(30), <1>6, <2>5
  <2> QED
    BY ZenonT(30), <1>8, <1>9, <2>2, <2>3, <2>4, <2>5 DEF AfterBinding
<1>10. CASE Propose
  BY ZenonT(30), <1>3, <1>5, <1>6, <1>7, <1>10 DEF Propose
<1>11. CASE QueueOutcome
  <2>1. nonce # 0
    BY ZenonT(30), <1>11 DEF QueueOutcome, CallbackInv, BindingAgrees
  <2>2. "outcome" \in Tasks /\ "outcome" # "key" /\ "outcome" # "status" /\ FALSE \in BOOLEAN
    BY ZenonT(30) DEF Tasks
  <2> QED
    BY ZenonT(30), <1>4, <1>11, <2>1, <2>2 DEF QueueOutcome
<1> QED
  BY ZenonT(30), <1>9, <1>10, <1>11

\* notify, whether it queues the packet or not, and what the callback does next.
LEMMA NotifyStep ==
  ASSUME CallbackInv, NotifyReady \/ NotifyNonce \/ Enqueue
  PROVE  CallbackInv'
<1>1. BindingKept /\ heard' = heard /\ heard \in Generations /\ heard' \in Generations
  BY ZenonT(30) DEF NotifyReady, NotifyNonce, Enqueue, BindingKept, binding, others, mailOwn,
     callerVars, parkVars, CallbackInv, CallbackTypes
<1>2. /\ cb \in Notifying /\ drain = "Running" /\ caller = "out"
      /\ cb = "notifyNonce" => Len(notifications) < RingSize
  BY ZenonT(30), CallbackUnderWay DEF NotifyReady, NotifyNonce, Enqueue, Notifying, CallbackInv, RoomAgrees
<1>3. /\ initialReconciled \in BOOLEAN /\ task \in Tasks /\ task # "status" /\ nonce # 0
      /\ task = "key" => stamp + 2 <= MaxStamp
  BY ZenonT(30), <1>2 DEF CallbackInv, BindingAgrees, CallbackTypes, RoomAgrees, DrainAgrees
<1>4. CASE \E ok \in BOOLEAN : Notified(ok)
  <2>1. PICK ok \in BOOLEAN : Notified(ok)
    BY ZenonT(30), <1>4
  <2>2. CASE task = "key" /\ cb' = "decide" /\ lockFirst' = FALSE /\ UNCHANGED <<task, note, stamp, initialReconciled>>
    BY ZenonT(30), <1>1, <1>2, <1>3, <2>2
    DEF CallbackInv, CallbackTypes, BoundAsPair, BindingAgrees, RoomAgrees, DrainAgrees, BindingKept,
        CallbackAt, Notifying
  <2>3. CASE task # "key" /\ Emit(task, FALSE) /\ initialReconciled' = initialReconciled
    <3>1. FALSE \in BOOLEAN
      OBVIOUS
    <3> QED
      BY ZenonT(30), <1>1, <1>2, <1>3, <2>3, <3>1, EmitStep
  <2>4. CASE /\ initialReconciled' = IF task = "boundary" THEN ok ELSE initialReconciled
             /\ \E at \in {"idle", "propose", "invalidate"} : Goto(at)
    <3>1. PICK at \in {"idle", "propose", "invalidate"} : Goto(at)
      BY ZenonT(30), <2>4
    <3>2. /\ at \in CallbackAt /\ at \notin {"bindNonce", "bindCheck", "deciding", "notify", "bound", "retire", "commit"}
          /\ at # "decide" /\ at \notin Notifying /\ at \notin {"notifyNonce", "enqueue"}
      BY ZenonT(30) DEF CallbackAt, Notifying
    <3>3. initialReconciled' \in BOOLEAN
      BY ZenonT(30), <1>3, <2>4
    <3> QED
      BY ZenonT(30), <1>1, <1>2, <1>3, <3>1, <3>2, <3>3, GotoStep
  <2>5. (CASE task = "boundary" -> "propose"
           [] task \in {"change", "outcome"} /\ ~ok -> "invalidate"
           [] OTHER -> "idle") \in {"idle", "propose", "invalidate"}
    OBVIOUS
  <2> QED
    BY ZenonT(30), <2>1, <2>2, <2>3, <2>4, <2>5 DEF Notified
<1>5. CASE /\ Goto("notifyNonce") \/ Goto("enqueue")
           /\ Len(notifications') < RingSize /\ initialReconciled' = initialReconciled
  <2>1. PICK at \in {"notifyNonce", "enqueue"} : Goto(at)
    BY ZenonT(30), <1>5
  <2>2. /\ at \in CallbackAt /\ at \notin {"bindNonce", "bindCheck", "deciding", "notify", "bound", "retire", "commit"}
        /\ at # "decide"
    BY ZenonT(30) DEF CallbackAt
  <2> QED
    BY ZenonT(30), <1>1, <1>2, <1>3, <1>5, <2>1, <2>2, GotoStep
<1>6. CASE NotifyReady
  <2>1. notifications' = notifications
    BY ZenonT(30), <1>6 DEF NotifyReady, others
  <2>2. CASE Room /\ Goto("notifyNonce") /\ initialReconciled' = initialReconciled
    BY ZenonT(30), <1>5, <2>1, <2>2 DEF Room
  <2> QED
    BY ZenonT(30), <1>4, <1>6, <2>2 DEF NotifyReady
<1>7. CASE NotifyNonce
  <2>1. notifications' = notifications /\ cb = "notifyNonce"
    BY ZenonT(30), <1>7 DEF NotifyNonce, others
  <2>2. CASE Goto("enqueue") /\ initialReconciled' = initialReconciled
    BY ZenonT(30), <1>2, <1>5, <2>1, <2>2
  <2> QED
    BY ZenonT(30), <1>4, <1>7, <2>2 DEF NotifyNonce
<1>8. CASE Enqueue
  BY ZenonT(30), <1>4, <1>8 DEF Enqueue
<1> QED
  BY ZenonT(30), <1>6, <1>7, <1>8

\* The other steps of a callback, the drain's and the mailbox's.
LEMMA OtherCallbackStep ==
  ASSUME WorkerSideTypes, CallbackInv,
         \/ InDecide \/ Deadline \/ Decide \/ NotifyLoad \/ LoseProof \/ DrainRequest
         \/ Invalidate \/ RequestClose \/ CloseStream \/ Callback
         \/ Status \/ RetireGeneration \/ Commit
  PROVE  CallbackInv'
<1>0. /\ connectionGeneration \in Generations
      /\ cb \in {"decide"} \cup Notifying => drain = "Running" /\ caller = "out" /\ nonce # 0
      /\ cb = "decide" => stamp + 2 <= MaxStamp /\ stamp + 1 \in 0..MaxStamp
  BY BoundAssumption DEF WorkerSideTypes, CallbackInv, CallbackTypes, DrainAgrees, BindingAgrees, RoomAgrees, Notifying
<1> USE DEF CallbackInv, CallbackTypes, BoundAsPair, BindingAgrees, RoomAgrees, DrainAgrees,
            CallbackAt, Tasks, Notifying
<1>1. CASE InDecide \/ Deadline
  <2>1. UNCHANGED env /\ (caller' # "out" => caller # "out")
    BY ZenonT(30), <1>1 DEF InDecide, Deadline, Expire, env, flags, CallerStep, WriteRequest, PublishRequest, Load,
     ReadReply, ReleaseSlot, Return, Abandon, Sleep, WakeUp, callerVars
  <2>2. UNCHANGED connectionGeneration /\ UNCHANGED link
    BY ZenonT(30), <1>1 DEF InDecide, Deadline, workerSide, connVars, linkVars
  <2> QED
    BY <2>1, <2>2 DEF env, compositorSide, cbVars, bindVars, parkVars
<1>2. CASE Decide
  BY ZenonT(30), <1>0, <1>2 DEF Decide, binding, parkVars
<1>3. CASE NotifyLoad
  BY ZenonT(30), <1>0, <1>3 DEF NotifyLoad, others, mailOwn, callerVars, parkVars, bindVars
<1>4. CASE LoseProof
  BY ZenonT(30), <1>4 DEF LoseProof, others, mailOwn, callerVars, parkVars, cbVars, binding
<1>5. CASE DrainRequest
  BY ZenonT(30), <1>5 DEF DrainRequest, mailOwn, callerVars, parkVars, cbVars, binding
<1>6. CASE Invalidate
  BY ZenonT(30), <1>6 DEF Invalidate, mailOwn, callerVars, parkVars, binding
<1>7. CASE RequestClose
  BY <1>7 DEF RequestClose, mailOwn, callerVars, parkVars, bindVars
<1>8. CASE CloseStream
  BY ZenonT(30), <1>8 DEF CloseStream, others, mailOwn, callerVars, parkVars, bindVars
<1>9. CASE Callback
  BY ZenonT(30), <1>9 DEF Callback, Start, others, mailOwn, callerVars, parkVars, binding
<1>10. CASE Status
  BY ZenonT(30), <1>0, <1>10 DEF Status, mailOwn, callerVars, bindVars
<1>11. CASE RetireGeneration
  BY ZenonT(30), <1>11 DEF RetireGeneration, mailOwn, callerVars, bindVars
<1>12. CASE Commit
  <2>1. /\ cb = "commit" /\ cb' = "idle"
        /\ UNCHANGED <<caller, task, lockFirst, heard, heardNonce, note, readyGeneration, nonce, stamp,
                       initialReconciled, parkRequested, retirementGeneration>>
    BY ZenonT(30), <1>12 DEF Commit, mailOwn, callerVars, parkVars, bindVars
  <2>2. CASE drain' = drain
    BY ZenonT(30), <2>1, <2>2
  <2>3. CASE drain' = "Detached"
    BY ZenonT(30), <2>1, <2>3
  <2> QED
    BY ZenonT(30), <1>12, <2>2, <2>3 DEF Commit
<1> QED
  BY ZenonT(30), <1>1, <1>2, <1>3, <1>4, <1>5, <1>6, <1>7, <1>8, <1>9, <1>10, <1>11, <1>12

-----------------------------------------------------------------------------
(* The ring and the wire.                                                  *)

\* A nonempty set of naturals has a least member.
LEMMA LeastNatural ==
  ASSUME NEW T, T \subseteq Nat, T # {}
  PROVE  \E i \in T : \A j \in T : i <= j
<1>1. \E x \in T : \A y \in T : ~(<<y, x>> \in OpToRel(<, Nat))
  BY ZenonT(30), NatLessThanWellFounded, WFMin
<1>2. \A x, y \in Nat : ~(<<y, x>> \in OpToRel(<, Nat)) => x <= y
  BY DEF OpToRel
<1> QED
  BY ZenonT(30), <1>1, <1>2

\* Settling the retired receipts only takes entries off the front of the ring.
LEMMA RetirementShrinks ==
  ASSUME NEW S, NEW ring \in Seq(S), NEW generation
  PROVE  /\ AfterRetirement(ring, generation) \in Seq(S)
         /\ Len(AfterRetirement(ring, generation)) <= Len(ring)
         /\ ring = <<>> => AfterRetirement(ring, generation) = <<>>
<1> DEFINE keeps == {i \in 1..Len(ring) : ring[i][2] # generation}
           first == IF keeps = {} THEN Len(ring) + 1 ELSE CHOOSE i \in keeps : \A j \in keeps : i <= j
<1>1. first \in 1..(Len(ring) + 1)
  <2>1. CASE keeps = {}
    BY <2>1
  <2>2. CASE keeps # {}
    <3>1. keeps \subseteq Nat
      OBVIOUS
    <3>2. \E i \in keeps : \A j \in keeps : i <= j
      BY ZenonT(30), <2>2, <3>1, LeastNatural
    <3>3. first \in keeps
      BY ZenonT(30), <2>2, <3>2
    <3>4. keeps \subseteq 1..(Len(ring) + 1)
      OBVIOUS
    <3> QED
      BY ZenonT(30), <3>3, <3>4
  <2> QED
    BY ZenonT(30), <2>1, <2>2
<1>2. AfterRetirement(ring, generation) = SubSeq(ring, first, Len(ring))
  BY ZenonT(30) DEF AfterRetirement
<1> HIDE DEF first
<1> QED
  BY <1>1, <1>2

\* One more packet of the connection's own on the wire.
LEMMA OneMoreOwn ==
  ASSUME NEW sent \in Seq(Packets), NEW packet \in Packets, packet.nonce = conn,
         \A i \in 1..Len(sent) : sent[i].nonce = conn
  PROVE  \A i \in 1..Len(Append(sent, packet)) : Append(sent, packet)[i].nonce = conn
<1> TAKE i \in 1..Len(Append(sent, packet))
<1>1. CASE i = Len(sent) + 1
  <2>1. Append(sent, packet)[i] = packet
    BY <1>1
  <2> QED
    BY ZenonT(30), <2>1
<1>2. CASE i # Len(sent) + 1
  <2>1. i \in 1..Len(sent) /\ Append(sent, packet)[i] = sent[i]
    BY <1>2
  <2> QED
    BY ZenonT(30), <2>1
<1> QED
  BY ZenonT(30), <1>1, <1>2

\* The worker thread takes from the ring and sends only what is its connection's own.
LEMMA RingUnderWorker ==
  ASSUME MailInv, WorkerSideTypes, RingTypes, TransactionAgrees, SentOnOwnConnection, SocketWorker
  PROVE  RingTypes' /\ SentOnOwnConnection' /\ Len(notifications') <= Len(notifications)
<1> USE DEF RingTypes, SentOnOwnConnection
<1>1. CASE UNCHANGED <<conn, wire, notifications>>
  BY <1>1, BoundAssumption
<1>2. CASE Authenticate
  BY <1>2, BoundAssumption DEF Authenticate, env
<1>3. CASE ParkDown
  <2>1. UNCHANGED <<conn, wire>>
    BY ZenonT(30), <1>3 DEF ParkDown, linkVars
  <2>2. notifications' = notifications
        \/ notifications' = AfterRetirement(notifications, retirementGeneration)
    BY ZenonT(30), <1>3 DEF ParkDown
  <2>3. /\ AfterRetirement(notifications, retirementGeneration) \in Seq(Packets \X Generations)
        /\ Len(AfterRetirement(notifications, retirementGeneration)) <= Len(notifications)
    BY ZenonT(30), RetirementShrinks
  <2>4. notifications' \in Seq(Packets \X Generations) /\ Len(notifications') <= Len(notifications)
    BY <2>2, <2>3
  <2> QED
    BY <2>1, <2>4, BoundAssumption
<1>4. CASE Deliver
  <2>1. /\ conn' = conn /\ notifications # <<>> /\ notifications' = Tail(notifications)
        /\ \/ wire' = wire
           \/ wire' = Append(wire, Head(notifications)[1]) /\ Head(notifications)[1].nonce = conn
    BY ZenonT(30), <1>4 DEF Deliver, Own
  <2>2. notifications' \in Seq(Packets \X Generations) /\ Len(notifications') <= Len(notifications)
    BY <2>1
  <2>3. Head(notifications)[1] \in Packets
    BY <2>1
  <2>4. wire' \in Seq(Packets)
    <3>1. Append(wire, Head(notifications)[1]) \in Seq(Packets)
      BY <2>3
    <3> QED
      BY ZenonT(30), <2>1, <3>1
  <2>5. SentOnOwnConnection'
    BY ZenonT(30), <2>1, <2>3, OneMoreOwn
  <2> QED
    BY <2>2, <2>4, <2>5, BoundAssumption
<1>5. CASE Exchange
  <2>1. /\ UNCHANGED <<conn, notifications>>
        /\ \/ wire' = wire
           \/ wire' = Append(wire, taken) /\ taken.nonce = conn /\ worker = "busy"
    BY ZenonT(30), <1>5 DEF Exchange, EventIsOurs, WriteReply, env
  <2>2. worker = "busy" => taken \in Packets
    BY ZenonT(30), PacketAssumption DEF MailInv, MailTypeOK, TransactionAgrees
  <2>3. wire' \in Seq(Packets)
    BY <2>1, <2>2
  <2>4. SentOnOwnConnection'
    BY ZenonT(30), <2>1, <2>2, OneMoreOwn
  <2> QED
    BY <2>1, <2>3, <2>4, BoundAssumption
<1> QED
  BY ZenonT(30), <1>1, <1>2, <1>3, <1>4, <1>5
  DEF SocketWorker, BeginAttempt, ClearClose, DialFails, PublishGeneration, PublishReady, CheckClose,
      CheckPark, DeliveryFails, RingEmpty, TakeEvent, PollIdle, FreeAbandoned, BeginTransaction,
      Complete, EndTransaction, ClearReady, CloseSocket, Jump, locals, sockets, linkVars, workerSide, env

\* A callback only queues a packet it has made, where it has found room.
LEMMA RingUnderCallbacks ==
  ASSUME RingTypes, CallbackInv, SentOnOwnConnection, CompositorMoves
  PROVE  RingTypes' /\ SentOnOwnConnection'
<1>1. UNCHANGED <<conn, wire>>
  BY ZenonT(30), CompositorFrame
<1>2. SentOnOwnConnection'
  BY ZenonT(30), <1>1 DEF SentOnOwnConnection
<1>3. notifications' = notifications \/ Enqueue
  BY ZenonT(30) DEF CompositorMoves, Compositor, InDecide, Deadline, Callback, Start, LoseProof,
     CloseStream, DrainRequest, Status, BindLook, BindNonce, BindCheck, AfterBinding, Propose, Decide,
     QueueOutcome, NotifyLoad, NotifyReady, NotifyNonce, Invalidate, RequestClose,
     RetireGeneration, Commit, others, env
<1>4. CASE Enqueue
  <2>1. /\ notifications' = Append(notifications, <<note, heard>>)
        /\ note \in Packets /\ heard \in Generations /\ Len(notifications) < RingSize
    BY ZenonT(30), <1>4
    DEF Enqueue, CallbackInv, CallbackTypes, RoomAgrees, Notifying
  <2>2. <<note, heard>> \in Packets \X Generations
    BY ZenonT(30), <2>1
  <2> QED
    BY <1>1, <1>2, <2>1, <2>2, BoundAssumption DEF RingTypes
<1> QED
  BY ZenonT(30), <1>1, <1>2, <1>3, <1>4 DEF RingTypes

-----------------------------------------------------------------------------
(* What the two threads know of one another.                               *)

\* While the worker moves on, a callback's reading of the generation only ages, its room
\* only grows, and decide stays where it is.
LEMMA CallbackUnderWorker ==
  ASSUME WorkerSideTypes, FlagTypes, LinkAgrees, CallbackInv, SocketWorker,
         RingTypes, Len(notifications') <= Len(notifications), RingTypes'
  PROVE  CallbackInv'
<1>1. UNCHANGED <<cb, task, lockFirst, heard, heardNonce, note, readyGeneration, nonce, stamp,
                  initialReconciled, parkRequested, retirementGeneration, drain>>
  BY ZenonT(30), SocketFrame DEF ClearClose, compositorSide, cbVars, bindVars, parkVars
<1>2. caller' # "out" => caller # "out"
  BY ZenonT(30) DEF SocketWorker, ParkDown, BeginAttempt, ClearClose, DialFails, Authenticate,
   PublishGeneration, PublishReady, CheckClose, CheckPark, Deliver, DeliveryFails, RingEmpty,
   TakeEvent, PollIdle, FreeAbandoned, BeginTransaction, Exchange, Complete, EndTransaction,
   ClearReady, CloseSocket, Jump, mailOwn, callerVars, Take, Acknowledge, CopyRequest, WriteReply,
   CompleteStep, PublishReply, DropReply, Wake
<1>3. /\ connectionGeneration <= connectionGeneration'
      /\ link = "named" => link' = "named" \/ connectionGeneration < connectionGeneration'
      /\ connectionGeneration \in Generations /\ connectionGeneration' \in Generations
      /\ heard \in Generations
  BY ZenonT(30), LinkStep DEF WorkerSideTypes, CallbackInv, CallbackTypes
<1>4. CallbackTypes' /\ BoundAsPair'
  BY ZenonT(30), <1>1 DEF CallbackInv, CallbackTypes, BoundAsPair
<1>5. BindingAgrees'
  BY <1>1, <1>3, BoundAssumption DEF CallbackInv, BindingAgrees, Generations
<1>6. RoomAgrees'
  <2>1. Len(notifications) < RingSize => Len(notifications') < RingSize
    BY BoundAssumption DEF RingTypes
  <2> QED
    BY ZenonT(30), <1>1, <2>1 DEF CallbackInv, RoomAgrees
<1>7. DrainAgrees'
  BY ZenonT(30), <1>1, <1>2 DEF CallbackInv, DrainAgrees
<1> QED
  BY ZenonT(30), <1>4, <1>5, <1>6, <1>7 DEF CallbackInv

\* Detached is committed only over a machinery at rest, and nothing wakes it again.
LEMMA QuietStep ==
  ASSUME MailInv, RingTypes, TransactionAgrees, CallbackInv, DetachedQuiet, Next
  PROVE  DetachedQuiet'
<1>1. CASE drain = "Detached" /\ SocketWorker
  <2>1. /\ phase = "Idle" /\ caller = "out" /\ worker = "free" /\ ~transactionActive
        /\ notifications = <<>> /\ link # "exchange" /\ link # "settled"
    BY ZenonT(30), <1>1 DEF DetachedQuiet, TransactionAgrees
  <2>2. notifications' = <<>>
    <3>1. CASE ParkDown
      BY ZenonT(30), <2>1, <3>1, RetirementShrinks DEF ParkDown, RingTypes
    <3>2. CASE ~ParkDown
      BY ZenonT(30), <1>1, <2>1, <3>2
      DEF SocketWorker, BeginAttempt, ClearClose, DialFails, Authenticate, PublishGeneration,
          PublishReady, CheckClose, CheckPark, Deliver, DeliveryFails, RingEmpty, TakeEvent, PollIdle,
          FreeAbandoned, BeginTransaction, Exchange, Complete, EndTransaction, ClearReady, CloseSocket,
          Jump, env
    <3> QED
      BY ZenonT(30), <3>1, <3>2
  <2>3. UNCHANGED <<phase, caller, worker, transactionActive>>
    <3>1. ~(TakeEvent \/ FreeAbandoned \/ BeginTransaction \/ Exchange \/ Complete \/ EndTransaction)
      BY ZenonT(30), <2>1 DEF TakeEvent, Take, FreeAbandoned, Acknowledge, BeginTransaction, CopyRequest, Exchange,
         Complete, EndTransaction
    <3> QED
      BY ZenonT(30), <1>1, <3>1
      DEF SocketWorker, ParkDown, BeginAttempt, ClearClose, DialFails, Authenticate, PublishGeneration,
          PublishReady, CheckClose, CheckPark, Deliver, DeliveryFails, RingEmpty, PollIdle, ClearReady,
          CloseSocket, Jump, sockets, mailOwn, callerVars, workerVars
  <2> QED
    BY ZenonT(30), <2>1, <2>2, <2>3 DEF DetachedQuiet
<1>2. CASE drain = "Detached" /\ CompositorMoves
  <2>1. cb = "idle" /\ ~initialReconciled /\ caller = "out" /\ drain # "Running" /\ drain # "Draining"
    BY ZenonT(30), <1>2 DEF CallbackInv, DrainAgrees
  <2> QED
    BY ZenonT(30), <1>2, <2>1
    DEF CompositorMoves, Compositor, InDecide, Deadline, Expire, CallerStep, WriteRequest, PublishRequest,
        Load, ReadReply, ReleaseSlot, Abandon, Sleep, WakeUp, Callback, Start, LoseProof, CloseStream,
        DrainRequest, Status, BindLook, BindNonce, BindCheck, AfterBinding, Propose, Decide,
        QueueOutcome, NotifyLoad, NotifyReady, NotifyNonce, Enqueue, Invalidate, RequestClose,
        RetireGeneration, Commit
<1>3. CASE Commit /\ drain' = "Detached" /\ drain # "Detached"
  <2>1. /\ cb = "commit" /\ phase = "Idle" /\ ~transactionActive /\ notifications = <<>>
        /\ UNCHANGED <<phase, caller, worker, transactionActive, notifications>>
    BY ZenonT(30), <1>3 DEF Commit, IdleParked, mailOwn, callerVars, workerVars, workerSide
  <2>2. caller = "out" /\ worker \in {"free", "wake"} /\ worker # "wake"
    BY ZenonT(30), <2>1 DEF CallbackInv, DrainAgrees, MailInv, TransactionAgrees
  <2> QED
    BY ZenonT(30), <2>1, <2>2 DEF DetachedQuiet
<1>4. CASE drain' # "Detached"
  BY ZenonT(30), <1>4 DEF DetachedQuiet
<1>5. drain' = drain \/ Commit \/ drain' = "Draining"
  BY ZenonT(30), SocketFrame
  DEF Next, ClearClose, compositorSide, Compositor, InDecide, Deadline, Callback, Start, LoseProof,
     CloseStream, DrainRequest, Status, BindLook, BindNonce, BindCheck, AfterBinding, Propose, Decide,
     QueueOutcome, NotifyLoad, NotifyReady, NotifyNonce, Enqueue, Invalidate, RequestClose,
     RetireGeneration, others, env
<1> QED
  BY ZenonT(30), <1>1, <1>2, <1>3, <1>4, <1>5 DEF Next, CompositorMoves

-----------------------------------------------------------------------------
(* The invariant of the two threads.                                       *)

\* Before the first step.
LEMMA WorkerInvInit ==
  ASSUME WorkerInit
  PROVE  WorkerInv
<1>1. MailInv
  BY ZenonT(30), MailInvInit DEF WorkerInit
<1>2. WorkerSideTypes /\ CallbackTypes /\ FlagTypes
  <2>1. 0 \in Generations /\ 0 \in 0..MaxStamp
    BY BoundAssumption DEF Generations
  <2> QED
    BY ZenonT(30), <2>1
    DEF WorkerInit, WorkerSideTypes, CallbackTypes, FlagTypes, LinkAt, CallbackAt, Tasks
<1>3. RingTypes /\ SentOnOwnConnection
  BY BoundAssumption DEF WorkerInit, RingTypes, SentOnOwnConnection
<1>4. BoundAsPair /\ DetachedQuiet /\ LinkAgrees /\ BindingAgrees /\ RoomAgrees
  BY ZenonT(30) DEF WorkerInit, BoundAsPair, DetachedQuiet, LinkAgrees, BindingAgrees, RoomAgrees, Connected, Notifying
<1>5. TransactionAgrees /\ DrainAgrees
  BY ZenonT(30) DEF WorkerInit, MailInit, TransactionAgrees, DrainAgrees
<1> QED
  BY ZenonT(30), <1>1, <1>2, <1>3, <1>4, <1>5, TypesApart DEF WorkerInv, MailInv

\* Every step of either thread keeps it.
LEMMA WorkerInvStep ==
  ASSUME WorkerInv, Next
  PROVE  WorkerInv'
<1>1. /\ MailInv /\ WorkerSideTypes /\ FlagTypes /\ RingTypes /\ CallbackInv
      /\ LinkAgrees /\ TransactionAgrees /\ SentOnOwnConnection /\ DetachedQuiet
  BY ZenonT(30), TypesApart DEF WorkerInv, CallbackInv
<1>2. MailInv'
  <2>1. cb = "decide" => nonce # 0 /\ stamp < MaxStamp
    BY <1>1, BoundAssumption DEF CallbackInv, CallbackTypes, BindingAgrees, RoomAgrees
  <2>2. cb = "decide" => [nonce |-> nonce, stamp |-> stamp + 1] \in Events
    BY ZenonT(30), <1>1, <2>1, NextPacket, PacketAssumption DEF CallbackInv
  <2>3. [MailNext]_mailVars
    BY ZenonT(30), <2>2, MailMoves
  <2> QED
    BY ZenonT(30), <1>1, <2>3, MailInvStep
<1>3. TransactionAgrees'
  BY ZenonT(30), <1>1, TransactionStep
<1>4. DetachedQuiet'
  BY ZenonT(30), <1>1, QuietStep
<1>5. CASE SocketWorker
  <2>1. LinkAgrees' /\ WorkerSideTypes' /\ FlagTypes'
    BY ZenonT(30), <1>1, <1>5, LinkStep, SocketTypes
  <2>2. RingTypes' /\ SentOnOwnConnection' /\ Len(notifications') <= Len(notifications)
    BY ZenonT(30), <1>1, <1>5, RingUnderWorker
  <2>3. CallbackInv'
    BY ZenonT(30), <1>1, <1>5, <2>2, CallbackUnderWorker
  <2> QED
    BY ZenonT(30), <1>2, <1>3, <1>4, <2>1, <2>2, <2>3, TypesTogether DEF WorkerInv, CallbackInv, MailInv
<1>6. CASE CompositorMoves
  <2>1. LinkAgrees' /\ FlagTypes'
    BY ZenonT(30), <1>1, <1>6, LinkUnderCallbacks
  <2>2. WorkerSideTypes'
    BY ZenonT(30), <1>1, <1>6, CompositorFrame DEF WorkerSideTypes
  <2>3. RingTypes' /\ SentOnOwnConnection'
    BY ZenonT(30), <1>1, <1>6, RingUnderCallbacks
  <2>4. CallbackInv'
    BY ZenonT(30), <1>1, <1>6, BindStep, AfterBindingStep, NotifyStep, OtherCallbackStep
    DEF CompositorMoves, Compositor
  <2> QED
    BY ZenonT(30), <1>2, <1>3, <1>4, <2>1, <2>2, <2>3, <2>4, TypesTogether DEF WorkerInv, CallbackInv, MailInv
<1> QED
  BY ZenonT(30), <1>5, <1>6 DEF Next, CompositorMoves

\* The two threads' invariant always holds: the ring never overflows, the slot of the
\* mailbox has one owner, a packet travels only on the connection whose nonce it carries,
\* and what a callback has checked of binding, numbering and room is still so when it acts
\* on it, for any number of connections, packets and ring slots.
THEOREM WorkerSound == Spec => []WorkerInv
<1>1. WorkerInit => WorkerInv
  BY ZenonT(30), WorkerInvInit
<1>2. WorkerInv /\ [Next]_vars => WorkerInv'
  <2> SUFFICES ASSUME WorkerInv, [Next]_vars PROVE WorkerInv'
    OBVIOUS
  <2>1. CASE Next
    BY ZenonT(30), <2>1, WorkerInvStep
  <2>2. CASE UNCHANGED vars
    <3>1. MailInv'
      <4>1. [MailNext]_mailVars
        BY ZenonT(30), <2>2 DEF vars, mailOwn, mailVars
      <4> QED
        BY ZenonT(30), <4>1, MailInvStep DEF WorkerInv
    <3>2. WorkerTypeOK'
      BY ZenonT(30), <2>2
      DEF vars, WorkerInv, WorkerTypeOK, MailTypeOK, mailOwn, workerSide, compositorSide, linkVars,
          connVars, flags, parkVars, bindVars, cbVars, callerVars, workerVars
    <3>3. SentOnOwnConnection' /\ BoundAsPair' /\ DetachedQuiet' /\ LinkAgrees'
      BY ZenonT(30), <2>2
      DEF vars, WorkerInv, SentOnOwnConnection, BoundAsPair, DetachedQuiet, LinkAgrees, mailOwn,
          workerSide, compositorSide, linkVars, connVars, flags, bindVars, callerVars, workerVars
    <3>4. TransactionAgrees' /\ BindingAgrees' /\ RoomAgrees' /\ DrainAgrees'
      BY ZenonT(30), <2>2
      DEF vars, WorkerInv, TransactionAgrees, BindingAgrees, RoomAgrees, DrainAgrees, mailOwn, workerSide,
          compositorSide, linkVars, connVars, bindVars, cbVars, callerVars, workerVars
    <3> QED
      BY ZenonT(30), <3>1, <3>2, <3>3, <3>4 DEF WorkerInv
  <2> QED
    BY ZenonT(30), <2>1, <2>2
<1> QED
  BY <1>1, <1>2, PTL DEF Spec

\* The generation and the nonce a callback binds belong to one connection, however the worker
\* reconnects between ensureConnectionBinding's two loads.
THEOREM BindingIsPair == Spec => []BoundAsPair
<1>1. WorkerInv => BoundAsPair
  BY ZenonT(30) DEF WorkerInv
<1> QED
  BY <1>1, WorkerSound, PTL

\* Once sledge:status has committed Detached, no request, transaction, receipt or callback is
\* in flight, then or ever after.
THEOREM DetachedForGood == Spec => []DetachedQuiet /\ [][drain = "Detached" => drain' = "Detached"]_vars
<1>1. WorkerInv => DetachedQuiet
  BY ZenonT(30) DEF WorkerInv
<1>2. WorkerInv /\ [Next]_vars => [drain = "Detached" => drain' = "Detached"]_vars
  <2> SUFFICES ASSUME WorkerInv, Next, drain = "Detached" PROVE drain' = "Detached"
    BY ZenonT(30)
  <2>1. cb = "idle" /\ drain # "Running" /\ drain # "Draining"
    BY ZenonT(30) DEF WorkerInv, DrainAgrees
  <2>2. ~DrainRequest /\ ~Commit
    BY ZenonT(30), <2>1 DEF DrainRequest, Commit
  <2>3. drain' = drain
    BY ZenonT(30), <2>2, SocketFrame
    DEF Next, ClearClose, compositorSide, Compositor, InDecide, Deadline, Callback, Start, LoseProof,
       CloseStream, Status, BindLook, BindNonce, BindCheck, AfterBinding, Propose, Decide,
       QueueOutcome, NotifyLoad, NotifyReady, NotifyNonce, Enqueue, Invalidate, RequestClose,
       RetireGeneration, others, env
  <2> QED
    BY ZenonT(30), <2>3
<1> QED
  BY <1>1, <1>2, WorkerSound, PTL DEF Spec

=============================================================================
