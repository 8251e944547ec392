----------------------------- MODULE StockWorker -----------------------------
(***************************************************************************)
(* The native plugin's socket worker (native/hyprland/stock_worker.hpp)    *)
(* and the compositor thread that feeds it (stock_adapter.cpp): the        *)
(* decision mailbox, the ring of notifications, reconnection under a fresh *)
(* nonce and generation, and the drain that ends in Detached.              *)
(*                                                                         *)
(* A packet is its nonce and its place, its stamp, in the order the        *)
(* compositor thread issues packets on a binding; an outcome repeats the   *)
(* sequence number of its event but comes after it.  Nonces and            *)
(* generations advance together, so a nonce is the generation it names,    *)
(* and failed dials, which nothing else sees, use none up.  The daemon may *)
(* answer, fail or hang up at any time; whether keys and output are at     *)
(* rest, and whether the lock epoch moved, are the Router's business and   *)
(* free choices here.  Accesses of one thread that the other cannot tell   *)
(* apart share a step.                                                     *)
(***************************************************************************)
EXTENDS DecisionMailbox, Naturals, Sequences

CONSTANTS
  MaxGeneration,   \* bound on authenticated connections
  MaxStamp,        \* bound on packets per binding
  RingSize         \* notifications.size(), 16 in the code

Packets == [nonce : 1..MaxGeneration, stamp : 1..MaxStamp]

ASSUME PacketAssumption == Events = Packets
ASSUME BoundAssumption ==
  MaxGeneration \in Nat \ {0} /\ MaxStamp \in Nat \ {0} /\ RingSize \in Nat \ {0}

VARIABLES
  link,             \* where the worker thread is in run / runConnection
  conn,             \* its local generation
  accepted,         \* its local "accepted"
  ready, closeRequested, parkRequested, parked, transactionActive,
  connectionNonce, connectionGeneration, retirementGeneration, closedGeneration,
  notifications,    \* the ring: <<packet, generation>>
  wire,             \* auxiliary: the packets sent on this connection
  cb,               \* where the compositor thread is
  task,             \* which callback it runs
  lockFirst,        \* it is sending the Lock that announces a new epoch
  heard,            \* its local generation (binding, notify or status)
  heardNonce,       \* its local nonce
  note,             \* the packet it is about to queue
  readyGeneration, nonce, stamp, initialReconciled,
  drain             \* DrainState

linkVars == <<link, conn, accepted, wire>>
connVars == <<connectionNonce, connectionGeneration, closedGeneration>>
flags == <<ready, closeRequested>>
parkVars == <<parkRequested, retirementGeneration>>
bindVars == <<readyGeneration, nonce, stamp, initialReconciled>>
cbVars == <<cb, task, lockFirst, heard, heardNonce, note>>
mailOwn == <<phase, request, reply, expired, callerVars, workerVars>>
workerSide == <<linkVars, connVars, parked, transactionActive>>
compositorSide == <<cbVars, bindVars, parkVars, drain>>
locals == <<conn, accepted, wire>>
sockets == <<connVars, parked, transactionActive>>
env == <<compositorSide, flags, notifications>>
binding == <<readyGeneration, nonce>>
others == <<mailOwn, workerSide, parkVars, drain, flags, notifications>>
vars == <<mailOwn, workerSide, compositorSide, flags, notifications>>

WorkerInit ==
  /\ MailInit
  /\ link = "top" /\ conn = 0 /\ accepted = FALSE /\ wire = <<>>
  /\ ready = FALSE /\ closeRequested = FALSE
  /\ parkRequested = FALSE /\ parked = FALSE /\ transactionActive = FALSE
  /\ connectionNonce = 0 /\ connectionGeneration = 0
  /\ retirementGeneration = 0 /\ closedGeneration = 0
  /\ notifications = <<>>
  /\ cb = "idle" /\ task = "key" /\ lockFirst = FALSE
  /\ heard = 0 /\ heardNonce = 0 /\ note = NoEvent
  /\ readyGeneration = 0 /\ nonce = 0 /\ stamp = 0 /\ initialReconciled = FALSE
  /\ drain = "Running"

-----------------------------------------------------------------------------
(* The worker thread: run. *)

\* The worker goes on at another place and changes nothing else.
Jump(at) ==
  /\ link' = at
  /\ UNCHANGED <<mailOwn, locals, sockets, env>>

\* Receipts of the retired generation leave the ring, up to the first other one.
AfterRetirement(ring, generation) ==
  LET keeps == {i \in 1..Len(ring) : ring[i][2] # generation}
      first == IF keeps = {} THEN Len(ring) + 1
               ELSE CHOOSE i \in keeps : \A j \in keeps : i <= j
  IN  SubSeq(ring, first, Len(ring))

\* Parked between connections: settle retired receipts, acknowledge when idle.
ParkDown ==
  /\ link = "top"
  /\ parkRequested
  /\ phase = "Idle"
  /\ parked' = TRUE
  /\ notifications' =
       IF retirementGeneration # 0 /\ ~transactionActive
       THEN AfterRetirement(notifications, retirementGeneration) ELSE notifications
  /\ UNCHANGED <<mailOwn, linkVars, connVars, transactionActive, compositorSide, flags>>

\* Not parked: a connection attempt begins.
BeginAttempt ==
  /\ link = "top"
  /\ ~parkRequested
  /\ Jump("begin")

ClearClose ==
  /\ link = "begin"
  /\ closeRequested' = FALSE
  /\ link' = "dial"
  /\ UNCHANGED <<mailOwn, locals, sockets, compositorSide, ready, notifications>>

\* No listener, no valid HelloAck in time.
DialFails ==
  /\ link = "dial"
  /\ Jump("top")

Authenticate ==
  /\ link = "dial"
  /\ connectionGeneration < MaxGeneration
  /\ conn' = connectionGeneration + 1
  /\ connectionNonce' = conn'
  /\ wire' = <<>>
  /\ link' = "named"
  /\ UNCHANGED <<mailOwn, accepted, connectionGeneration, closedGeneration, parked,
                 transactionActive, env>>

PublishGeneration ==
  /\ link = "named"
  /\ connectionGeneration' = conn
  /\ link' = "numbered"
  /\ UNCHANGED <<mailOwn, locals, connectionNonce, closedGeneration, parked,
                 transactionActive, env>>

PublishReady ==
  /\ link = "numbered"
  /\ ready' = TRUE
  /\ link' = "loop"
  /\ UNCHANGED <<mailOwn, locals, sockets, compositorSide, closeRequested, notifications>>

-----------------------------------------------------------------------------
(* The worker thread: the loop of runConnection. *)

CheckClose ==
  /\ link = "loop"
  /\ Jump(IF closeRequested THEN "closing" ELSE "park")

CheckPark ==
  /\ link = "park"
  /\ IF parkRequested /\ notifications = <<>> /\ phase = "Idle"
     THEN parked' = TRUE /\ link' = "loop"
     ELSE parked' = parked /\ link' = "ring"
  /\ UNCHANGED <<mailOwn, locals, connVars, transactionActive, env>>

\* A plausible slip: a notification is not held to the connection it was queued for.
MutOwn(entry) == TRUE

Own(entry) == entry[2] = conn /\ entry[1].nonce = conn

\* The head of the ring is dropped if it is another connection's, sent otherwise.
Deliver ==
  /\ link = "ring"
  /\ notifications # <<>>
  /\ notifications' = Tail(notifications)
  /\ wire' = IF Own(Head(notifications)) THEN Append(wire, Head(notifications)[1]) ELSE wire
  /\ link' = "loop"
  /\ UNCHANGED <<mailOwn, conn, accepted, sockets, compositorSide, flags>>

DeliveryFails ==
  /\ link = "ring"
  /\ notifications # <<>>
  /\ Own(Head(notifications))
  /\ Jump("closing")

RingEmpty ==
  /\ link = "ring"
  /\ notifications = <<>>
  /\ Jump("take")

\* mailbox.take claims a request, or frees an abandoned slot.
TakeEvent ==
  /\ link = "take"
  /\ Take
  /\ UNCHANGED <<workerSide, env>>

\* Nothing taken: poll the socket, which may have been closed or spoken unasked.
PollIdle ==
  /\ link = "take"
  /\ worker = "free"
  /\ phase \notin {"Request", "Abandoned"}
  /\ Jump("loop") \/ Jump("closing")

\* take noticed the abandoned slot: the same poll follows.
FreeAbandoned ==
  /\ link = "take"
  /\ Acknowledge
  /\ link' \in {"loop", "closing"}
  /\ UNCHANGED <<locals, sockets, env>>

BeginTransaction ==
  /\ link = "take"
  /\ CopyRequest
  /\ transactionActive' = TRUE
  /\ link' = "exchange"
  /\ UNCHANGED <<locals, connVars, parked, env>>

EventIsOurs == taken.nonce = conn

\* Sent and answered in time; or not sent, or sent and not answered in time.
Exchange ==
  /\ link = "exchange"
  /\ \/ EventIsOurs /\ WriteReply(taken) /\ accepted' = TRUE /\ wire' = Append(wire, taken)
     \/ EventIsOurs /\ WriteReply(NoEvent) /\ accepted' = FALSE /\ wire' = Append(wire, taken)
     \/ WriteReply(NoEvent) /\ accepted' = FALSE /\ wire' = wire
  /\ UNCHANGED <<link, conn, sockets, env>>

Complete ==
  /\ link = "exchange"
  /\ CompleteStep
  /\ link' = IF worker' = "free" THEN "settled" ELSE link
  /\ UNCHANGED <<locals, sockets, env>>

EndTransaction ==
  /\ link = "settled"
  /\ transactionActive' = FALSE
  /\ link' = IF accepted THEN "loop" ELSE "closing"
  /\ UNCHANGED <<mailOwn, locals, connVars, parked, env>>

ClearReady ==
  /\ link = "closing"
  /\ ready' = FALSE
  /\ link' = "closed"
  /\ UNCHANGED <<mailOwn, locals, sockets, compositorSide, closeRequested, notifications>>

CloseSocket ==
  /\ link = "closed"
  /\ closedGeneration' = conn
  /\ link' = "top"
  /\ UNCHANGED <<mailOwn, locals, connectionNonce, connectionGeneration, parked,
                 transactionActive, env>>

SocketWorker ==
  \/ ParkDown \/ BeginAttempt \/ ClearClose \/ DialFails \/ Authenticate
  \/ PublishGeneration \/ PublishReady
  \/ CheckClose \/ CheckPark \/ Deliver \/ DeliveryFails \/ RingEmpty
  \/ TakeEvent \/ PollIdle \/ FreeAbandoned \/ BeginTransaction \/ Exchange \/ Complete
  \/ EndTransaction \/ ClearReady \/ CloseSocket

-----------------------------------------------------------------------------
(* The compositor thread: callbacks, ensureConnectionBinding. *)

\* A callback begins; a focus change first withdraws the admission proof.
Start(t) ==
  /\ cb = "idle"
  /\ drain = "Running"
  /\ t \in {"focus", "map"} => stamp + 2 <= MaxStamp
  /\ task' = t
  /\ cb' = "bind"
  /\ initialReconciled' = (initialReconciled /\ t # "focus")
  /\ UNCHANGED <<others, lockFirst, heard, heardNonce, note, binding, stamp>>

\* A consumer map change or output recovery withdraws the proof without a packet.
LoseProof ==
  /\ cb = "idle"
  /\ drain = "Running"
  /\ initialReconciled
  /\ initialReconciled' = FALSE
  /\ UNCHANGED <<others, cbVars, binding, stamp>>

\* Unknown input or a lost consumer map closes an admitted stream.
CloseStream ==
  /\ cb = "idle"
  /\ initialReconciled
  /\ task' = "close"
  /\ cb' = "invalidate"
  /\ UNCHANGED <<others, lockFirst, heard, heardNonce, note, bindVars>>

BindLook ==
  /\ cb = "bind"
  /\ IF ready
     THEN cb' = "bindNonce" /\ heard' = connectionGeneration /\ UNCHANGED initialReconciled
     ELSE cb' = "unbound" /\ heard' = heard /\ initialReconciled' = FALSE
  /\ UNCHANGED <<others, task, lockFirst, heardNonce, note, binding, stamp>>

BindNonce ==
  /\ cb = "bindNonce"
  /\ heardNonce' = connectionNonce
  /\ cb' = "bindCheck"
  /\ UNCHANGED <<others, task, lockFirst, heard, note, bindVars>>

\* A plausible slip: the generation and the nonce read apart are taken for a pair.
MutStillCurrent == TRUE

StillCurrent == ready /\ heard = connectionGeneration

\* bindConnection: only a fresh generation resets the numbering.
BindCheck ==
  /\ cb = "bindCheck"
  /\ cb' = IF StillCurrent THEN "bound" ELSE "unbound"
  /\ IF StillCurrent /\ heard # readyGeneration
     THEN /\ readyGeneration' = heard
          /\ nonce' = heardNonce
          /\ stamp' = 0
          /\ initialReconciled' = FALSE
     ELSE UNCHANGED bindVars
  /\ UNCHANGED <<others, task, lockFirst, heard, heardNonce, note>>

-----------------------------------------------------------------------------
(* The compositor thread: lifecycle, inputKey, notify. *)

\* The next packet of the binding is made and handed to notify.
Emit(t, lock) ==
  /\ stamp < MaxStamp
  /\ stamp' = stamp + 1
  /\ note' = [nonce |-> nonce, stamp |-> stamp + 1]
  /\ task' = t
  /\ lockFirst' = lock
  /\ cb' = "notify"

Goto(at) == cb' = at /\ UNCHANGED <<task, lockFirst, note, stamp>>

\* What each callback does once it knows whether it is bound.
AfterBinding ==
  /\ cb \in {"bound", "unbound"}
  /\ \/ /\ task = "key"
        /\ \/ Goto("propose")
           \/ /\ cb = "bound"
              /\ ~initialReconciled
              /\ stamp + 2 <= MaxStamp
              /\ \E lock \in BOOLEAN : Emit("boundary", lock)
        /\ UNCHANGED initialReconciled
     \/ /\ task \in {"focus", "change"}
        /\ IF cb = "bound" THEN \E lock \in BOOLEAN : Emit(task, lock)
           ELSE Goto(IF task = "focus" THEN "idle" ELSE "invalidate")
        /\ UNCHANGED initialReconciled
     \/ /\ task = "map"
        /\ initialReconciled' = FALSE
        /\ IF initialReconciled
           THEN cb' = "bind" /\ task' = "change" /\ UNCHANGED <<lockFirst, note, stamp>>
           ELSE Goto("idle")
  /\ UNCHANGED <<others, heard, heardNonce, binding>>

\* A key is proposed on an admitted stream, after the Lock for a new epoch.
Propose ==
  /\ cb = "propose"
  /\ \/ Goto("idle")
     \/ /\ ready /\ initialReconciled
        /\ \/ stamp + 2 <= MaxStamp /\ Goto("decide")
           \/ stamp + 3 <= MaxStamp /\ Emit("key", TRUE)
  /\ UNCHANGED <<others, heard, heardNonce, binding, initialReconciled>>

\* mailbox.decide returns at once when the slot is not idle.
Decide ==
  /\ cb = "decide"
  /\ stamp' = stamp + 1
  /\ cb' = "deciding"
  /\ \/ Enter([nonce |-> nonce, stamp |-> stamp + 1])
     \/ phase # "Idle" /\ UNCHANGED mailOwn
  /\ UNCHANGED <<workerSide, task, lockFirst, heard, heardNonce, note, binding,
                 initialReconciled, parkVars, drain, flags, notifications>>

InDecide ==
  /\ CallerStep
  /\ UNCHANGED <<workerSide, env>>

\* Whatever decide returned, the outcome of the routed key is queued.
QueueOutcome ==
  /\ cb = "deciding"
  /\ caller = "out"
  /\ Emit("outcome", FALSE)
  /\ UNCHANGED <<others, heard, heardNonce, binding, initialReconciled>>

NotifyLoad ==
  /\ cb = "notify"
  /\ heard' = connectionGeneration
  /\ cb' = "notifyReady"
  /\ UNCHANGED <<others, task, lockFirst, heardNonce, note, bindVars>>

\* notify returned: the next packet, the next step of the callback, or its failure path.
Notified(ok) ==
  \/ /\ ok /\ lockFirst
     /\ IF task = "key" THEN cb' = "decide" /\ lockFirst' = FALSE /\ UNCHANGED <<task, note, stamp>>
        ELSE Emit(task, FALSE)
     /\ UNCHANGED initialReconciled
  \/ /\ ~(ok /\ lockFirst)
     /\ initialReconciled' = IF task = "boundary" THEN ok ELSE initialReconciled
     /\ Goto(CASE task = "boundary" -> "propose"
               [] task \in {"change", "outcome"} /\ ~ok -> "invalidate"
               [] OTHER -> "idle")

Room == Len(notifications) < RingSize

NotifyReady ==
  /\ cb = "notifyReady"
  /\ IF ready /\ ~parkRequested /\ Room
     THEN Goto("notifyNonce") /\ UNCHANGED initialReconciled
     ELSE Notified(FALSE)
  /\ UNCHANGED <<others, heard, heardNonce, binding>>

NotifyNonce ==
  /\ cb = "notifyNonce"
  /\ IF note.nonce = connectionNonce
     THEN Goto("enqueue") /\ UNCHANGED initialReconciled
     ELSE Notified(FALSE)
  /\ UNCHANGED <<others, heard, heardNonce, binding>>

Enqueue ==
  /\ cb = "enqueue"
  /\ notifications' = Append(notifications, <<note, heard>>)
  /\ Notified(TRUE)
  /\ UNCHANGED <<mailOwn, workerSide, heard, heardNonce, binding, parkVars, drain, flags>>

-----------------------------------------------------------------------------
(* The compositor thread: invalidate, drain and status. *)

Invalidate ==
  /\ cb = "invalidate"
  /\ ready' = FALSE
  /\ initialReconciled' = FALSE
  /\ cb' = "requestClose"
  /\ UNCHANGED <<mailOwn, workerSide, task, lockFirst, heard, heardNonce, note, binding,
                 stamp, parkVars, drain, closeRequested, notifications>>

\* A plausible slip: the connection is marked unready but never asked to close.
MutRequestClose ==
  /\ cb = "requestClose"
  /\ closeRequested' = closeRequested
  /\ cb' = IF task = "status" THEN "commit" ELSE "idle"
  /\ UNCHANGED <<mailOwn, workerSide, task, lockFirst, heard, heardNonce, note, bindVars,
                 parkVars, drain, ready, notifications>>

RequestClose ==
  /\ cb = "requestClose"
  /\ closeRequested' = TRUE
  /\ cb' = IF task = "status" THEN "commit" ELSE "idle"
  /\ UNCHANGED <<mailOwn, workerSide, task, lockFirst, heard, heardNonce, note, bindVars,
                 parkVars, drain, ready, notifications>>

DrainRequest ==
  /\ cb = "idle"
  /\ drain = "Running"
  /\ drain' = "Draining"
  /\ initialReconciled' = FALSE
  /\ UNCHANGED <<mailOwn, workerSide, cbVars, binding, stamp, parkVars, flags, notifications>>

\* sledge:status with keys and output at rest and the slot idle parks the worker.
Status ==
  /\ cb = "idle"
  /\ drain = "Draining"
  /\ phase = "Idle"
  /\ parkRequested' = TRUE
  /\ heard' = connectionGeneration
  /\ task' = "status"
  /\ cb' = "retire"
  /\ UNCHANGED <<mailOwn, workerSide, lockFirst, heardNonce, note, bindVars,
                 retirementGeneration, drain, flags, notifications>>

\* retireGenerationForDrain: once per generation, then close.
RetireGeneration ==
  /\ cb = "retire"
  /\ IF heard # 0 /\ heard = connectionGeneration /\ retirementGeneration # heard
     THEN retirementGeneration' = heard /\ cb' = "invalidate"
     ELSE retirementGeneration' = retirementGeneration /\ cb' = "commit"
  /\ UNCHANGED <<mailOwn, workerSide, task, lockFirst, heard, heardNonce, note, bindVars,
                 parkRequested, drain, flags, notifications>>

\* A plausible slip: receipts still queued do not count.
MutIdleParked ==
  /\ retirementGeneration # 0 => closedGeneration >= retirementGeneration
  /\ parked /\ phase = "Idle" /\ ~transactionActive

IdleParked ==
  /\ retirementGeneration # 0 => closedGeneration >= retirementGeneration
  /\ parked /\ phase = "Idle" /\ ~transactionActive
  /\ notifications = <<>>

Commit ==
  /\ cb = "commit"
  /\ drain' = IF IdleParked THEN "Detached" ELSE drain
  /\ cb' = "idle"
  /\ UNCHANGED <<mailOwn, workerSide, task, lockFirst, heard, heardNonce, note, bindVars,
                 parkVars, flags, notifications>>

Callback == \E t \in {"key", "focus", "map"} : Start(t)

\* The steps of a callback under way.
Compositor ==
  \/ BindLook \/ BindNonce \/ BindCheck \/ AfterBinding \/ Propose \/ Decide \/ InDecide
  \/ QueueOutcome \/ NotifyLoad \/ NotifyReady \/ NotifyNonce \/ Enqueue
  \/ Invalidate \/ RequestClose \/ RetireGeneration \/ Commit

Deadline == Expire /\ UNCHANGED <<workerSide, compositorSide, flags, notifications>>

Next ==
  \/ SocketWorker \/ Compositor \/ Deadline
  \/ Callback \/ LoseProof \/ CloseStream \/ DrainRequest \/ Status

\* Both threads run, deadlines pass, and the drain controller keeps polling.
Fairness ==
  /\ WF_vars(SocketWorker) /\ WF_vars(Compositor) /\ WF_vars(Deadline) /\ WF_vars(Status)

Spec == WorkerInit /\ [][Next]_vars /\ Fairness

-----------------------------------------------------------------------------
Generations == 0..MaxGeneration
LinkAt == {"top", "begin", "dial", "named", "numbered", "loop", "park", "ring", "take",
           "exchange", "settled", "closing", "closed"}
CallbackAt == {"idle", "bind", "bindNonce", "bindCheck", "bound", "unbound", "propose", "decide",
               "deciding", "notify", "notifyReady", "notifyNonce", "enqueue", "invalidate",
               "requestClose", "retire", "commit"}
Tasks == {"key", "boundary", "focus", "map", "change", "outcome", "close", "status"}

\* Every variable keeps its type.
WorkerTypeOK ==
  /\ MailTypeOK
  /\ link \in LinkAt /\ cb \in CallbackAt /\ task \in Tasks
  /\ {conn, connectionNonce, connectionGeneration, retirementGeneration, closedGeneration,
      heard, heardNonce, readyGeneration, nonce} \subseteq Generations
  /\ {accepted, ready, closeRequested, parkRequested, parked, transactionActive, lockFirst,
      initialReconciled} \subseteq BOOLEAN
  /\ notifications \in Seq(Packets \X Generations) /\ Len(notifications) <= RingSize
  /\ wire \in Seq(Packets)
  /\ note \in Packets \cup {NoEvent}
  /\ stamp \in 0..MaxStamp
  /\ drain \in {"Running", "Draining", "Detached"}

\* A packet only travels on the connection whose nonce it carries, however the
\* callbacks and reconnections interleave ("notification entries are
\* generation-tagged and Events checked against the connection nonce").
SentOnOwnConnection ==
  \A i \in 1..Len(wire) : wire[i].nonce = conn

\* The generation and nonce that ensureConnectionBinding reads one after the
\* other belong to the same connection.
BoundAsPair == nonce = readyGeneration

\* Once the drain has committed Detached nothing of the transaction machinery is
\* left in flight: no request, no transaction, no receipt, no callback inside.
DetachedQuiet ==
  drain = "Detached" =>
    /\ phase = "Idle" /\ caller = "out" /\ worker = "free"
    /\ ~transactionActive
    /\ notifications = <<>>

Connected == {"loop", "park", "ring", "take", "exchange", "settled", "closing"}
Notifying == {"notify", "notifyReady", "notifyNonce", "enqueue"}

\* A connection's nonce is published one step before its generation, and readiness
\* only after both.
LinkAgrees ==
  /\ connectionNonce = conn
  /\ conn = IF link = "named" THEN connectionGeneration + 1 ELSE connectionGeneration
  /\ ready => link \in Connected
  /\ link \in Connected \cup {"named", "numbered"} => conn # 0

\* Where the worker thread is in the mailbox is where it is in its loop.
TransactionAgrees ==
  /\ transactionActive <=> link \in {"exchange", "settled"}
  /\ worker \in {"ack", "copy"} => link = "take"
  /\ worker \in {"busy", "cas", "drop", "wake"} => link = "exchange"
  /\ worker = "copy" => request # NoEvent
  /\ worker = "busy" => taken # NoEvent

\* A nonce that is not the generation's own was read while the worker was between the
\* two, and the generation has moved before the connection is ready again.
BindingAgrees ==
  /\ cb \in {"bindNonce", "bindCheck"} => heard # 0 /\ heard <= connectionGeneration
  /\ cb = "bindCheck" => heardNonce = heard \/ heard < connectionGeneration \/ link = "named"
  /\ cb \in Notifying \cup {"bound", "decide", "deciding"} => nonce # 0
  /\ initialReconciled => nonce # 0

\* A callback that checked for room still has it: in the numbering for a proposal and its
\* outcome, in the ring for one packet.
RoomAgrees ==
  /\ cb = "decide" \/ (cb \in Notifying /\ task = "key") => stamp + 2 <= MaxStamp
  /\ cb \in Notifying => note # NoEvent
  /\ cb \in {"notifyNonce", "enqueue"} => Len(notifications) < RingSize

\* Only a proposal is inside the mailbox, and a drain finds no callback under way.
DrainAgrees ==
  /\ caller # "out" => cb = "deciding"
  /\ drain # "Running" => /\ ~initialReconciled
                          /\ cb \in {"idle", "retire", "invalidate", "requestClose", "commit"}
  /\ drain = "Detached" => cb = "idle"
  /\ cb \in {"retire", "commit"} => task = "status"
  /\ task = "status" => drain # "Running"

\* With the types (the ring of notifications, in particular, never overflows) and the
\* ownership of the mailbox's slot: the inductive invariant behind the three.
WorkerInv ==
  /\ WorkerTypeOK /\ MailInv
  /\ SentOnOwnConnection /\ BoundAsPair /\ DetachedQuiet
  /\ LinkAgrees /\ TransactionAgrees /\ BindingAgrees /\ RoomAgrees /\ DrainAgrees

ReceiptStranded ==
  notifications # <<>> /\ Head(notifications)[2] < retirementGeneration

\* A drain that never finishes is one of two stuck states: an abandoned slot no
\* connection comes to free, or a receipt of an older connection ahead of the
\* retired generation.  Nothing else blocks it for ever.
OnlyKnownBlocks ==
  <>[](drain = "Draining") => <>[](phase = "Abandoned" \/ ReceiptStranded)

=============================================================================
