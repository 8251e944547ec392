--------------------------- MODULE DecisionMailbox ---------------------------
(***************************************************************************)
(* The one-slot mailbox of native/hyprland/decision_mailbox.hpp between    *)
(* the compositor callback (decide) and the socket worker (take, complete).*)
(* The two threads share one atomic phase and two plain packet buffers;    *)
(* every atomic access, buffer access and futex call is a step of its own. *)
(*                                                                         *)
(* A packet is the event it is about; the empty packet the worker          *)
(* publishes for a failed exchange is NoEvent.  Time is the one fact the   *)
(* code reads off the clock: whether the request's deadline has passed.    *)
(***************************************************************************)
CONSTANTS
  Events,    \* event packets
  NoEvent    \* the empty packet

ASSUME EventAssumption == NoEvent \notin Events

VARIABLES
  phase,     \* the atomic word both threads and the futex use
  request,   \* buffers
  reply,
  expired,   \* monotonicNs() >= deadlineNs
  caller,    \* where the callback thread is in decide
  asking,    \* its event
  seen,      \* its local "current"
  worker,    \* where the worker thread is in take / complete
  taken,     \* the worker's copy of the request
  decision,  \* the caller's out parameter
  result     \* auxiliary: <<event, decision>> of decide's latest return

callerVars == <<caller, asking, seen, decision, result>>
workerVars == <<worker, taken>>
mailVars == <<phase, request, reply, expired, callerVars, workerVars>>

Phases == {"Idle", "Request", "Processing", "Reply", "Abandoned"}
CallerAt == {"out", "write", "publish", "load", "read", "release", "act", "asleep"}
WorkerAt == {"free", "ack", "copy", "busy", "cas", "drop", "wake"}

MailInit ==
  /\ phase = "Idle"
  /\ request = NoEvent
  /\ reply = NoEvent
  /\ expired = FALSE
  /\ caller = "out"
  /\ asking = NoEvent
  /\ seen = "Idle"
  /\ worker = "free"
  /\ taken = NoEvent
  /\ decision = NoEvent
  /\ result = <<NoEvent, NoEvent>>

-----------------------------------------------------------------------------
(* The callback thread: decide. *)

Return(d) ==
  /\ caller' = "out"
  /\ asking' = NoEvent
  /\ result' = <<asking, d>>

\* A plausible slip: a timed-out slot is taken for free.
MutEnter(e) ==
  /\ caller = "out"
  /\ phase \in {"Idle", "Abandoned"}
  /\ caller' = "write"
  /\ asking' = e
  /\ expired' = FALSE
  /\ UNCHANGED <<phase, request, reply, seen, decision, result, workerVars>>

\* The deadline is fresh and the slot idle; otherwise decide returns false at once.
Enter(e) ==
  /\ caller = "out"
  /\ phase = "Idle"
  /\ caller' = "write"
  /\ asking' = e
  /\ expired' = FALSE
  /\ UNCHANGED <<phase, request, reply, seen, decision, result, workerVars>>

WriteRequest ==
  /\ caller = "write"
  /\ request' = asking
  /\ caller' = "publish"
  /\ UNCHANGED <<phase, reply, expired, asking, seen, decision, result, workerVars>>

PublishRequest ==
  /\ caller = "publish"
  /\ phase' = "Request"
  /\ caller' = "load"
  /\ UNCHANGED <<request, reply, expired, asking, seen, decision, result, workerVars>>

Load ==
  /\ caller = "load"
  /\ seen' = phase
  /\ caller' = IF phase = "Reply" THEN "read" ELSE "act"
  /\ UNCHANGED <<phase, request, reply, expired, asking, decision, result, workerVars>>

\* A plausible slip: a late reply is not copied, but decide still reports success.
MutReadReply ==
  /\ caller = "read"
  /\ decision' = IF expired THEN decision ELSE reply
  /\ caller' = "release"
  /\ UNCHANGED <<phase, request, reply, expired, asking, seen, result, workerVars>>

\* Reply seen: it counts only if the deadline has not passed.
ReadReply ==
  /\ caller = "read"
  /\ decision' = IF expired THEN NoEvent ELSE reply
  /\ caller' = "release"
  /\ UNCHANGED <<phase, request, reply, expired, asking, seen, result, workerVars>>

ReleaseSlot ==
  /\ caller = "release"
  /\ phase' = "Idle"
  /\ Return(decision)
  /\ UNCHANGED <<request, reply, expired, seen, decision, workerVars>>

\* A plausible slip: the thread goes to sleep without the kernel comparing the word.
MutSleep ==
  /\ caller = "act"
  /\ ~expired
  /\ caller' = "asleep"
  /\ UNCHANGED <<phase, request, reply, expired, asking, seen, decision, result, workerVars>>

\* Past the deadline (or futex failed): compare-exchange to Abandoned, else look again.
Abandon ==
  /\ caller = "act"
  /\ IF phase = seen
     THEN phase' = "Abandoned" /\ Return(NoEvent)
     ELSE phase' = phase /\ caller' = "load" /\ UNCHANGED <<asking, result>>
  /\ UNCHANGED <<request, reply, expired, seen, decision, workerVars>>

\* FUTEX_WAIT sleeps only while the word still has the value just loaded.
Sleep ==
  /\ caller = "act"
  /\ ~expired
  /\ caller' = IF phase = seen THEN "asleep" ELSE "load"
  /\ UNCHANGED <<phase, request, reply, expired, asking, seen, decision, result, workerVars>>

\* Timeout, EINTR or a spurious wake.
WakeUp ==
  /\ caller = "asleep"
  /\ caller' = "load"
  /\ UNCHANGED <<phase, request, reply, expired, asking, seen, decision, result, workerVars>>

CallerStep ==
  \/ WriteRequest \/ PublishRequest \/ Load \/ ReadReply \/ ReleaseSlot
  \/ Abandon \/ Sleep \/ WakeUp

\* The deadline passes.
Expire ==
  /\ caller # "out"
  /\ ~expired
  /\ expired' = TRUE
  /\ UNCHANGED <<phase, request, reply, callerVars, workerVars>>

-----------------------------------------------------------------------------
(* The worker thread: take and complete. *)

\* take: claim a request, or notice an abandoned one, or find nothing.
Take ==
  /\ worker = "free"
  /\ \/ phase = "Request" /\ phase' = "Processing" /\ worker' = "copy"
     \/ phase = "Abandoned" /\ worker' = "ack" /\ UNCHANGED phase
  /\ UNCHANGED <<request, reply, expired, callerVars, taken>>

Acknowledge ==
  /\ worker = "ack"
  /\ phase' = "Idle"
  /\ worker' = "free"
  /\ UNCHANGED <<request, reply, expired, callerVars, taken>>

CopyRequest ==
  /\ worker = "copy"
  /\ taken' = request
  /\ worker' = "busy"
  /\ UNCHANGED <<phase, request, reply, expired, callerVars>>

\* complete(packet): fill the buffer, then publish it.
WriteReply(packet) ==
  /\ worker = "busy"
  /\ reply' = packet
  /\ worker' = "cas"
  /\ UNCHANGED <<phase, request, expired, callerVars, taken>>

PublishReply ==
  /\ worker = "cas"
  /\ IF phase = "Processing"
     THEN phase' = "Reply" /\ worker' = "wake"
     ELSE phase' = phase /\ worker' = "drop"
  /\ UNCHANGED <<request, reply, expired, callerVars, taken>>

\* The request was abandoned meanwhile: free the slot.
DropReply ==
  /\ worker = "drop"
  /\ phase' = "Idle"
  /\ worker' = "wake"
  /\ UNCHANGED <<request, reply, expired, callerVars, taken>>

Wake ==
  /\ worker = "wake"
  /\ worker' = "free"
  /\ taken' = NoEvent
  /\ caller' = IF caller = "asleep" THEN "load" ELSE caller
  /\ UNCHANGED <<phase, request, reply, expired, asking, seen, decision, result>>

CompleteStep == PublishReply \/ DropReply \/ Wake

-----------------------------------------------------------------------------
(* The mailbox with a worker that answers the request it took, or fails to. *)

WorkerStep ==
  \/ Take \/ Acknowledge \/ CopyRequest
  \/ \E packet \in {taken, NoEvent} : WriteReply(packet)
  \/ CompleteStep

MailNext == (\E e \in Events : Enter(e)) \/ CallerStep \/ Expire \/ WorkerStep

\* The clock and the callback thread advance; the worker need not.
MailFairness == WF_mailVars(CallerStep) /\ WF_mailVars(Expire)

MailSpec == MailInit /\ [][MailNext]_mailVars /\ MailFairness

-----------------------------------------------------------------------------
\* Every variable keeps its type.
MailTypeOK ==
  /\ phase \in Phases
  /\ request \in Events \cup {NoEvent}
  /\ reply \in Events \cup {NoEvent}
  /\ expired \in BOOLEAN
  /\ caller \in CallerAt
  /\ asking \in Events \cup {NoEvent}
  /\ seen \in Phases
  /\ worker \in WorkerAt
  /\ taken \in Events \cup {NoEvent}
  /\ decision \in Events \cup {NoEvent}
  /\ result \in (Events \cup {NoEvent}) \X (Events \cup {NoEvent})

\* The plain buffers are never accessed by both threads at once: the callback
\* does not refill request while the worker copies it, nor read reply while the
\* worker fills it ("a timed-out in-flight slot cannot be reused until the
\* worker acknowledges abandonment").
BuffersUnshared ==
  /\ ~(caller = "write" /\ worker = "copy")
  /\ ~(caller = "read" /\ worker = "busy")

\* A completed reply always has its wake-up still coming, so the callback never
\* sleeps out its deadline over a reply that is there ("Atomic value check in
\* the kernel prevents a lost completion wake between load and sleep").
NoLostWake ==
  caller = "asleep" /\ phase = "Reply" => worker = "wake"

\* The mailbox implements the one-slot question: decide returns, once, the
\* decision on its own event or none, whatever the worker does.
Slot == INSTANCE DecisionSlot WITH asked <- asking

\* decide implements DecisionSlot, its promise to return included.
ImplementsSlot == Slot!SlotSpec

-----------------------------------------------------------------------------
(* The inductive invariant behind the safety properties. *)

\* The worker holds a request of the callback only through the phase word.
\* Each line says which thread owns the slot in one phase.
MailInv ==
  /\ MailTypeOK
  /\ caller = "out" <=> asking = NoEvent
  /\ caller \in {"write", "publish"} => phase = "Idle"
  /\ caller \in {"load", "act", "asleep"} => phase \in {"Request", "Processing", "Reply"}
  /\ caller \in {"read", "release"} => phase = "Reply"
  /\ caller = "out" => phase \in {"Idle", "Abandoned"}
  /\ caller \in {"publish", "load", "act", "asleep"} => request = asking
  /\ phase \in {"Idle", "Request", "Reply"} => worker \in {"free", "wake"}
  /\ phase = "Processing" => worker \in {"copy", "busy", "cas"}
  /\ phase = "Abandoned" => worker \in {"free", "wake", "ack", "copy", "busy", "cas", "drop"}
  /\ phase = "Processing" /\ worker \in {"busy", "cas"} => taken = asking
  /\ phase = "Processing" /\ worker = "cas" => reply \in {asking, NoEvent}
  /\ phase = "Reply" => reply \in {asking, NoEvent}
  /\ caller = "release" => decision \in {asking, NoEvent}
  /\ caller \in {"act", "asleep"} => seen # "Reply"
  /\ NoLostWake

=============================================================================
