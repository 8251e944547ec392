----------------------------- MODULE Admission ------------------------------
(***************************************************************************)
(* When the native Hyprland plugin may ask the daemon about a key: the     *)
(* reconciliation proof of stock_adapter.cpp.  A proof is an announcement  *)
(* to the daemon (lifecycle reason 8, "boundary") that nothing is held,    *)
(* the keyboard maps are known, the output is settled and the focused      *)
(* client was entered; every change of focus, device, layout or connection *)
(* takes it back, and a 50 ms timer and every key event try to renew it.   *)
(*                                                                         *)
(* The compositor thread's state is one record, n, and the functions its   *)
(* callbacks call are operators on it, so that an action is a whole        *)
(* callback.  The worker thread connects and drops between callbacks.      *)
(* Every keyboard has one key; the ownership ledger is reduced to which    *)
(* keyboards' key it owns (owned) and forwards (fwd), Routing has the      *)
(* rest.  Session lock is reduced to the phase a keymap mismatch closes.   *)
(***************************************************************************)
EXTENDS Naturals, FiniteSets

CONSTANTS
    Keyboards,     \* physical keyboards
    Maps,          \* keymaps
    Draining,      \* whether the drain command is given
    None

ASSUME AdmissionAssumption == None \notin Keyboards

VARIABLES
    n,             \* the adapter, see Adapter
    attached,      \* the compositor's keyboards
    map,           \* the keymap of each keyboard
    pressed,       \* the keyboards whose key is physically down
    focus          \* some client has the keyboard focus

vars == <<n, attached, map, pressed, focus>>
world == <<attached, map, pressed, focus>>

Adapter ==
    [slot : [Keyboards -> Maps \cup {None}],   \* registered keyboards and their map
     active : Keyboards \cup {None},           \* the seat's keyboard, the consumer
     compatible : BOOLEAN,                     \* mapsCompatible
     projection : BOOLEAN,                     \* projectionKnown
     dirty : BOOLEAN,                          \* lifecycleDirty
     owned : SUBSET Keyboards,
     fwd : SUBSET Keyboards,
     ledger : BOOLEAN,                         \* the stock ledger shows a key down
     fatal : BOOLEAN,                          \* Router::fatal
     uncertain : BOOLEAN,                      \* OutputRecovery
     affected : BOOLEAN,                       \* an affected output route is alive
     fresh : BOOLEAN,                          \* freshBinding
     bound : BOOLEAN,                          \* recoveryBindingQualified
     startup : BOOLEAN,                        \* startupOutputPending
     closed : BOOLEAN,                         \* phase is not Open
     current : BOOLEAN,                        \* readyGeneration is the worker's
     connected : BOOLEAN,                      \* the worker's ready flag
     reconciled : BOOLEAN,                     \* initialReconciled
     told : BOOLEAN,                           \* this connection's last control is the boundary
     drain : {"Running", "Draining", "Detached"}]

TypeOK ==
    /\ n \in Adapter
    /\ n.fwd \subseteq n.owned
    /\ \A k \in Keyboards \ attached : n.slot[k] = None /\ k # n.active
    /\ attached \subseteq Keyboards /\ pressed \subseteq attached
    /\ map \in [Keyboards -> Maps \cup {None}]
    /\ \A k \in Keyboards : map[k] \in IF k \in attached THEN Maps ELSE {None}
    /\ focus \in BOOLEAN

\* Loading needs a released, unlocked desk with a verified active keyboard.
Init ==
    /\ attached \in SUBSET Keyboards \ {{}}
    /\ map \in {f \in [Keyboards -> Maps \cup {None}] :
                   \A k \in Keyboards : f[k] = None <=> k \notin attached}
    /\ pressed = {}
    /\ focus \in BOOLEAN
    /\ \E k \in attached :
        n = [slot |-> map,
             active |-> k, compatible |-> TRUE, projection |-> TRUE, dirty |-> FALSE,
             owned |-> {}, fwd |-> {}, ledger |-> FALSE, fatal |-> FALSE,
             uncertain |-> FALSE, affected |-> FALSE, fresh |-> FALSE, bound |-> FALSE,
             startup |-> TRUE, closed |-> FALSE, current |-> TRUE, connected |-> FALSE,
             reconciled |-> FALSE,
             told |-> FALSE, drain |-> "Running"]

-----------------------------------------------------------------------------
(* Predicates.                                                             *)

Quiescent(s) == s.owned = {} /\ ~s.fatal

\* consumerMapKnown.
MapKnown(s) ==
    /\ s.compatible /\ s.projection
    /\ s.active # None
    /\ s.slot[s.active] = map[s.active]

\* admissionBlock = Ready: held is what is physically down before this event.
Admissible(s, held, recovering) ==
    /\ MapKnown(s)
    /\ IF recovering THEN s.owned = {} ELSE Quiescent(s)
    /\ ~s.closed
    /\ \A k \in attached : s.slot[k] = map[k] /\ k \notin held

\* nativeOutputReconciled.
OutputReconciled(s, recovering, retiring) ==
    /\ ~s.ledger /\ MapKnown(s) /\ s.fwd = {}
    /\ recovering \/ ~s.uncertain
    /\ ~s.dirty
    /\ retiring \/ ~s.startup

-----------------------------------------------------------------------------
(* The functions the callbacks share.                                      *)

MutEnsureBinding(s) ==
    IF s.drain # "Running" \/ ~s.connected THEN s ELSE [s EXCEPT !.current = TRUE]

\* ensureConnectionBinding: a lost or a new connection starts without proof.
EnsureBinding(s) ==
    IF s.drain # "Running" THEN s
    ELSE [s EXCEPT !.reconciled = @ /\ s.connected /\ s.current,
                   !.current = @ \/ s.connected]

Bound(s) == s.drain = "Running" /\ s.connected

\* lifecycle: queued says whether the worker's queue took the control.
Tell(s, boundary, queued) ==
    LET e == EnsureBinding(s)
    IN  IF Bound(e) /\ queued THEN [e EXCEPT !.told = boundary] ELSE e

\* closeStream: worker->invalidate() drops the connection.
Close(s) == [s EXCEPT !.reconciled = FALSE, !.connected = FALSE]

MutBeginLifecycle(s, queued) ==
    LET e == EnsureBinding(s)
    IN  IF e.reconciled THEN Tell(e, FALSE, queued) ELSE e

\* beginLifecycle: the daemon is told to reset, or loses its stream.
BeginLifecycle(s, queued) ==
    LET e == EnsureBinding(s)
        r == [e EXCEPT !.reconciled = FALSE]
    IN  IF ~e.reconciled THEN r
        ELSE IF queued THEN Tell(r, FALSE, TRUE) ELSE Close(r)

\* reconcileInitial: bind, prove, announce.
ReconcileInitial(s, held, queued) ==
    LET e == EnsureBinding(s)
    IN  IF /\ Bound(e) /\ ~e.reconciled
           /\ OutputReconciled(e, FALSE, FALSE) /\ e.bound
           /\ Admissible(e, held, FALSE)
           /\ queued
        THEN [Tell(e, TRUE, TRUE) EXCEPT !.reconciled = TRUE]
        ELSE e

MutTryRecovery(s, physical) ==
    IF /\ s.drain # "Detached" /\ s.uncertain /\ ~s.affected
       /\ OutputReconciled(s, TRUE, FALSE) /\ Admissible(s, physical, TRUE) /\ s.bound
    THEN [s EXCEPT !.fatal = FALSE, !.uncertain = FALSE, !.fresh = FALSE, !.reconciled = FALSE]
    ELSE s

\* tryOutputRecovery: affected routes are gone, a fresh enter was completed.
TryRecovery(s, physical) ==
    IF /\ s.drain # "Detached"
       /\ s.uncertain /\ ~s.affected /\ s.fresh
       /\ OutputReconciled(s, TRUE, FALSE) /\ Admissible(s, physical, TRUE) /\ s.bound
    THEN [s EXCEPT !.fatal = FALSE, !.uncertain = FALSE, !.fresh = FALSE, !.reconciled = FALSE]
    ELSE s

\* ResearchOutput::uncertain and a partial replacement.
Uncertain(s) == [s EXCEPT !.fatal = TRUE, !.uncertain = TRUE, !.affected = TRUE, !.fresh = FALSE]

\* Maps are prepared as soon as a keyboard is registered with them.
Prepared(s, k) == map[k] \in {s.slot[d] : d \in Keyboards}

\* selectConsumer.
SelectConsumer(s, k) == [s EXCEPT !.projection = s.slot[k] = map[k]]

\* ConsumerSelectionProof::retainsAdmission for the switch to k.
Retains(s, k) ==
    /\ s.reconciled /\ Bound(s) /\ s.bound
    /\ MapKnown(s) /\ s.slot[k] = map[k] /\ map[s.active] = map[k]
    /\ ~s.closed /\ ~s.fatal /\ ~s.dirty /\ ~s.startup /\ ~s.uncertain

-----------------------------------------------------------------------------
(* The worker thread.                                                      *)

Connect ==
    /\ ~n.connected
    /\ n' = [n EXCEPT !.connected = TRUE, !.current = FALSE, !.told = FALSE]
    /\ UNCHANGED world

Drop ==
    /\ n.connected
    /\ n' = [n EXCEPT !.connected = FALSE]
    /\ UNCHANGED world

-----------------------------------------------------------------------------
(* The registry timer.                                                     *)

\* A plausible slip: maps that could not be rebuilt are not tried again.
MutRebuild(s) ==
    IF ~s.dirty \/ ~Quiescent(s) \/ s.closed THEN s
    ELSE [s EXCEPT !.compatible = ~(s.active = None \/ pressed # {}), !.dirty = FALSE]

\* rebuildEquivalentMaps, deferred while anything is owned or closed.
Rebuild(s) ==
    IF ~s.dirty \/ ~Quiescent(s) \/ s.closed THEN s
    ELSE IF s.active = None \/ pressed # {} THEN [s EXCEPT !.compatible = FALSE]
    ELSE [s EXCEPT !.compatible = TRUE, !.dirty = FALSE]

\* registerExisting: a known keyboard takes a new map when quiescent, a new one
\* is taken when it is released.
Register(s) ==
    [s EXCEPT !.slot = [k \in Keyboards |->
        IF \/ k \in attached /\ s.slot[k] # None /\ Quiescent(s)
           \/ k \in attached /\ s.slot[k] = None /\ k \notin pressed
        THEN map[k] ELSE s.slot[k]]]

Reproject(s) ==
    IF ~s.projection /\ s.active # None /\ Prepared(s, s.active)
    THEN SelectConsumer(s, s.active) ELSE s

\* reconcileStartupOutput: the focused client is entered again with nothing held.
StartupOutput(s) ==
    IF s.startup /\ s.drain = "Running" /\ Admissible(s, pressed, FALSE) /\ focus
    THEN [s EXCEPT !.bound = TRUE, !.startup = FALSE, !.fresh = s.uncertain /\ ~s.affected]
    ELSE s

Tick(queued) ==
    /\ n.drain # "Detached"
    /\ \E r \in {Reproject(Register(Rebuild(n)))} :
       \E l \in {IF \E k \in Keyboards : n.slot[k] = None /\ r.slot[k] # None
                 THEN BeginLifecycle(r, queued) ELSE r} :
       \E o \in {StartupOutput(l)} :
          n' = ReconcileInitial(o, pressed, queued)
    /\ UNCHANGED world

-----------------------------------------------------------------------------
(* Device, layout and focus callbacks.                                     *)

NewKeyboard(k, m, held, queued) ==
    /\ n.drain # "Detached"
    /\ k \notin attached
    /\ attached' = attached \cup {k}
    /\ map' = [map EXCEPT ![k] = m]
    /\ pressed' = IF held THEN pressed \cup {k} ELSE pressed
    /\ n' = [BeginLifecycle(n, queued) EXCEPT !.dirty = TRUE]
    /\ UNCHANGED focus

DestroyKeyboard(k, queued) ==
    /\ n.drain # "Detached"
    /\ k \in attached
    /\ LET b == BeginLifecycle(n, queued)
           u == IF k \in b.fwd /\ b.fwd = {k} THEN Uncertain(b) ELSE b
       IN  n' = [u EXCEPT !.slot[k] = None, !.owned = @ \ {k}, !.fwd = @ \ {k},
                          !.active = IF @ = k THEN None ELSE @, !.dirty = TRUE]
    /\ attached' = attached \ {k}
    /\ pressed' = pressed \ {k}
    /\ map' = [map EXCEPT ![k] = None]
    /\ UNCHANGED focus

\* setKeyboardLayout goes through only on a released desk.
SetLayout(m, queued) ==
    /\ n.drain # "Detached"
    /\ Quiescent(n) /\ ~n.closed /\ pressed = {}
    /\ map' = [k \in Keyboards |-> IF k \in attached THEN m ELSE map[k]]
    /\ n' = [BeginLifecycle(n, queued) EXCEPT !.dirty = TRUE]
    /\ UNCHANGED <<attached, pressed, focus>>

\* selectKeyboard: stock picks another consumer.
SelectKeyboard(k) ==
    /\ n.drain # "Detached"
    /\ k \in attached /\ k # n.active
    /\ LET s == IF Prepared(n, k) THEN SelectConsumer(n, k) ELSE [n EXCEPT !.projection = FALSE]
       IN  n' = [s EXCEPT !.active = k, !.reconciled = @ /\ s.projection]
    /\ UNCHANGED world

\* focus, and the enter of the new client when it has keyboards.
FocusChange(f, entered, queued) ==
    /\ n.drain # "Detached"
    /\ entered => f
    /\ focus' = f
    /\ n' = [Tell([n EXCEPT !.reconciled = FALSE], FALSE, queued) EXCEPT
                !.bound = entered, !.fresh = @ \/ (entered /\ n.uncertain /\ ~n.affected)]
    /\ UNCHANGED <<attached, map, pressed>>

\* keyboardResourceDestroyed, of an affected route or of another one.
ResourceDestroyed(hit, ours) ==
    /\ n.drain # "Detached"
    /\ n' = [n EXCEPT !.affected = @ /\ ~hit, !.fresh = FALSE, !.bound = @ /\ ~ours]
    /\ UNCHANGED world

-----------------------------------------------------------------------------
(* inputKey.  Stock has updated the physical state before it calls.        *)

\* Up to event(): map check, binding, recovery, consumer switch, proof.
Prepare(k, physical, queued) ==
    LET c == EnsureBinding(IF n.reconciled /\ ~MapKnown(n) THEN Close(n) ELSE n)
        t == TryRecovery(c, physical)
        switch == t.active # k /\ Prepared(t, k)
        s == SelectConsumer(t, k)
        b == IF ~switch THEN t
             ELSE IF ~s.projection THEN s
             ELSE [IF Retains(t, k) THEN s ELSE BeginLifecycle(s, queued) EXCEPT !.active = k]
    IN  ReconcileInitial(b, physical \ {k}, queued)

\* May the event be proposed to the daemon?
Proposes(s, k) ==
    /\ s.drain = "Running" /\ s.active = k
    /\ s.connected /\ s.reconciled
    /\ MapKnown(s) /\ ~s.closed

Verdicts == {"pass", "consume", "partial"}

\* The projection follows the keyboard of the event.
Project(s, k) ==
    IF Prepared(s, k) THEN SelectConsumer(s, k) ELSE [s EXCEPT !.projection = FALSE]

\* A press is forwarded or, when proposed, consumed, possibly with an output that
\* failed half way; a repeat follows its owner.
Press(s, k, verdict) ==
    LET p == Project(s, k)
    IN  IF k \in p.owned THEN p
        ELSE IF Proposes(p, k) /\ verdict # "pass" /\ ~p.fatal
        THEN [IF verdict = "partial" THEN Uncertain(p) ELSE p EXCEPT !.owned = @ \cup {k}]
        ELSE [p EXCEPT !.owned = @ \cup {k}, !.fwd = @ \cup {k}, !.ledger = TRUE]

\* A release gives the key back.
Release(s, k) ==
    [Project(s, k) EXCEPT !.owned = @ \ {k}, !.fwd = @ \ {k}, !.ledger = @ /\ k \notin s.fwd]

\* No modelled event: an unsolicited release, an unregistered keyboard, or one
\* whose map changed under its registration, which revokes every owned key.
Unmodelled(s, k) ==
    LET r == IF s.slot[k] \in {None, map[k]} THEN s
             ELSE [IF s.fwd # {} THEN Uncertain(s) ELSE s EXCEPT !.closed = TRUE, !.fwd = {}]
    IN  IF r.reconciled THEN Close(r) ELSE r

\* The end of a modelled event: the outcome is queued, recovery is tried.
Settle(s, r, k, queued) ==
    TryRecovery(IF Proposes(s, k) /\ ~queued THEN Close(r) ELSE r, pressed')

KeyDown(k, verdict, queued) ==
    /\ n.drain # "Detached"
    /\ k \in attached
    /\ pressed' = pressed \cup {k}
    /\ LET s == Prepare(k, pressed', queued)
       IN  n' = IF s.slot[k] = map[k] THEN Settle(s, Press(s, k, verdict), k, queued)
                ELSE Unmodelled(s, k)
    /\ UNCHANGED <<attached, map, focus>>

KeyUp(k, queued) ==
    /\ n.drain # "Detached"
    /\ k \in pressed
    /\ pressed' = pressed \ {k}
    /\ LET s == Prepare(k, pressed', queued)
       IN  n' = IF s.slot[k] = map[k] /\ k \in s.owned
                THEN Settle(s, Release(s, k), k, queued)
                ELSE Unmodelled(s, k)
    /\ UNCHANGED <<attached, map, focus>>

-----------------------------------------------------------------------------
(* Draining.                                                               *)

Drain ==
    /\ Draining
    /\ n.drain = "Running"
    /\ n' = [n EXCEPT !.drain = "Draining", !.reconciled = FALSE]
    /\ UNCHANGED world

MutStatus ==
    /\ n.drain = "Draining"
    /\ OutputReconciled(n, FALSE, TRUE)
    /\ n' = [n EXCEPT !.drain = "Detached"]
    /\ UNCHANGED world

\* The status command commits the drain when everything is settled.
Status ==
    /\ n.drain = "Draining"
    /\ Admissible(n, pressed, FALSE) /\ OutputReconciled(n, FALSE, TRUE)
    /\ n' = [n EXCEPT !.drain = "Detached"]
    /\ UNCHANGED world

\* Without a connection there is no queue to take a control.
Queue == IF n.connected THEN BOOLEAN ELSE {FALSE}

Callback ==
    \/ \E queued \in Queue : Tick(queued)
    \/ \E k \in Keyboards, m \in Maps, held \in BOOLEAN, queued \in Queue :
          NewKeyboard(k, m, held, queued)
    \/ \E k \in Keyboards, queued \in Queue : DestroyKeyboard(k, queued)
    \/ \E m \in Maps, queued \in Queue : SetLayout(m, queued)
    \/ \E k \in Keyboards : SelectKeyboard(k)
    \/ \E f, entered \in BOOLEAN, queued \in Queue : FocusChange(f, entered, queued)
    \/ \E hit, ours \in BOOLEAN : ResourceDestroyed(hit, ours)
    \/ \E k \in Keyboards, queued \in Queue, verdict \in Verdicts : KeyDown(k, verdict, queued)
    \/ \E k \in Keyboards, queued \in Queue : KeyUp(k, queued)
    \/ Drain
    \/ Status

Next == Connect \/ Drop \/ Callback

\* The timer rearms itself, and the worker keeps emptying its queue.
Fairness == WF_vars(Tick(TRUE))

Spec == Init /\ [][Next]_vars /\ Fairness

-----------------------------------------------------------------------------
(* Properties.                                                             *)

\* While the daemon is asked about keys, every key that is physically down is in
\* the ledger: a keyboard that appears with a key held, a layout change or a
\* registration in between never lets a hold through unowned.
HoldsAccounted == n.reconciled => pressed \subseteq n.owned

\* The daemon is asked only on a stream whose last control was the boundary: a new
\* connection, focus, device or layout always reaches it first.
BoundaryHeard ==
    n.reconciled /\ n.connected /\ n.current => n.told

\* The router is fatal exactly while a recovery is pending, so a failed output
\* neither admits events nor stays fatal without a way out.
FatalIsPending == n.fatal <=> n.uncertain

\* Both, with the types.
AdmissionInv == TypeOK /\ BoundaryHeard /\ FatalIsPending

\* An uncertain output is forgiven only after the affected route is gone and a
\* client was entered afterwards, with nothing owned.
ForgivenAfresh ==
    [][n.fatal /\ ~n'.fatal => ~n.affected /\ n.fresh /\ n'.owned = {}]_vars

\* The plugin detaches with nothing forwarded or owned, nothing shown as held to
\* a client and no uncertain output.
DetachesClean ==
    n.drain = "Detached" => n.owned = {} /\ ~n.ledger /\ ~n.fatal /\ ~n.uncertain

\* A released, connected, unlocked desk with an entered client is reconciled in
\* the end, whatever devices, layouts and connections came before.
Calm ==
    /\ n.connected /\ focus /\ (n.bound \/ n.startup)
    /\ pressed = {} /\ n.owned = {} /\ ~n.ledger
    /\ ~n.fatal /\ ~n.closed
    /\ n.active # None /\ n.drain = "Running"

Reconciles == []<>(Calm => n.reconciled)

=============================================================================
