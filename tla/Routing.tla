------------------------------ MODULE Routing -------------------------------
(***************************************************************************)
(* The compositor thread of the native Hyprland plugin: the hooked         *)
(* callbacks of stock_adapter.cpp around the Router, the lock phase, the   *)
(* physical devices and the forwarded keyboard projection, with the        *)
(* compositor's own key path as the environment.                           *)
(*                                                                         *)
(* One callback is one action, except where the original it wraps can call *)
(* back into the plugin: a key event is split at the stock call (KeyEntry, *)
(* nested Focus, KeyFinish) and so is a lock request (LockEnter, nested    *)
(* Focus, LockReturn).  Whether a proposal may be made at all (connection, *)
(* consumer, reconciliation) is the Admission module's subject and is a    *)
(* free choice here.  Input methods are left out.                          *)
(***************************************************************************)
EXTENDS Router

CONSTANT
    Clients        \* seat resources that can have the keyboard focus

VARIABLES
    router,        \* the Router
    held,          \* ForwardedKeyboardState::held, the keys a focus enter shows
    phase,         \* LockPhase
    bootstrap,     \* routerBootstrapPending
    seat,          \* ResearchOutput::seat, where a revocation writes its releases
    ledger,        \* StockPressedLedger, the keys that went to the seat
    fresh,         \* OutputRecovery::freshBinding
    cur,           \* the key event being routed, or None
    locking,       \* inside the original of a lock request
    protocol,      \* the session lock protocol says locked
    focused,       \* the client with the keyboard focus
    client,        \* the keys each client believes to be down
    down,          \* the keys physically down on each keyboard
    astray         \* stock and the ledger parted: see Astray

adapter == <<router, held, phase, bootstrap, seat, ledger, fresh, cur, locking>>
stock == <<protocol, focused, client, down, astray>>
vars == <<adapter, stock>>

Phases == {"Open", "Entering", "Locked"}
Replies == Decision \cup {None}

\* A key event under way: what was proposed and answered, what route() decided and
\* whether the focus moved since.
Callback ==
    [event : Event, ticket : Ticket \cup {None}, reply : Replies,
     result : [outcome : Outcomes, stock : BOOLEAN, client : BOOLEAN], moved : BOOLEAN]

ASSUME CallbackAssumption == None \notin Callback

TypeOK ==
    /\ router \in Routers
    /\ \A d \in Keyboards \ router.devices : router.owner[d] = Free
    /\ held \subseteq Keys /\ ledger \subseteq Keys
    /\ phase \in Phases
    /\ bootstrap \in BOOLEAN /\ fresh \in BOOLEAN /\ locking \in BOOLEAN
    /\ protocol \in BOOLEAN /\ astray \in BOOLEAN
    /\ seat \in Clients \cup {None} /\ focused \in Clients \cup {None}
    /\ client \in [Clients -> SUBSET Keys]
    /\ down \in [Keyboards -> SUBSET Keys]

\* Loading: keyboards without held keys are registered, the lock is observed once.
Init ==
    /\ router \in {[NewRouter EXCEPT !.devices = D] :
                      D \in {S \in SUBSET Keyboards : Cardinality(S) <= DeviceCount}}
    /\ held = {} /\ ledger = {}
    /\ protocol \in BOOLEAN
    /\ phase = IF protocol THEN "Locked" ELSE "Open"
    /\ bootstrap = TRUE /\ fresh = FALSE /\ locking = FALSE /\ astray = FALSE
    /\ seat = None
    /\ focused \in Clients \cup {None}
    /\ client = [c \in Clients |-> {}]
    /\ down = [d \in Keyboards |-> {}]
    /\ cur = None

-----------------------------------------------------------------------------
(* Shared by the callbacks.                                                *)

RouteLocked(p) == p # "Open"

\* ForwardedKeyboardState::synchronize.
Synchronize(r, lockerRoute) == HeldAs(r, IF lockerRoute THEN "LockerOwned" ELSE "Forwarded")

MutObserve(p, locked) == IF locked THEN "Locked" ELSE "Open"

\* LockPhase::observe.
Observe(p, locked) ==
    IF p = "Entering" THEN p ELSE IF locked THEN "Locked" ELSE "Open"

\* ResearchRoute::syncUnlock.
SyncUnlock ==
    LET p == Observe(phase, protocol)
        opens == phase # "Open" /\ p = "Open"
        r == IF opens THEN UnlockConfirmed(router) ELSE router
    IN  [router |-> r, phase |-> p, held |-> IF opens THEN Synchronize(r, FALSE) ELSE held]

\* tryOutputRecovery: the affected routes are gone, a fresh enter (f) was seen and
\* nothing is owned, projected (h) or left in stock's ledger (l).  Whether the
\* routes are gone is a free choice.
TryRecovery(r, p, h, l, f) ==
    {[router |-> r, fresh |-> f]} \cup
    (IF MayRecover(r) /\ f /\ h = {} /\ l = {} /\ focused # None /\ ~RouteLocked(p)
     THEN {[router |-> RecoverRetiredOutput(r), fresh |-> FALSE]} ELSE {})

\* The client sees the keys go up; a replacement goes down and up again.
Told(c, keys) == IF c = None THEN client ELSE [client EXCEPT ![c] = @ \ keys]

-----------------------------------------------------------------------------
(* inputKey.                                                               *)

\* Up to the stock call: unlock observation, recovery, ticket, decision, route.
KeyEntry(d, k, kind) ==
    /\ cur = None /\ ~locking
    /\ d \in router.devices
    /\ kind \in IF k \in down[d] THEN {"Up", "Repeat"} ELSE {"Down"}
    /\ down' = [down EXCEPT ![d] = IF kind = "Up" THEN @ \ {k} ELSE @ \cup {k}]
    /\ LET u == SyncUnlock
           e == [dev |-> d, key |-> k, kind |-> kind]
       IN  /\ phase' = u.phase
           /\ held' = u.held
           /\ \E rec \in TryRecovery(u.router, u.phase, u.held, ledger, fresh) :
              \E p \in {[router |-> rec.router, ticket |-> None]} \cup
                       (IF RouteLocked(u.phase) THEN {} ELSE Proposals(rec.router, e)) :
              \E reply \in IF p.ticket = None THEN {None} ELSE Replies :
              \E late \in BOOLEAN, delivery \in Deliveries :
                LET routed == Route(p.router, e, p.ticket, reply, late, delivery)
                IN  /\ router' = routed.router
                    /\ fresh' = (rec.fresh /\ routed.result.outcome # "PartialFatal")
                    /\ cur' = [event |-> e, ticket |-> p.ticket, reply |-> reply,
                               result |-> routed.result, moved |-> FALSE]
                    /\ client' = IF routed.result.outcome = "Replaced"
                                 THEN Told(focused, {reply.target}) ELSE client
    /\ UNCHANGED <<bootstrap, seat, ledger, locking, protocol, focused, astray>>

\* The full stock path also runs for a quarantined release, with output denied.
Cleanup == cur.event.kind = "Up" /\ cur.result.outcome = "Quarantined"
StockRuns == cur.result.stock \/ Cleanup

\* What the Outcome packet says.
MutOutcomeCode(outcome, kind, known, reply) ==
    CASE outcome = "Replaced" -> 0
      [] outcome = "PartialFatal" -> 2
      [] outcome = "Swallowed" -> 4
      [] outcome = "StockConsumed" -> 5
      [] outcome = "Merged" -> 7
      [] outcome = "LockerOwned" -> 8
      [] outcome = "Quarantined" -> 9
      [] outcome = "Rejected" -> 1
      [] outcome = "Forwarded" -> IF kind = "Down" /\ reply = None THEN 3 ELSE 6

OutcomeCode(outcome, kind, known, reply) ==
    CASE outcome = "Replaced" -> 0
      [] outcome = "PartialFatal" -> 2
      [] outcome = "Swallowed" -> 4
      [] outcome = "StockConsumed" -> 5
      [] outcome = "Merged" -> 7
      [] outcome = "LockerOwned" -> 8
      [] outcome = "Quarantined" -> 9
      [] outcome = "Rejected" /\ known -> 1
      [] outcome = "Forwarded" /\ known -> IF kind = "Down" /\ reply = None THEN 3 ELSE 6
      [] OTHER -> 2

\* keybind: the keybind manager's answer.  It admits a release or a repeat when it
\* admitted the press, which is what the ledger says of it unless they parted.
KeybindAnswers ==
    IF ~StockRuns THEN {FALSE}
    ELSE IF cur.event.kind = "Down" \/ astray THEN BOOLEAN
    ELSE IF Cleanup THEN {cur.event.key \in ledger}
    ELSE {cur.result.outcome # "StockConsumed"}

MutSeatLedger(admitted) ==
    IF ~admitted \/ ~cur.result.client THEN ledger
    ELSE IF cur.event.kind = "Up" THEN ledger \ {cur.event.key} ELSE ledger \cup {cur.event.key}

\* The seatKey hook notes the key first, whether or not the client gets it; the
\* locked branch does not come through the hook.
SeatLedger(admitted) ==
    IF ~admitted \/ (RouteLocked(phase) /\ ~Cleanup) THEN ledger
    ELSE IF cur.event.kind = "Up" THEN ledger \ {cur.event.key} ELSE ledger \cup {cur.event.key}

\* The rest of the callback, from the keybind manager's answer on.  The answer is
\* recorded before the seat is reached; the locked branch writes to the seat
\* itself, the other one through the seatKey hook, which records the seat.
Finish(admitted, late, delivery) ==
    LET e == cur.event
        locked == RouteLocked(phase)
        original == IF StockRuns THEN OriginalOutcome(router, e, cur.result, admitted)
                    ELSE [router |-> router, result |-> cur.result]
        routed == original.result.client /\ admitted
        invoked == routed /\ focused # None /\ ~locked
        last == IF e.kind = "Up" /\ cur.ticket # None
                THEN FinishRelease(original.router, cur.ticket, cur.reply, invoked,
                                   late, delivery, original.result.outcome)
                ELSE [router |-> original.router, outcome |-> original.result.outcome]
    IN  [router |-> last.router,
         held |-> Synchronize(original.router, locked),
         outcome |-> last.outcome,
         code |-> OutcomeCode(last.outcome, e.kind, invoked, cur.reply),
         delivered |-> routed /\ focused # None,
         seat |-> IF routed /\ ~locked THEN focused ELSE seat]

KeyFinish ==
    /\ cur # None
    /\ \E admitted \in KeybindAnswers, late \in BOOLEAN, delivery \in Deliveries :
       LET f == Finish(admitted, late, delivery)
           e == cur.event
       IN  /\ held' = f.held
           /\ \E rec \in TryRecovery(f.router, phase, f.held, SeatLedger(admitted),
                                     fresh /\ f.outcome # "PartialFatal") :
                /\ router' = rec.router
                /\ fresh' = rec.fresh
           /\ seat' = f.seat
           /\ ledger' = SeatLedger(admitted)
           /\ client' = IF ~f.delivered THEN client
                        ELSE IF e.kind # "Up" THEN [client EXCEPT ![focused] = @ \cup {e.key}]
                        ELSE Told(focused, {e.key} \cup
                                 IF f.outcome = "Replaced" THEN {cur.reply.target} ELSE {})
           /\ astray' = (astray \/ (/\ e.kind = "Down" /\ StockRuns /\ ~admitted
                                    /\ f.router.owner[e.dev][e.key] = "Forwarded"))
    /\ cur' = None
    /\ UNCHANGED <<phase, bootstrap, locking, protocol, focused, down>>

-----------------------------------------------------------------------------
(* Focus and session lock.                                                 *)

\* focus, then sendEnter through the enter hook: the old client forgets its keys,
\* the new one is shown the projection.
Focus(c) ==
    /\ cur # None => Cleanup \/ (StockRuns /\ ~RouteLocked(phase))
    /\ LET u == SyncUnlock
       IN  /\ router' = FocusChanged(u.router)
           /\ phase' = u.phase
           /\ held' = u.held
           /\ client' = [x \in Clients |-> IF x = c THEN u.held
                                           ELSE IF x = focused THEN {} ELSE client[x]]
    /\ focused' = c
    /\ fresh' \in {fresh, (c # None /\ router.fatal) \/ fresh}
    /\ cur' = IF cur = None THEN None ELSE [cur EXCEPT !.moved = TRUE]
    /\ UNCHANGED <<bootstrap, seat, ledger, locking, protocol, down, astray>>

\* keyboardResourceDestroyed: a client's keyboard resource goes away, and with it
\* the fresh enter that was to qualify a recovery.
KeyboardResourceDestroyed ==
    /\ fresh
    /\ fresh' = FALSE
    /\ UNCHANGED <<router, held, phase, bootstrap, seat, ledger, cur, locking, stock>>

\* lock: revoke() before the original.  Releases go to the seat recorded last.
LockEnter ==
    /\ cur = None /\ ~locking
    /\ phase' = "Entering"
    /\ router' = Lock(router)
    /\ held' = Synchronize(router', FALSE)
    /\ client' = Told(seat, HeldAs(router, "Forwarded"))
    /\ fresh' = (fresh /\ HeldAs(router, "Forwarded") = {})
    /\ locking' = TRUE
    /\ UNCHANGED <<bootstrap, seat, ledger, cur, protocol, focused, down, astray>>

\* Stock grants the lock somewhere inside its original, or never does.
LockGranted ==
    /\ locking
    /\ protocol' = TRUE
    /\ UNCHANGED <<adapter, focused, client, down, astray>>

\* originalReturned.
LockReturn ==
    /\ locking
    /\ locking' = FALSE
    /\ phase' = IF phase = "Entering" /\ protocol THEN "Locked" ELSE phase
    /\ UNCHANGED <<router, held, bootstrap, seat, ledger, fresh, cur, stock>>

\* The protocol's own unlock takes the locker's surface, and with it the focus,
\* away; the plugin learns of it in the next callback.
Unlock ==
    /\ cur = None /\ ~locking /\ protocol
    /\ protocol' = FALSE
    /\ focused' = None
    /\ client' = [c \in Clients |-> IF c = focused THEN {} ELSE client[c]]
    /\ UNCHANGED <<adapter, down, astray>>

-----------------------------------------------------------------------------
(* Devices and the initial boundary.                                       *)

\* The registry timer finds a released keyboard it does not know.
AttachKeyboard(d) ==
    /\ cur = None /\ ~locking
    /\ MayAdd(router, d)
    /\ router' = FocusChanged(Add(router, d))
    /\ UNCHANGED <<held, phase, bootstrap, seat, ledger, fresh, cur, locking, stock>>

\* destroyKeyboard: the device is retired, its last forwarded keys are released
\* on the recorded seat; the projection is not rebuilt here.
DestroyKeyboard(d) ==
    /\ cur = None /\ ~locking
    /\ d \in router.devices
    /\ LET lost == OnlyForwardedBy(router, d)
       IN  /\ router' = Retire(FocusChanged(router), d)
           /\ client' = Told(seat, lost)
           /\ fresh' = (fresh /\ lost = {})
           /\ astray' = (astray \/ lost # {} \/
                 \E k \in Keys : router.owner[d][k] \in {"LockerOwned", "Quarantined"})
    /\ down' = [down EXCEPT ![d] = {}]
    /\ UNCHANGED <<held, phase, bootstrap, seat, ledger, cur, locking, protocol, focused>>

\* bootstrapRouter, from the first full released proof.
Bootstrap ==
    /\ cur = None /\ ~locking
    /\ bootstrap
    /\ ~RouteLocked(phase)
    /\ Quiescent(router)
    /\ held = {} /\ \A d \in router.devices : down[d] = {}
    /\ router' = UnlockConfirmed(router)
    /\ bootstrap' = FALSE
    /\ UNCHANGED <<held, phase, seat, ledger, fresh, cur, locking, stock>>

Next ==
    \/ \E d \in Keyboards, k \in Keys, kind \in Kinds : KeyEntry(d, k, kind)
    \/ KeyFinish
    \/ \E c \in Clients \cup {None} : Focus(c)
    \/ KeyboardResourceDestroyed
    \/ LockEnter
    \/ LockGranted
    \/ LockReturn
    \/ Unlock
    \/ \E d \in Keyboards : AttachKeyboard(d)
    \/ \E d \in Keyboards : DestroyKeyboard(d)
    \/ Bootstrap

Spec == Init /\ [][Next]_vars

-----------------------------------------------------------------------------
(* Properties.                                                             *)

Idle == cur = None /\ ~locking
Open == Idle /\ ~router.locked /\ phase = "Open"

\* What the focused client believes to be down is what the router forwarded to
\* clients, key for key and whatever mixture of devices, focus changes, lock
\* cycles and stock keybindings came before, as long as no output is uncertain
\* (fatal) and no keyboard was removed under a held key.
ClientSeesForwarded ==
    Open /\ focused # None /\ ~router.fatal /\ ~astray
        => client[focused] = HeldAs(router, "Forwarded")

\* A key is owned exactly while it is physically down, so a released desk always
\* reaches the empty ownership that draining, layout changes and recovery need.
OwnedIsDown ==
    \A d \in Keyboards, k \in Keys : router.owner[d][k] # "None" <=> k \in down[d]

\* No proposal outlives route(): a leftover ticket would refuse every later one.
\* A settled release keeps its ticket until the callback ends.
NothingPending ==
    /\ router.pending = None
    /\ router.released # None => cur # None /\ cur.event.kind = "Up" /\ cur.ticket # None

\* The records of the lock agree: the router never routes to applications while
\* the phase is closed, and forwards nothing while it is locked; the phase is open
\* only on an unlocked session, and once the router is; an unlock not seen yet has
\* taken the focus away.
GateAgrees ==
    /\ ~router.locked => phase = "Open"
    /\ phase = "Open" => ~protocol /\ (bootstrap \/ ~router.locked)
    /\ locking => phase = "Entering"
    /\ phase = "Locked" /\ ~protocol => focused = None
    /\ router.locked =>
         \A d \in Keyboards, k \in Keys : router.owner[d][k] # "Forwarded"

\* A callback keeps its device, and its ticket falls behind when the focus moves.
CallbackOK ==
    cur # None =>
        /\ cur \in Callback
        /\ ~locking
        /\ cur.event.dev \in router.devices
        /\ phase = Observe(phase, protocol)
        /\ cur.ticket # None =>
             /\ cur.ticket.focus <= router.focus
             /\ cur.moved => cur.ticket.focus < router.focus

\* The owner that route() settles with an outcome.
OwnerOf(outcome) ==
    CASE outcome \in {"Forwarded", "Merged"} -> "Forwarded"
      [] outcome = "Swallowed" -> "Consumed"
      [] OTHER -> outcome

\* The owner a key had before the callback under way: what stock and the clients
\* still go by.
OwnerBefore(d, k) ==
    IF cur = None \/ cur.event.dev # d \/ cur.event.key # k \/ cur.event.kind = "Repeat"
    THEN router.owner[d][k]
    ELSE IF cur.event.kind = "Down" THEN "None" ELSE OwnerOf(cur.result.outcome)

HeldBefore(o) == {k \in Keys : \E d \in router.devices : OwnerBefore(d, k) = o}

\* What route() decided fits the owner it wrote and the one it found, and both
\* fit what the other keyboards hold.
DecisionAgrees ==
    cur # None =>
        LET e == cur.event
            own == router.owner[e.dev][e.key]
            was == OwnerBefore(e.dev, e.key)
            result == cur.result
            other == OtherForwarded(router, e.dev, e.key)
        IN  /\ result.outcome \in {"Merged", "Swallowed", "Replaced", "PartialFatal",
                                   "StockConsumed", "Quarantined"} => ~result.client
            /\ e.kind = "Down" =>
                 /\ own = IF router.locked THEN "LockerOwned"
                          ELSE IF result.stock THEN "Forwarded" ELSE "Consumed"
                 /\ result.client <=> (result.stock /\ ~(own = "Forwarded" /\ other))
                 /\ router.locked => result.outcome = "LockerOwned" /\ result.stock
            /\ e.kind = "Up" => own = "None"
            /\ e.kind # "Down" =>
                 /\ was # "None" /\ was = OwnerOf(result.outcome)
                 /\ result.outcome \notin {"Replaced", "PartialFatal", "Rejected"}
                 /\ result.outcome = "Merged" <=> was = "Forwarded" /\ e.kind = "Up" /\ other
                 /\ result.stock <=> \/ was \in {"Forwarded", "StockConsumed"}
                                     \/ was = "LockerOwned" /\ router.locked
                 /\ result.client <=> \/ result.outcome = "Forwarded"
                                      \/ was = "LockerOwned" /\ router.locked
                 /\ was = "Forwarded" => ~router.locked

\* An open gate projects what was forwarded before the callback under way.
HeldAgrees == phase = "Open" /\ ~astray => held = HeldBefore("Forwarded")

\* The focused client has what is projected, unless an uncertain output has not
\* been followed by a fresh enter.  Before the router opens it has at most what
\* the router keeps as the locker's.
ClientAgrees ==
    phase = "Open" /\ ~astray /\ focused # None =>
        /\ ~router.locked /\ (~router.fatal \/ fresh) => client[focused] = held
        /\ router.locked => client[focused] \subseteq HeldBefore("LockerOwned")

\* Every key in stock's ledger has a keyboard that keeps it for stock.
LedgerHeld ==
    ~astray => ledger \subseteq HeldBefore("Forwarded") \cup HeldBefore("Quarantined") \cup
                                IF phase = "Open" /\ router.locked
                                THEN HeldBefore("LockerOwned") ELSE {}

\* All of it, with the types: what every callback relies on and leaves behind.
RoutingInv ==
    /\ TypeOK /\ OwnedIsDown /\ NothingPending /\ GateAgrees
    /\ CallbackOK /\ DecisionAgrees
    /\ HeldAgrees /\ ClientAgrees /\ LedgerHeld

\* The gate reopens only on a session the protocol reports unlocked after a lock
\* whose original returned; never from inside a lock request.
ReopensAfterLock ==
    [][RouteLocked(phase) /\ ~RouteLocked(phase')
        => phase = "Locked" /\ ~protocol /\ ~locking]_vars

\* A key down across a lock stays quarantined until it is physically released or
\* its keyboard goes: no focus change, unlock or reconnection hands it back.
QuarantineHolds ==
    [][/\ phase # "Entering" /\ phase' = "Entering" =>
            \A d \in Keyboards, k \in Keys : router'.owner[d][k] \in {"None", "Quarantined"}
       /\ \A d \in Keyboards, k \in Keys :
            router.owner[d][k] = "Quarantined" /\ router'.owner[d][k] # "Quarantined"
                => k \notin down'[d]]_vars

\* Once everything is released nothing is left in the ledger of keys stock has
\* down, however many locks, focus changes and merged presses came between: it is
\* what draining and every reconciliation wait for.
LedgerSettles ==
    Idle /\ ~astray /\ (\A d \in router.devices : down[d] = {}) => ledger = {}

\* The Outcome the daemon is told is what happened, however the callback ends:
\* the original reached a client for the codes that say so and for no code that
\* denies it; uncertain (2) and locker-owned (8) promise nothing.  And a replacement
\* for a modifier's release follows that release on the same client: a focus change
\* nested in the stock path cancels it.
OutcomeTruthful ==
    cur # None => \A admitted \in KeybindAnswers, late \in BOOLEAN, delivery \in Deliveries :
        LET f == Finish(admitted, late, delivery)
        IN  /\ f.code \in {1, 3, 6} => f.delivered
            /\ f.code \in {4, 5, 7, 9} => ~f.delivered
            /\ f.code = 0 => f.delivered = (cur.event.kind = "Up")
            /\ cur.event.kind = "Up" /\ f.outcome \in {"Replaced", "PartialFatal"} => ~cur.moved

=============================================================================
