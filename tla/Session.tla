------------------------------ MODULE Session -------------------------------
(***************************************************************************)
(* The daemon's Hyprland worker: Bridge, Session, the Handler that joins   *)
(* them to the matching state, and the loops that run them, against the    *)
(* native plugin at the other end of the socket and the reload thread at   *)
(* the other end of the matching lock.                                     *)
(*                                                                         *)
(* mode is fixed by the command line: "research", "installed" (fresh downs *)
(* only) or "tap" (installed, releases proposed too).  The plugin is kept  *)
(* to what the wire shows of it (modules Routing and Admission have the    *)
(* rest): which keys it holds for whom, whether it has reconciled this     *)
(* connection, and the transaction it waits on.  Epoch numbers are not     *)
(* kept: a plugin whose epoch moved sends the Lock control that says so    *)
(* before anything else (n.stale).  A packet's 10 ms deadline may be over  *)
(* whenever it is read.                                                    *)
(***************************************************************************)
EXTENDS Transactions, Sequences

CONSTANTS
    MaxNonces,      \* MAX_CONNECTION_NONCES
    MaxRetired,     \* MAX_RETIRED_GENERATIONS
    MaxQueued       \* bound: packets in flight when the plugin sends more

KeyEvents == [press : Press, kind : {"Down", "Up"}]

ASSUME SessionAssumption ==
    /\ MaxNonces \in Nat /\ MaxRetired \in Nat /\ MaxQueued \in Nat
    /\ None \notin KeyEvents /\ None \notin [event : KeyEvents, decision : Decisions]

VARIABLES
    mode,
    x,              \* MatchingState: transactions and matcher, under one lock
    health,         \* its hyprland_health
    gap,            \* Handler.observation_gap
    b,              \* Bridge
    pc,             \* where the worker is
    cur,            \* the event being handled and its decision
    sock,           \* the connection the plugin's end is open on, or 0
    wire,           \* packets to the daemon
    reply,          \* the decision in the plugin's mailbox, or None
    n,              \* the plugin
    missed,         \* releases the handler could not observe
    tapped          \* the press observed last, when nothing observed came after it

vars == <<mode, x, health, gap, b, pc, cur, sock, wire, reply, n, missed, tapped>>

Installed == mode # "research"
TapRelease == mode = "tap"

Packet(op, arg) == [op |-> op, arg |-> arg]
EventOf(p, kind) == [press |-> p, kind |-> kind]

Nonces == 0..MaxNonces + 1
Packets ==
    [op : {"Lock"}, arg : BOOLEAN] \cup [op : {"Reset"}, arg : {2, 3, 8}] \cup
    [op : {"Retire"}, arg : Gens] \cup [op : {"Event"}, arg : KeyEvents] \cup
    [op : {"Outcome"}, arg : Codes]

\* Every variable keeps its type.
SessionTypeOK ==
    /\ mode \in {"research", "installed", "tap"}
    /\ x \in Matching(MaxNonces + 1)
    /\ health \in [connected : BOOLEAN, awaiting : BOOLEAN, locked : BOOLEAN, nonce : Nonces]
    /\ gap \in BOOLEAN
    /\ b \in [open : BOOLEAN, nonce : Nonces, awaiting : BOOLEAN, locked : BOOLEAN,
              retired : SUBSET Gens]
    /\ pc \in {"accept", "step", "outcome", "check", "stopped"}
    /\ cur \in [event : KeyEvents, decision : Decisions] \cup {None}
    /\ sock \in Nonces
    /\ wire \in Seq(Packets)
    /\ reply \in Decisions \cup {None}
    /\ n \in [bound : Nonces, reconciled : BOOLEAN, stale : BOOLEAN, locked : BOOLEAN,
              gens : SUBSET Gens, used : SUBSET Gens,
              owner : [Press -> {"none", "forwarded", "consumed", "quarantined"}],
              ask : KeyEvents \cup {None}]
    /\ missed \subseteq Press
    /\ tapped \in Press \cup {None}

Init ==
    /\ mode \in {"research", "installed", "tap"}
    /\ x = NewMatching
    /\ health = [connected |-> FALSE, awaiting |-> TRUE, locked |-> FALSE, nonce |-> 0]
    /\ gap = FALSE
    /\ b = [open |-> FALSE, nonce |-> 0, awaiting |-> TRUE, locked |-> FALSE, retired |-> {}]
    /\ pc = "accept" /\ cur = None
    /\ sock = 0 /\ wire = <<>> /\ reply = None
    /\ n = [bound |-> 0, reconciled |-> FALSE, stale |-> FALSE, locked |-> FALSE, gens |-> {},
            used |-> {}, owner |-> [p \in Press |-> "none"], ask |-> None]
    /\ missed = {} /\ tapped = None

daemon == <<x, health, gap, b, pc, cur, missed, tapped>>

-----------------------------------------------------------------------------
(* The worker.                                                             *)

\* Session::health.
Health(br) == [connected |-> br.open, awaiting |-> br.awaiting, locked |-> br.locked, nonce |-> br.nonce]

Invalidate(h) == [h EXCEPT !.connected = FALSE, !.awaiting = TRUE]

\* SessionHealth::operational as the status request evaluates it.
Operational ==
    health.connected /\ ~health.awaiting /\ ~health.locked /\ IsReconciled(x, health.nonce)

\* The worker's end closes: packets in flight and the decision are lost.
CloseEnd == sock' = 0 /\ wire' = <<>> /\ reply' = None

\* Only the installed loop looks at the matching state after a step.
AfterStep == IF Installed THEN "check" ELSE "step"
AfterError == IF Installed THEN "check" ELSE "accept"

\* A failed step, or a failed settlement: transport.take and Handler::disconnected.
Fail(matching) ==
    /\ x' = Disconnected(matching)
    /\ health' = Invalidate(health)
    /\ b' = [b EXCEPT !.open = FALSE]
    /\ pc' = AfterError /\ cur' = None /\ tapped' = None
    /\ CloseEnd

\* Bridge::reconnect (and the first handshake), then bind_matcher.
Accept ==
    /\ pc = "accept" /\ b.nonce <= MaxNonces
    /\ LET br == [b EXCEPT !.open = TRUE, !.nonce = @ + 1, !.awaiting = TRUE]
       IN  /\ b' = br
           /\ x' = AwaitReconciliation(x, br.nonce)
           /\ health' = IF Installed THEN Health(br) ELSE health
           /\ sock' = br.nonce
    /\ pc' = "step" /\ wire' = <<>> /\ reply' = None /\ tapped' = None
    /\ UNCHANGED <<mode, gap, cur, n, missed>>

\* The nonce history is full: the worker's thread returns the error.
HistoryFull ==
    /\ pc = "accept" /\ b.nonce > MaxNonces
    /\ pc' = "stopped"
    /\ x' = IF Installed THEN Disconnected(x) ELSE x
    /\ UNCHANGED <<mode, health, gap, b, cur, sock, wire, reply, n, missed, tapped>>

\* validate, and process_packet's own refusals.
Refused(packet) ==
    \/ packet.op = "Event" /\ packet.arg.press[1] \in b.retired
    \/ packet.op = "Retire" /\ (packet.arg \in b.retired \/ Cardinality(b.retired) >= MaxRetired)
    \/ packet.op = "Reset" /\ packet.arg = 8 /\ (b.locked \/ ~b.awaiting)
    \/ packet.op = "Outcome"

BridgeAfter(packet) ==
    CASE packet.op = "Lock" -> [b EXCEPT !.locked = packet.arg]
      [] packet.op = "Retire" -> [b EXCEPT !.retired = @ \cup {packet.arg}]
      [] packet.op = "Reset" -> [b EXCEPT !.awaiting = packet.arg # 8]

\* Handler::reset and Handler::unlocked_epoch.
Controlled(packet) ==
    LET noticed == IF packet.op = "Lock" /\ Installed THEN ObserveLockBoundary(x, b.nonce)
                   ELSE IF packet.op = "Reset" /\ packet.arg # 8 THEN AwaitLifecycle(x, b.nonce)
                   ELSE x
        proven == packet.op = "Reset" /\ packet.arg = 8 /\ noticed.recovery = b.nonce
    IN  IF packet.op = "Lock" /\ Installed /\ ~b.locked /\ ~packet.arg
        THEN ObserveUnlockedEpoch(x, b.nonce)
        ELSE IF proven THEN Reconciled(noticed, b.nonce)
        ELSE IF packet.op = "Retire" THEN RetireDevice(InvalidateSpeculation(noticed), packet.arg)
        ELSE InvalidateSpeculation(noticed)

\* Its part of the health: a lock or lifecycle control suspends the session at once.
HealthAfter(packet) ==
    IF Installed /\ ~(packet.op = "Lock" /\ ~b.locked /\ ~packet.arg)
       /\ (packet.op = "Lock" \/ (packet.op = "Reset" /\ packet.arg # 8))
    THEN [health EXCEPT !.awaiting = TRUE] ELSE health

\* A validated control.
Control ==
    /\ pc = "step" /\ wire # <<>> /\ Head(wire).op # "Event" /\ ~Refused(Head(wire))
    /\ LET packet == Head(wire)
       IN  /\ b' = BridgeAfter(packet)
           /\ x' = Controlled(packet)
           /\ health' = HealthAfter(packet)
           /\ missed' = IF x'.owner = NewMatching.owner THEN {} ELSE missed
    /\ wire' = Tail(wire) /\ pc' = AfterStep /\ tapped' = None
    /\ UNCHANGED <<mode, gap, cur, sock, reply, n>>

\* The passive poll and the locked bridge propose nothing.
Proposing(event) ==
    /\ ~Installed \/ ~b.awaiting
    /\ ~b.locked
    /\ event.kind = "Down" \/ TapRelease

\* A plausible slip: an event that could not be observed leaves no trace.
MutProposals(event) ==
    IF ~Proposing(event) THEN {[x |-> x, decision |-> "Pass", gap |-> gap]}
    ELSE {[x |-> x, decision |-> "Pass", gap |-> TRUE]} \cup
         {[x |-> r.x, decision |-> r.decision, gap |-> FALSE] :
            r \in Propose(x, event.press, event.kind, TapRelease, ~Installed)}

\* Handler::propose: the matching lock is only tried.
Proposals(event) ==
    LET fresh == IF gap THEN InvalidateSpeculation(x) ELSE x
    IN  IF ~Proposing(event) THEN {[x |-> x, decision |-> "Pass", gap |-> gap]}
        ELSE {[x |-> x, decision |-> "Pass", gap |-> TRUE]} \cup
             {[x |-> r.x, decision |-> r.decision, gap |-> FALSE] :
                r \in Propose(fresh, event.press, event.kind, TapRelease, ~Installed)}

\* A proposal, and its decision sent; the plugin may have stopped waiting.
Event ==
    /\ pc = "step" /\ wire # <<>> /\ Head(wire).op = "Event" /\ ~Refused(Head(wire))
    /\ sock # 0
    /\ \E event \in {Head(wire).arg} : \E r \in Proposals(event) :
          /\ x' = r.x /\ gap' = r.gap
          /\ cur' = [event |-> event, decision |-> r.decision]
          /\ reply' = IF n.ask = event THEN r.decision ELSE None
          /\ missed' = IF event.kind = "Up" /\ TapRelease
                       THEN IF Proposing(event) /\ ~r.gap THEN missed \ {event.press}
                            ELSE missed \cup {event.press}
                       ELSE missed
          /\ tapped' = IF event.kind = "Down" /\ Proposing(event) /\ ~r.gap THEN event.press
                       ELSE IF \/ event.kind = "Up" /\ r.x.pending # None
                               \/ event.kind = "Up" /\ Proposing(event) /\ ~r.gap /\ event.press \notin x.downs
                       THEN tapped ELSE None
    /\ wire' = Tail(wire) /\ pc' = "outcome"
    /\ UNCHANGED <<mode, health, b, sock, n>>

\* Handler::delivery.
DeliveryTo(code) ==
    IF cur.event.kind = "Down" \/ TapRelease THEN OnDelivery(x, code)
    ELSE SettleDeviceEvent(x, cur.event.press, cur.event.kind, code)

\* The outcome answers this event and this decision.
Correlated(packet) ==
    /\ packet.op = "Outcome"
    /\ packet.arg = "Replaced" => cur.decision = "Replace"
    /\ (cur.event.kind = "Down" /\ packet.arg = "Swallowed") => cur.decision = "Swallow"

\* event_traced, from the send on.
Outcome ==
    /\ pc = "outcome" /\ wire # <<>> /\ Correlated(Head(wire)) /\ Head(wire).arg # "Partial"
    /\ x' = DeliveryTo(Head(wire).arg)
    /\ wire' = Tail(wire) /\ pc' = AfterStep /\ cur' = None
    /\ tapped' = IF x.pending # None THEN None ELSE tapped
    /\ UNCHANGED <<mode, health, gap, b, sock, reply, n, missed>>

\* No outcome in time, a wrong one, or one that says the output is partial.
Uncertain ==
    /\ pc = "outcome"
    /\ Fail(IF wire # <<>> /\ Head(wire) = Packet("Outcome", "Partial")
            THEN DeliveryTo("Partial") ELSE DeliveryTo(None))
    /\ UNCHANGED <<mode, gap, n, missed>>

\* A refused or stale packet, or the plugin's end is closed and read empty.
StepFails ==
    /\ pc = "step" /\ (wire # <<>> \/ sock = 0)
    /\ Fail(x)
    /\ UNCHANGED <<mode, gap, n, missed>>

\* run_session between two steps: publish the health, notice uncertainty.
Check ==
    /\ pc = "check"
    /\ IF ~b.open \/ NeedsReconciliation(x)
       THEN /\ b' = [b EXCEPT !.open = FALSE, !.awaiting = TRUE]
            /\ x' = Disconnected(x)
            /\ health' = Invalidate(Health(b))
            /\ pc' = "accept" /\ tapped' = None
            /\ CloseEnd
       ELSE /\ health' = Health(b) /\ pc' = "step"
            /\ UNCHANGED <<b, x, tapped, sock, wire, reply>>
    /\ UNCHANGED <<mode, gap, cur, n, missed>>

Worker == Accept \/ HistoryFull \/ Control \/ Event \/ Outcome \/ Uncertain \/ StepFails \/ Check

\* The reload thread: publish takes the lock, invalidates and swaps the rules.
Reload ==
    /\ x' = InvalidateSpeculation(x) /\ x' # x
    /\ tapped' = None
    /\ UNCHANGED <<mode, health, gap, b, pc, cur, sock, wire, reply, n, missed>>

-----------------------------------------------------------------------------
(* The plugin, on the compositor's thread.                                 *)

\* ensureBinding: what a new or lost connection does to the plugin's state.
Bound ==
    IF sock = 0 THEN [n EXCEPT !.reconciled = FALSE]
    ELSE IF n.bound # sock THEN [n EXCEPT !.bound = sock, !.reconciled = FALSE, !.stale = TRUE]
    ELSE n

\* Packets m sends with a body: the epoch's Lock control goes first.
Sent(m, body) ==
    IF sock = 0 THEN wire
    ELSE wire \o (IF m.stale THEN <<Packet("Lock", m.locked)>> ELSE <<>>) \o body

Room == Len(wire) <= MaxQueued

\* The plugin ends up in m having sent body.
Sends(m, body) ==
    /\ Room
    /\ wire' = Sent(m, body)
    /\ n' = [m EXCEPT !.stale = @ /\ sock = 0]
    /\ UNCHANGED <<mode, daemon, sock, reply>>

CanPropose == sock # 0 /\ Bound.reconciled /\ ~n.locked

\* A key moves: a transaction where one is possible, the stock path elsewhere.
Key(p, kind) ==
    /\ n.ask = None /\ p[1] \in n.gens
    /\ kind = "Down" <=> n.owner[p] = "none"
    /\ IF CanPropose
       THEN Sends([Bound EXCEPT !.ask = EventOf(p, kind)], <<Packet("Event", EventOf(p, kind))>>)
       ELSE /\ n' = [Bound EXCEPT !.owner[p] =
                        CASE kind = "Up" -> "none"
                          [] n.locked -> "quarantined"
                          [] OTHER -> "forwarded"]
            /\ UNCHANGED <<mode, daemon, sock, wire, reply>>

\* The owner and outcome a press ends with, for the answer that was in time.
DownResults(answer) ==
    {<<"forwarded", "Stock">>, <<"forwarded", "Partial">>} \cup
    CASE answer = None -> {<<"forwarded", "Timeout">>}
      [] answer = "Pass" -> {<<"forwarded", "Admitted">>}
      [] answer = "Swallow" -> {<<"consumed", "Swallowed">>}
      [] answer = "Replace" -> {<<"consumed", "Replaced">>, <<"forwarded", "Rejected">>,
                                <<"consumed", "Partial">>}

UpResults(answer, owner) ==
    CASE owner = "consumed" -> {"Swallowed"}
      [] owner = "quarantined" -> {"Quarantined"}
      [] owner = "forwarded" -> {"Admitted", "Stock", "Partial"} \cup
            (IF answer = "Replace" THEN {"Replaced", "Rejected"} ELSE {})

\* A stock binding run before the outcome may change the focus.
Nested(m, nested) ==
    IF nested THEN [m EXCEPT !.reconciled = FALSE, !.stale = TRUE] ELSE m

\* The answer came or the wait is over, whatever the worker still has to read: the press
\* is owned and reported.
Settle(nested) ==
    /\ n.ask # None
    /\ LET p == n.ask.press
           results == IF n.ask.kind = "Down" THEN DownResults(reply)
                      ELSE {<<"none", code>> : code \in UpResults(reply, n.owner[p])}
       IN  \E r \in results :
              LET m == Nested([Bound EXCEPT !.ask = None, !.owner[p] = r[1]], nested)
                  body == IF nested THEN <<Packet("Reset", 2), Packet("Outcome", r[2])>>
                          ELSE <<Packet("Outcome", r[2])>>
              IN  IF sock # 0 /\ n.bound = sock
                  THEN wire' = Sent(m, body) /\ n' = [m EXCEPT !.stale = FALSE]
                  ELSE wire' = wire /\ n' = m
    /\ reply' = None
    /\ UNCHANGED <<mode, daemon, sock>>

Focus ==
    /\ n.ask = None
    /\ Sends([Bound EXCEPT !.reconciled = FALSE, !.stale = TRUE], <<Packet("Reset", 2)>>)

Lock ==
    /\ n.ask = None /\ ~n.locked
    /\ Sends([Bound EXCEPT !.locked = TRUE, !.stale = TRUE,
                 !.owner = [p \in Press |-> IF @[p] = "none" THEN "none" ELSE "quarantined"]], <<>>)

Unlock ==
    /\ n.ask = None /\ n.locked
    /\ Sends([Bound EXCEPT !.locked = FALSE, !.stale = TRUE], <<>>)

\* The tick's quiescence proof: nothing is held and nothing is uncertain.
Reconcile ==
    /\ n.ask = None /\ ~n.locked /\ sock # 0 /\ ~Bound.reconciled
    /\ \A p \in Press : n.owner[p] = "none"
    /\ Sends([Bound EXCEPT !.reconciled = TRUE], <<Packet("Reset", 8)>>)

Attach(g) ==
    /\ n.ask = None /\ g \notin n.used
    /\ Sends([Bound EXCEPT !.gens = @ \cup {g}, !.used = @ \cup {g}, !.reconciled = FALSE,
                           !.stale = TRUE],
             <<Packet("Reset", 3)>>)

Retire(g) ==
    /\ n.ask = None /\ g \in n.gens
    /\ Sends([Bound EXCEPT !.gens = @ \ {g}, !.reconciled = FALSE, !.stale = TRUE,
                 !.owner = [p \in Press |-> IF p[1] = g THEN "none" ELSE @[p]]],
             <<Packet("Reset", 3), Packet("Lock", n.locked), Packet("Retire", g)>>)

\* The plugin closes its end: a failed receive, or its worker's retirement.
Hangup ==
    /\ sock # 0
    /\ sock' = 0 /\ reply' = None
    /\ UNCHANGED <<mode, daemon, wire, n>>

Plugin ==
    \/ \E p \in Press, kind \in {"Down", "Up"} : Key(p, kind)
    \/ \E nested \in BOOLEAN : Settle(nested)
    \/ Focus \/ Lock \/ Unlock \/ Reconcile \/ Hangup
    \/ \E g \in Gens : Attach(g) \/ Retire(g)

Next == Worker \/ Reload \/ Plugin

\* The worker runs whenever it is not waiting; the plugin's transaction ends by its
\* deadline and its tick keeps looking for quiescence.
Fairness ==
    /\ WF_vars(Worker)
    /\ WF_vars(\E nested \in BOOLEAN : Settle(nested))
    /\ WF_vars(Reconcile)

Spec == Init /\ [][Next]_vars /\ Fairness

-----------------------------------------------------------------------------
(* Properties.                                                             *)

Quiet == pc = "step" /\ wire = <<>> /\ n.ask = None /\ sock # 0

\* While an installed session is reported operational and nothing is in flight, the
\* matcher and the plugin agree on who has each key that is down: a press swallowed by
\* the one is consumed by the other, and a press handed back is not consumed.  (In tap
\* mode a release the handler could not observe for a reload is excepted.)
OwnershipAgrees ==
    (Installed /\ Quiet /\ Operational) =>
        \A p \in Press \ missed :
            /\ x.owner[p] = "swallowed" <=> n.owner[p] = "consumed"
            /\ x.owner[p] = "forwarded" => n.owner[p] = "forwarded"

\* A proposal is outstanding exactly while its token is live in the matcher, and only
\* while the worker waits for that proposal's outcome: no later outcome, reset, reload
\* or reconnect can settle a press with another proposal's result.
PendingIsToken ==
    /\ x.pending = None <=> x.token = None
    /\ x.pending # None => /\ pc = "outcome" /\ cur # None
                           /\ cur.event.press = x.pending.press
                           /\ x.token = x.pending.press

\* A replacement proposed on a release completes a tap: the event before it, on this
\* connection and in this epoch, was that modifier's own press, with no other key,
\* control, reload or missed event between them.  (The release of a key whose press the
\* handler could not observe passes unnoticed.)
TapUnbroken ==
    (pc = "outcome" /\ x.pending # None /\ x.pending.kind = "Up") =>
        (TapRelease /\ tapped = x.pending.press)

\* What the worker waits for is the event it handles, and only in tap mode a release.
ProposalAgrees ==
    /\ cur # None <=> pc = "outcome"
    /\ x.pending # None => /\ x.pending.kind = cur.event.kind
                           /\ x.pending.kind = "Up" => TapRelease

\* A tap in progress is the one key the handler knows to be down, and the event observed
\* last; no proposal is open beside it and nothing has suspended the session.
TapAgrees ==
    TapRelease =>
        /\ \A p \in Press : x.owner[p] # "none" => p \in x.downs
        /\ x.tap # None => /\ x.downs = {x.tap}
                           /\ x.pending = None /\ ~x.disabled /\ ~b.awaiting /\ ~b.locked
                           /\ gap \/ tapped = x.tap

\* A release waits for the outcome of a press the plugin still owns, and the packets in
\* flight stay within the bound.
FlightAgrees ==
    /\ Len(wire) <= MaxQueued + 5
    /\ n.ask # None => /\ Len(wire) <= MaxQueued + 2
                       /\ n.ask.kind = "Up" => n.owner[n.ask.press] # "none"

\* With the types (the nonce and retirement histories, in particular, stay bounded): the
\* inductive invariant behind the two.
SessionInv ==
    /\ SessionTypeOK /\ PendingIsToken /\ TapUnbroken
    /\ ProposalAgrees /\ TapAgrees /\ FlightAgrees

Calm == Installed /\ ~n.locked /\ n.ask = None /\ \A p \in Press : n.owner[p] = "none"

\* Once the user and the compositor stop disturbing it, an installed session that holds no
\* key becomes operational again whatever was lost before, unless the nonces one daemon
\* may use are spent.
Recovers ==
    <>[][Worker \/ Reload \/ Reconcile \/ \E nested \in BOOLEAN : Settle(nested)]_vars
    => []<>(Calm => (Operational \/ pc = "stopped"))

=============================================================================
