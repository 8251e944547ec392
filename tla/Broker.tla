------------------------------- MODULE Broker -------------------------------
(***************************************************************************)
(* The privileged broker and the same-user daemon at the two ends of the   *)
(* broker socket: sledge-linux-broker's accept loop, ProxyLifecycle's step *)
(* over several keyboards, the request and acknowledgement each message    *)
(* is, and LinuxBackend's serve with its ClientState.                      *)
(*                                                                         *)
(* Module DeviceProxy has the inside of one proxy (batches, frames, grab); *)
(* here a proxy is its wire identity and which keys it forwards or holds   *)
(* back, and one event is read at a time.  The session authority may grant *)
(* or deny at any moment, a keyboard may be replugged, its queue may       *)
(* overflow, and either process may be slow or go away.                    *)
(***************************************************************************)
EXTENDS Naturals, Sequences, FiniteSets

CONSTANTS
    Ports,          \* input nodes, numbered in the order of their paths
    Codes,          \* key codes
    None,
    MaxMoves,       \* bound: key moves and overflows
    MaxReplugs,     \* bound: keyboards plugged in
    MaxClients      \* bound: daemons started

Gens == 1..MaxReplugs + 1

\* protocol.rs: one message on the socket.
Message ==
    [op : {"DeviceReset", "DeviceRetire", "SnapshotKey", "Event"}, port : Ports, gen : Gens,
     epoch : Nat, seq : Nat, key : Codes \cup {None}, value : {0, 1}]
Answer == [req : Message, op : {"Pass", "Swallow"}]

ASSUME BrokerAssumption ==
    /\ Ports \subseteq Nat /\ Cardinality(Ports) \in Nat
    /\ Codes \subseteq Nat /\ Cardinality(Codes) \in Nat
    /\ MaxReplugs \in Nat /\ MaxMoves \in Nat /\ MaxClients \in Nat
    /\ None \notin Codes /\ None \notin Message /\ None \notin Answer

VARIABLES
    kb,             \* each port's keyboard
    allowed,        \* the authority's proof permits the peer
    pc, todo,       \* the broker: listening or serving, and what its step has left
    proxies, generation,
    req, rep,       \* the message on the socket, and its answer
    client,         \* the daemon
    moves, plugs, starts

vars == <<kb, allowed, pc, todo, proxies, generation, req, rep, client, moves, plugs, starts>>
environment == <<kb, allowed, moves, plugs, starts>>

NoProxy == [gen |-> 0, id |-> 0, epoch |-> 0, seq |-> 0, physical |-> {}, output |-> {}, swallowed |-> {}]
Proxied(d) == proxies[d].gen # 0

\* What the daemon keeps of one generation: ClientState's maps, and its matcher's
\* swallowed presses.
NoDevice == [physical |-> {}, epoch |-> 0, seq |-> 0, swallowed |-> {}]
NewClient == [pc |-> "serving", highest |-> 0, dev |-> [g \in Gens |-> NoDevice]]

Init ==
    /\ kb = [d \in Ports |-> [id |-> 0, held |-> {}, overflow |-> FALSE, queue |-> <<>>]]
    /\ allowed = TRUE
    /\ pc = "listen" /\ todo = <<>>
    /\ proxies = [d \in Ports |-> NoProxy] /\ generation = 0
    /\ req = None /\ rep = None
    /\ client = [NewClient EXCEPT !.pc = "ended"]
    /\ moves = 0 /\ plugs = 0 /\ starts = 0

-----------------------------------------------------------------------------
(* Keyboards and the session.  Identity 0 is an empty port.                *)

Plug(d) ==
    /\ kb[d].id = 0 /\ plugs < MaxReplugs
    /\ plugs' = plugs + 1
    /\ \E held \in {{}} \cup {{k} : k \in Codes} :
          kb' = [kb EXCEPT ![d] = [id |-> plugs', held |-> held, overflow |-> FALSE, queue |-> <<>>]]
    /\ UNCHANGED <<allowed, pc, todo, proxies, generation, req, rep, client, moves, starts>>

Unplug(d) ==
    /\ kb[d].id # 0
    /\ kb' = [kb EXCEPT ![d] = [id |-> 0, held |-> {}, overflow |-> FALSE, queue |-> <<>>]]
    /\ UNCHANGED <<allowed, pc, todo, proxies, generation, req, rep, client, moves, plugs, starts>>

\* Only a keyboard the broker has open queues events for it.
Opened(d) == Proxied(d) /\ proxies[d].id = kb[d].id

Move(d, k) ==
    /\ kb[d].id # 0 /\ moves < MaxMoves
    /\ moves' = moves + 1
    /\ \E overflow \in BOOLEAN :
          LET now == kb[d]
              down == k \notin now.held
          IN  kb' = [kb EXCEPT ![d] =
                [id |-> now.id,
                 held |-> IF down THEN now.held \cup {k} ELSE now.held \ {k},
                 overflow |-> Opened(d) /\ (now.overflow \/ overflow),
                 queue |-> IF Opened(d) /\ ~overflow
                           THEN Append(now.queue, <<k, IF down THEN 1 ELSE 0>>) ELSE <<>>]]
    /\ UNCHANGED <<allowed, pc, todo, proxies, generation, req, rep, client, plugs, starts>>

\* The session is locked, unlocked, switched away from or back to.
Authority ==
    /\ allowed' = ~allowed
    /\ UNCHANGED <<kb, pc, todo, proxies, generation, req, rep, client, moves, plugs, starts>>

-----------------------------------------------------------------------------
(* The broker.                                                             *)

Task(op, d, k) == [op |-> op, port |-> d, key |-> k, id |-> kb[d].id]

\* Dropping a proxy releases its output and its grab.
TearDown == [d \in Ports |-> NoProxy]

\* step fails: every proxy goes, the stream is closed, the next client is accepted.
Fails ==
    /\ proxies' = TearDown
    /\ pc' = "listen" /\ todo' = <<>> /\ generation' = 0
    /\ rep' = None /\ req' = IF rep # None THEN None ELSE req
    /\ UNCHANGED <<client, environment>>

\* An authorised client; its lifecycle is new.
Accept ==
    /\ pc = "listen" /\ allowed /\ starts < MaxClients
    /\ client.pc = "ended"
    /\ pc' = "serve" /\ client' = NewClient /\ starts' = starts + 1
    /\ req' = None
    /\ UNCHANGED <<kb, allowed, todo, proxies, generation, rep, moves, plugs>>

\* The members of a set of at most n numbers, in their order.
InOrder(S, n) ==
    {s \in UNION {[1..m -> S] : m \in 0..n} :
        /\ S = {s[i] : i \in 1..Len(s)}
        /\ \A i, j \in 1..Len(s) : i < j => s[i] < s[j]}

Tasks(op, s) == [i \in 1..Len(s) |-> Task(op, s[i], None)]

\* reconcile's list: keyboards that went are retired, new ones admitted, then all pumped.
StepBegins ==
    /\ pc = "serve" /\ todo = <<>> /\ allowed
    /\ LET gone == {d \in Ports : Proxied(d) /\ ~Opened(d)}
           fresh == {d \in Ports : kb[d].id # 0 /\ (~Proxied(d) \/ d \in gone)}
           ordered(ds) == InOrder(ds, Cardinality(Ports))
       IN  \E r \in ordered(gone), f \in ordered(fresh), a \in ordered(Ports) :
             todo' = Tasks("DeviceRetire", r) \o Tasks("DeviceReset", f) \o Tasks("Event", a)
    /\ UNCHANGED <<pc, proxies, generation, req, rep, client, environment>>

Working(op) == pc = "serve" /\ todo # <<>> /\ Head(todo).op = op /\ req = None /\ rep = None
Port == Head(todo).port

\* control and pump_inner: the next message of this proxy.
Request(p, op, d, k, val) ==
    [op |-> op, port |-> d, gen |-> p.gen, epoch |-> p.epoch, seq |-> p.seq, key |-> k, value |-> val]

\* bypass, then retire_client; the proxy itself is gone whatever the client says.
RetireClient ==
    /\ Working("DeviceRetire")
    /\ req' = Request([proxies[Port] EXCEPT !.seq = @ + 1], "DeviceRetire", Port, None, 0)
    /\ proxies' = [proxies EXCEPT ![Port] = NoProxy]
    /\ UNCHANGED <<pc, todo, generation, rep, client, environment>>

\* Authorised, the same keyboard still, no key held, and generations left.
Admissible ==
    /\ kb[Port].id = Head(todo).id /\ allowed /\ kb[Port].held = {}
    /\ generation <= MaxReplugs

\* A plausible slip: a keyboard is announced under the generation of the last one.
MutAdmit ==
    /\ Working("DeviceReset") /\ ~Proxied(Port) /\ Admissible
    /\ generation' = IF generation = 0 THEN 1 ELSE generation
    /\ LET p == [NoProxy EXCEPT !.gen = generation', !.id = kb[Port].id, !.epoch = 1, !.seq = 1]
       IN  /\ proxies' = [proxies EXCEPT ![Port] = p]
           /\ req' = Request(p, "DeviceReset", Port, None, 0)
    /\ kb' = [kb EXCEPT ![Port].queue = <<>>, ![Port].overflow = FALSE]
    /\ UNCHANGED <<allowed, pc, todo, rep, client, moves, plugs, starts>>

\* Open, with an empty queue, check the identity again, grab, and announce the new
\* generation.
Admit ==
    /\ Working("DeviceReset") /\ ~Proxied(Port) /\ Admissible
    /\ generation' = generation + 1
    /\ LET p == [NoProxy EXCEPT !.gen = generation', !.id = kb[Port].id, !.epoch = 1, !.seq = 1]
       IN  /\ proxies' = [proxies EXCEPT ![Port] = p]
           /\ req' = Request(p, "DeviceReset", Port, None, 0)
    /\ kb' = [kb EXCEPT ![Port].queue = <<>>, ![Port].overflow = FALSE]
    /\ UNCHANGED <<allowed, pc, todo, rep, client, moves, plugs, starts>>

\* A plausible slip: the client's hangup is only noticed by a message.
MutPumpIdle ==
    /\ Working("Event")
    /\ ~Proxied(Port) \/ (kb[Port].id = proxies[Port].id /\ kb[Port].queue = <<>> /\ ~kb[Port].overflow)
    /\ Proxied(Port) => allowed
    /\ todo' = Tail(todo)
    /\ UNCHANGED <<pc, proxies, generation, req, rep, client, environment>>

\* Nothing to read: on to the next proxy.
PumpIdle ==
    /\ Working("Event")
    /\ ~Proxied(Port) \/ (kb[Port].id = proxies[Port].id /\ kb[Port].queue = <<>> /\ ~kb[Port].overflow)
    /\ Proxied(Port) => (allowed /\ client.pc = "serving")
    /\ todo' = Tail(todo)
    /\ UNCHANGED <<pc, proxies, generation, req, rep, client, environment>>

Readable == Proxied(Port) /\ kb[Port].id = proxies[Port].id /\ allowed /\ client.pc = "serving"

PumpEvent ==
    /\ Working("Event") /\ Readable /\ ~kb[Port].overflow /\ kb[Port].queue # <<>>
    /\ LET event == Head(kb[Port].queue)
           p == [proxies[Port] EXCEPT !.seq = @ + 1]
       IN  /\ req' = Request(p, "Event", Port, event[1], event[2])
           /\ proxies' = [proxies EXCEPT ![Port] = p]
    /\ kb' = [kb EXCEPT ![Port].queue = Tail(@)]
    /\ UNCHANGED <<allowed, pc, todo, generation, rep, client, moves, plugs, starts>>

\* The frame after SYN_DROPPED: the kernel's key state, read with a flush of the queue,
\* is resynchronised under a new epoch and told to the client key by key.
PumpResync ==
    /\ Working("Event") /\ Readable /\ kb[Port].overflow
    /\ LET d == Port
           keys == kb[d].held
           p == proxies[d]
       IN  /\ proxies' = [proxies EXCEPT ![d] =
                 [p EXCEPT !.epoch = p.epoch + 1, !.physical = keys,
                           !.swallowed = p.swallowed \cap keys, !.output = keys \ p.swallowed]]
           /\ kb' = [kb EXCEPT ![d].queue = <<>>, ![d].overflow = FALSE]
           /\ \E order \in InOrder(keys, Cardinality(Codes)) :
                 todo' = <<Task("Reset", d, None)>>
                         \o [i \in 1..Len(order) |-> Task("SnapshotKey", d, order[i])] \o Tail(todo)
    /\ UNCHANGED <<allowed, pc, generation, req, rep, client, moves, plugs, starts>>

\* The controls of a resynchronisation.
Resyncing(op, wireOp, value) ==
    /\ Working(op)
    /\ proxies' = [proxies EXCEPT ![Port].seq = @ + 1]
    /\ req' = Request(proxies'[Port], wireOp, Port, Head(todo).key, value)
    /\ UNCHANGED <<pc, todo, generation, rep, client, environment>>

ResyncReset == Resyncing("Reset", "DeviceReset", 0)
ResyncKey == Resyncing("SnapshotKey", "SnapshotKey", 1)

\* KeyState::apply: the first press of a key decides who owns it.
Applied(p, k, value, decision) ==
    IF value = 0
    THEN [p EXCEPT !.physical = @ \ {k}, !.output = @ \ {k}, !.swallowed = @ \ {k}]
    ELSE IF k \in p.physical THEN p
    ELSE [p EXCEPT !.physical = @ \cup {k},
                   !.output = IF decision = "Pass" THEN @ \cup {k} ELSE @,
                   !.swallowed = IF decision = "Swallow" THEN @ \cup {k} ELSE @]

\* The acknowledgement, in time: admitted_decision, or control's exact Pass.
Answered ==
    /\ pc = "serve" /\ rep # None
    /\ rep.req = req /\ (req.op = "Event" \/ rep.op = "Pass")
    /\ proxies' = IF req.op = "Event"
                  THEN [proxies EXCEPT ![req.port] = Applied(@, req.key, req.value, rep.op)]
                  ELSE proxies
    \* an event leaves its proxy to be pumped further
    /\ todo' = IF req.op = "Event" THEN todo ELSE Tail(todo)
    /\ req' = None /\ rep' = None
    /\ UNCHANGED <<pc, generation, client, environment>>

\* Denied, unplugged mid-step, not quiescent, hung up, or the 10 ms are over.
StepFails ==
    /\ pc = "serve"
    /\ \/ todo = <<>> /\ ~allowed
       \/ Working("DeviceReset") /\ ~Admissible
       \/ Working("Event") /\ Proxied(Port) /\ ~Readable
       \/ req # None
       \/ todo # <<>> /\ client.pc # "serving" /\ Head(todo).op # "Event"
    /\ Fails

Broker == Accept \/ StepBegins \/ RetireClient \/ Admit \/ PumpIdle \/ PumpEvent \/ PumpResync
          \/ ResyncReset \/ ResyncKey \/ Answered \/ StepFails

-----------------------------------------------------------------------------
(* The daemon's serve loop.                                                *)

\* ClientState::validate.
Stale(m) ==
    LET dev == client.dev[m.gen]
    IN  dev.seq >= m.seq \/ dev.epoch > m.epoch \/ (dev.epoch = 0 /\ m.gen <= client.highest)

\* A new epoch of a known generation resets the device first.
Validated(m) ==
    LET dev == client.dev[m.gen]
        moved == dev.epoch \notin {0, m.epoch}
    IN  [physical |-> IF moved THEN {} ELSE dev.physical, epoch |-> m.epoch, seq |-> m.seq,
         swallowed |-> IF moved THEN {} ELSE dev.swallowed]

\* on_device_event, as the sink's matcher may answer it: a swallowed press stays so, and
\* the release of a tap may be consumed too.
Verdicts(dev, m) == IF m.key \in dev.swallowed THEN {"Swallow"} ELSE {"Swallow", "Pass"}

\* dispatch: the physical keys follow, and the matcher owns what it swallows.
Dispatched(dev, m, verdict) ==
    [dev EXCEPT !.physical = IF m.value = 0 THEN @ \ {m.key} ELSE @ \cup {m.key},
                !.swallowed = IF m.value = 0 \/ verdict = "Pass" THEN @ \ {m.key} ELSE @ \cup {m.key}]

\* A plausible slip: snapshots and resets leave the physical state alone.
MutHandled(dev, m) ==
    CASE m.op = "DeviceReset" -> {[dev |-> [dev EXCEPT !.swallowed = {}], op |-> "Pass"]}
      [] m.op = "DeviceRetire" -> {[dev |-> NoDevice, op |-> "Pass"]}
      [] m.op = "SnapshotKey" -> {[dev |-> dev, op |-> "Pass"]}
      [] m.op = "Event" -> {[dev |-> Dispatched(dev, m, v), op |-> v] : v \in Verdicts(dev, m)}

\* What serve leaves of a device, and its answer.
Handled(dev, m) ==
    CASE m.op = "DeviceReset" ->
            {[dev |-> [dev EXCEPT !.physical = {}, !.swallowed = {}], op |-> "Pass"]}
      [] m.op = "DeviceRetire" -> {[dev |-> NoDevice, op |-> "Pass"]}
      [] m.op = "SnapshotKey" -> {[dev |-> [dev EXCEPT !.physical = @ \cup {m.key}], op |-> "Pass"]}
      [] m.op = "Event" -> {[dev |-> Dispatched(dev, m, v), op |-> v] : v \in Verdicts(dev, m)}

\* A request is read and answered; the answer to a broker that gave up goes nowhere.  The
\* daemon ends on a stale one.
Handle ==
    /\ client.pc = "serving" /\ req # None /\ rep = None
    /\ IF pc = "serve" /\ ~Stale(req)
       THEN \E h \in Handled(Validated(req), req) :
              /\ client' = [client EXCEPT !.highest = IF req.gen > @ THEN req.gen ELSE @,
                                          !.dev[req.gen] = h.dev]
              /\ rep' = [req |-> req, op |-> h.op] /\ req' = req
       ELSE /\ client' = [NewClient EXCEPT !.pc = "ended"] /\ rep' = None
            /\ req' = IF pc = "serve" THEN req ELSE None
    /\ UNCHANGED <<pc, todo, proxies, generation, environment>>

\* The broker's end is closed, or a signal asks for shutdown; run then resets the sink.
ClientEnds ==
    /\ client.pc = "serving"
    /\ client' = [NewClient EXCEPT !.pc = "ended"]
    /\ req' = IF pc = "serve" THEN req ELSE None
    /\ UNCHANGED <<pc, todo, proxies, generation, rep, environment>>

Next ==
    \/ \E d \in Ports : Plug(d) \/ Unplug(d) \/ \E k \in Codes : Move(d, k)
    \/ Authority \/ Broker \/ Handle \/ ClientEnds

Spec == Init /\ [][Next]_vars /\ WF_vars(Broker) /\ WF_vars(Handle)

-----------------------------------------------------------------------------
(* Properties.                                                             *)

Keyboards == [id : Nat, held : SUBSET Codes, overflow : BOOLEAN, queue : Seq(Codes \X {0, 1})]
ProxyStates == [gen : 0..MaxReplugs + 1, id : Nat, epoch : Nat, seq : Nat, physical : SUBSET Codes,
                output : SUBSET Codes, swallowed : SUBSET Codes]
Devices == [physical : SUBSET Codes, epoch : Nat, seq : Nat, swallowed : SUBSET Codes]
TaskSet == [op : {"DeviceRetire", "DeviceReset", "Reset", "SnapshotKey", "Event"}, port : Ports,
            key : Codes \cup {None}, id : Nat]

\* Every variable keeps its type.
BrokerTypeOK ==
    /\ kb \in [Ports -> Keyboards]
    /\ allowed \in BOOLEAN
    /\ pc \in {"listen", "serve"} /\ todo \in Seq(TaskSet)
    /\ proxies \in [Ports -> ProxyStates] /\ generation \in 0..MaxReplugs + 1
    /\ req \in Message \cup {None} /\ rep \in Answer \cup {None}
    /\ client \in [pc : {"serving", "ended"}, highest : Nat, dev : [Gens -> Devices]]
    /\ moves \in 0..MaxMoves /\ plugs \in 0..MaxReplugs /\ starts \in 0..MaxClients

\* No message the broker sends is stale to the daemon: replugs, resynchronisations and
\* retirements of several keyboards interleave in one step, and each keyboard's generation,
\* epoch and sequence still only advance (ClientState::validate never refuses).
NeverStale == (client.pc = "serving" /\ req # None /\ rep = None) => ~Stale(req)

\* Between messages the daemon knows exactly the keys each captured keyboard holds, so its
\* modifiers are right, also after a resynchronisation or a replug; and a press its matcher
\* swallowed is one the broker holds back.
Settled == pc = "serve" /\ req = None /\ rep = None /\ client.pc = "serving"
ClientTracks ==
    Settled => \A d \in Ports :
        (Proxied(d) /\ \A i \in 1..Len(todo) : todo[i].port = d => todo[i].op \notin {"Reset", "SnapshotKey"}) =>
            /\ client.dev[proxies[d].gen].physical = proxies[d].physical
            /\ client.dev[proxies[d].gen].swallowed \subseteq proxies[d].swallowed

\* A broker that is not serving a client has no keyboard grabbed and holds no key down,
\* whichever keyboard's step failed and at whichever message.
NothingLeftGrabbed == pc = "listen" => (todo = <<>> /\ rep = None /\ \A d \in Ports : ~Proxied(d))

\* A press has one owner from its first event to its release: while captured, each key
\* down as the broker knows it is either forwarded or held back, never both.
OneOwnerEach ==
    \A d \in Ports : /\ proxies[d].output \cap proxies[d].swallowed = {}
                     /\ proxies[d].output \cup proxies[d].swallowed = proxies[d].physical

-----------------------------------------------------------------------------
(* Why they hold.                                                          *)

\* Each captured keyboard has a generation of its own, and an identity of its own.
ProxiesApart ==
    /\ \A d \in Ports : /\ Proxied(d) => /\ proxies[d].gen <= generation
                                         /\ proxies[d].epoch >= 1 /\ proxies[d].id \in 1..plugs
                        /\ kb[d].id <= plugs
    /\ \A d, e \in Ports : Proxied(d) /\ proxies[d].gen = proxies[e].gen => d = e

\* The step's list: retirements come first, each of a captured keyboard, and a
\* resynchronisation is at its head, of one captured keyboard.
TodoShape ==
    \A j \in 1..Len(todo) :
        /\ todo[j].op = "DeviceRetire" =>
              /\ \A i \in 1..Len(todo) :
                    i < j => todo[i].op = "DeviceRetire" /\ todo[i].port # todo[j].port
              /\ j > 1 \/ req = None => Proxied(todo[j].port)
        /\ todo[j].op = "DeviceReset" => todo[j].id # 0
        /\ todo[j].op \in {"Reset", "SnapshotKey"} =>
              /\ Proxied(todo[j].port)
              /\ \A i \in 1..Len(todo) : i < j => todo[i].op \in {"Reset", "SnapshotKey"}
                                                  /\ todo[i].port = todo[j].port
        /\ todo[j].op = "Reset" => j = 1
        /\ todo[j].op = "SnapshotKey" => todo[j].key \in Codes

\* The message on the socket is that of the task at the head of the list, from the
\* keyboard's proxy as it is; a retired keyboard has none.
WireAgrees ==
    /\ rep # None => pc = "serve" /\ req # None /\ rep.req = req /\ (req.op # "Event" => rep.op = "Pass")
    /\ pc = "serve" /\ req # None =>
          /\ todo # <<>> /\ req.port = Port
          /\ req.op = IF Head(todo).op = "Reset" THEN "DeviceReset" ELSE Head(todo).op
          /\ req.op = "DeviceRetire" => /\ ~Proxied(Port) /\ req.gen <= generation
                                        /\ \A d \in Ports : proxies[d].gen # req.gen
          /\ req.op # "DeviceRetire" => /\ Proxied(Port) /\ req.gen = proxies[Port].gen
                                        /\ req.epoch = proxies[Port].epoch /\ req.seq = proxies[Port].seq
          /\ req.op = "SnapshotKey" => req.key = Head(todo).key
          /\ req.op = "Event" => req.key \in Codes

\* A keyboard is being announced, or resynchronised, and the daemon has not heard of it.
Pending(d) ==
    /\ todo # <<>> /\ Port = d /\ rep = None
    /\ Head(todo).op = "Reset" \/ (Head(todo).op = "DeviceReset" /\ req # None)

\* The daemon is never ahead of the broker, and has every keyboard but one announced.
DeviceKnown(d) ==
    LET dev == client.dev[proxies[d].gen]
    IN  /\ dev.seq <= proxies[d].seq /\ dev.epoch <= proxies[d].epoch
        /\ dev.epoch # proxies[d].epoch => Pending(d)
        /\ dev.epoch = 0 => req # None /\ Head(todo).op = "DeviceReset"
DevicesKnown ==
    (pc = "serve" /\ client.pc = "serving") =>
        /\ client.highest <= generation
        /\ \A g \in Gens : g > client.highest => client.dev[g].epoch = 0 /\ client.dev[g].seq = 0
        /\ \A d \in Ports : Proxied(d) => DeviceKnown(d)

\* The state of a proxy once the answer on the socket is applied, and its keys once the
\* event on the socket is.
Answering(d) == rep # None /\ req.op = "Event" /\ req.port = d
Soon(d) == IF Answering(d) THEN Applied(proxies[d], req.key, req.value, rep.op) ELSE proxies[d]
Snapshots(d) == {todo[i].key : i \in {j \in 1..Len(todo) : todo[j].op = "SnapshotKey" /\ todo[j].port = d}}

\* What a resynchronisation has still to tell makes up for what the daemon does not know.
DeviceTracked(d) ==
    LET dev == client.dev[proxies[d].gen]
    IN  /\ Pending(d) => Snapshots(d) = proxies[d].physical
        /\ ~Pending(d) => /\ dev.physical \cup Snapshots(d) = Soon(d).physical
                          /\ dev.swallowed \subseteq Soon(d).swallowed
        /\ rep # None /\ req.op = "SnapshotKey" /\ Port = d => req.key \in dev.physical
DevicesTracked ==
    (pc = "serve" /\ client.pc = "serving") => \A d \in Ports : Proxied(d) => DeviceTracked(d)

\* Queued presses are of keys that are up by then: as known, or released in the queue.
PressesFresh(q, known, held) ==
    \A k \in Codes :
        /\ \A j \in 1..Len(q) : q[j] = <<k, 1>> =>
              \/ k \notin known /\ \A i \in 1..Len(q) : i < j => q[i][1] # k
              \/ \E i \in 1..Len(q) : /\ i < j /\ q[i] = <<k, 0>>
                                      /\ \A m \in 1..Len(q) : i < m /\ m < j => q[m][1] # k
        /\ k \notin held =>
              \/ k \notin known /\ \A i \in 1..Len(q) : q[i][1] # k
              \/ \E i \in 1..Len(q) : /\ q[i] = <<k, 0>>
                                      /\ \A m \in 1..Len(q) : i < m => q[m][1] # k

Sent(d) == pc = "serve" /\ req # None /\ req.op = "Event" /\ req.port = d
KnownSoon(d) ==
    IF ~Sent(d) THEN proxies[d].physical
    ELSE IF req.value = 0 THEN proxies[d].physical \ {req.key} ELSE proxies[d].physical \cup {req.key}

\* No press is asked about twice.
QueueFresh(d) ==
    /\ Sent(d) /\ req.value = 1 => req.key \notin proxies[d].physical
    /\ Opened(d) /\ ~kb[d].overflow => PressesFresh(kb[d].queue, KnownSoon(d), kb[d].held)
QueuesFresh == \A d \in Ports : Proxied(d) => QueueFresh(d)

\* The inductive invariant.
BrokerInv ==
    /\ BrokerTypeOK /\ NeverStale /\ NothingLeftGrabbed /\ OneOwnerEach /\ ProxiesApart
    /\ TodoShape /\ WireAgrees /\ DevicesKnown /\ DevicesTracked /\ QueuesFresh

-----------------------------------------------------------------------------
\* When the daemon goes away the keyboards are freed: the broker cannot stay in a step, or
\* keep polling, with a keyboard grabbed for nobody.
Frees == (client.pc = "ended") ~> (client.pc = "serving" \/ \A d \in Ports : ~Proxied(d))

=============================================================================
