--------------------------- MODULE AdmissionProofs --------------------------
(***************************************************************************)
(* Proofs about Admission, for every set of keyboards and keymaps: the     *)
(* inductive invariant AdmissionInv, and what it gives of held keys, of    *)
(* recovery after an uncertain output and of draining.                     *)
(***************************************************************************)
EXTENDS Admission, TLAPS

-----------------------------------------------------------------------------
(* The functions that the callbacks share.                                 *)

\* What t keeps of s: everything but the proof, the connection and its controls.
Same(s, t) ==
    /\ t \in Adapter
    /\ t.slot = s.slot /\ t.active = s.active /\ t.compatible = s.compatible
    /\ t.projection = s.projection /\ t.dirty = s.dirty /\ t.closed = s.closed
    /\ t.owned = s.owned /\ t.fwd = s.fwd /\ t.ledger = s.ledger
    /\ t.fatal = s.fatal /\ t.uncertain = s.uncertain /\ t.affected = s.affected
    /\ t.fresh = s.fresh /\ t.bound = s.bound /\ t.startup = s.startup /\ t.drain = s.drain

\* BoundaryHeard of a state inside a callback.
Heard(s) == s.reconciled /\ s.connected /\ s.current => s.told

\* A proof, a connection or a control that changes leaves an adapter.
LEMMA Restated ==
    ASSUME NEW s \in Adapter, NEW r \in BOOLEAN, NEW c \in BOOLEAN, NEW u \in BOOLEAN, NEW o \in BOOLEAN
    PROVE  /\ [s EXCEPT !.reconciled = r, !.current = u] \in Adapter
           /\ [s EXCEPT !.reconciled = r, !.connected = c] \in Adapter
           /\ [s EXCEPT !.reconciled = r] \in Adapter
           /\ [s EXCEPT !.told = o] \in Adapter
<1>1. [s EXCEPT !.reconciled = r, !.current = u] \in Adapter
  BY ZenonT(30) DEF Adapter
<1>2. [s EXCEPT !.reconciled = r, !.connected = c] \in Adapter
  BY ZenonT(30) DEF Adapter
<1>3. [s EXCEPT !.reconciled = r] \in Adapter
  BY ZenonT(30) DEF Adapter
<1>4. [s EXCEPT !.told = o] \in Adapter
  BY ZenonT(30) DEF Adapter
<1> QED
  BY ZenonT(30), <1>1, <1>2, <1>3, <1>4

\* closeStream ends the stream and the proof.
LEMMA CloseCloses ==
    ASSUME NEW s \in Adapter, NEW t, t = Close(s)
    PROVE  Same(s, t) /\ ~t.reconciled
<1>1. t = [s EXCEPT !.reconciled = FALSE, !.connected = FALSE]
  BY ZenonT(30) DEF Close
<1>2. t \in Adapter
  BY ZenonT(30), <1>1, Restated
<1> QED
  BY ZenonT(30), <1>1, <1>2 DEF Adapter, Same

\* ensureConnectionBinding only takes a proof back and binds the connection.
LEMMA EnsureBindingBinds ==
    ASSUME NEW s \in Adapter, NEW t, t = EnsureBinding(s)
    PROVE  /\ Same(s, t)
           /\ t.reconciled => s.reconciled
           /\ Heard(s) => Heard(t)
           /\ t.connected = s.connected /\ t.told = s.told
<1>1. CASE s.drain # "Running"
  BY ZenonT(30), <1>1 DEF EnsureBinding, Same
<1>2. CASE s.drain = "Running"
  <2>1. PICK r \in BOOLEAN, u \in BOOLEAN :
          /\ t = [s EXCEPT !.reconciled = r, !.current = u]
          /\ r <=> s.reconciled /\ s.connected /\ s.current
          /\ u <=> s.current \/ s.connected
    BY ZenonT(30), <1>2 DEF EnsureBinding
  <2>2. t \in Adapter
    BY ZenonT(30), <2>1, Restated
  <2> QED
    BY ZenonT(30), <2>1, <2>2 DEF Adapter, Same, Heard
<1> QED
  BY ZenonT(30), <1>1, <1>2

\* What is the same of two steps is the same of both.
LEMMA SameTwice ==
    ASSUME NEW s, NEW t, NEW u, Same(s, t), Same(t, u)
    PROVE  Same(s, u)
BY ZenonT(30) DEF Same

\* A control changes what the daemon was told and, when it is the first on a
\* connection, takes the proof back.
LEMMA TellTells ==
    ASSUME NEW s \in Adapter, NEW boundary \in BOOLEAN, NEW queued \in BOOLEAN,
           NEW t, t = Tell(s, boundary, queued)
    PROVE  /\ Same(s, t)
           /\ t.reconciled => s.reconciled
           /\ (Bound(s) /\ queued) => (t.told <=> boundary)
<1> DEFINE e == EnsureBinding(s)
<1>1. /\ Same(s, e) /\ e \in Adapter /\ e.drain = s.drain /\ e.connected = s.connected
      /\ e.reconciled => s.reconciled
  BY ZenonT(30), EnsureBindingBinds DEF Same
<1>2. t = IF Bound(e) /\ queued THEN [e EXCEPT !.told = boundary] ELSE e
  BY ZenonT(30) DEF Tell
<1> HIDE DEF e
<1>3. CASE Bound(e) /\ queued
  <2>1. t = [e EXCEPT !.told = boundary]
    BY ZenonT(30), <1>2, <1>3
  <2>2. t \in Adapter
    BY ZenonT(30), <1>1, <2>1, Restated
  <2>3. Same(e, t) /\ (t.told <=> boundary) /\ (t.reconciled <=> e.reconciled)
    BY ZenonT(30), <1>1, <2>1, <2>2 DEF Adapter, Same
  <2> QED
    BY ZenonT(30), <1>1, <2>3, SameTwice
<1>4. CASE ~(Bound(e) /\ queued)
  <2>1. t = e
    BY ZenonT(30), <1>2, <1>4
  <2> QED
    BY ZenonT(30), <1>1, <1>4, <2>1 DEF Bound
<1> QED
  BY ZenonT(30), <1>3, <1>4

\* beginLifecycle leaves no proof.
LEMMA BeginLifecycleBegins ==
    ASSUME NEW s \in Adapter, NEW queued \in BOOLEAN, NEW t, t = BeginLifecycle(s, queued)
    PROVE  Same(s, t) /\ ~t.reconciled
<1> DEFINE e == EnsureBinding(s)
           r == [e EXCEPT !.reconciled = FALSE]
<1>1. Same(s, e) /\ e \in Adapter
  BY ZenonT(30), EnsureBindingBinds DEF Same
<1>2. t = r \/ t = Tell(r, FALSE, TRUE) \/ t = Close(r)
  BY ZenonT(30) DEF BeginLifecycle
<1> HIDE DEF e
<1>3. r \in Adapter
  BY ZenonT(30), <1>1, Restated
<1>4. Same(e, r) /\ ~r.reconciled
  BY ZenonT(30), <1>1, <1>3 DEF Adapter, Same
<1> HIDE DEF r
<1>5. Same(r, Tell(r, FALSE, TRUE)) /\ ~Tell(r, FALSE, TRUE).reconciled
  BY ZenonT(30), <1>3, <1>4, TellTells
<1>6. Same(r, Close(r)) /\ ~Close(r).reconciled
  BY ZenonT(30), <1>3, CloseCloses
<1>7. Same(s, r)
  BY ZenonT(30), <1>1, <1>4, SameTwice
<1>8. Same(s, Tell(r, FALSE, TRUE)) /\ Same(s, Close(r))
  BY ZenonT(30), <1>5, <1>6, <1>7, SameTwice
<1> QED
  BY ZenonT(30), <1>2, <1>4, <1>5, <1>6, <1>7, <1>8

\* A new proof is announced, and needs every other keyboard's key up.
LEMMA ReconcileInitialProves ==
    ASSUME NEW s \in Adapter, NEW held, NEW queued \in BOOLEAN, NEW t, t = ReconcileInitial(s, held, queued)
    PROVE  /\ Same(s, t)
           /\ Heard(s) => Heard(t)
           /\ t.reconciled => s.reconciled \/ (\A k \in attached : k \notin held)
<1> DEFINE e == EnsureBinding(s)
           a == Tell(e, TRUE, TRUE)
<1>1. /\ Same(s, e) /\ e \in Adapter
      /\ Heard(s) => Heard(e)
      /\ e.reconciled => s.reconciled
  BY ZenonT(30), EnsureBindingBinds DEF Same
<1>2. \/ t = e
      \/ /\ t = [a EXCEPT !.reconciled = TRUE] /\ Bound(e)
         /\ \A k \in attached : k \notin held
  BY ZenonT(30) DEF ReconcileInitial, Admissible
<1> HIDE DEF e
<1>3. CASE t = e
  BY ZenonT(30), <1>1, <1>3
<1>4. CASE /\ t = [a EXCEPT !.reconciled = TRUE] /\ Bound(e)
           /\ \A k \in attached : k \notin held
  <2>0. Same(e, a) /\ (a.told <=> TRUE)
    BY ZenonT(30), <1>1, <1>4, TellTells
  <2> HIDE DEF a
  <2>1. Same(e, a) /\ a \in Adapter /\ a.told
    BY ZenonT(30), <2>0 DEF Same
  <2>2. t \in Adapter
    BY ZenonT(30), <1>4, <2>1, Restated
  <2>3. Same(a, t) /\ t.told
    BY SMTT(30), <1>4, <2>1, <2>2 DEF Adapter, Same
  <2>4. Same(s, t)
    BY ZenonT(30), <1>1, <2>1, <2>3, SameTwice
  <2> QED
    BY ZenonT(30), <1>4, <2>3, <2>4 DEF Heard
<1> QED
  BY ZenonT(30), <1>2, <1>3, <1>4

-----------------------------------------------------------------------------
(* What holds of the adapter at every step inside a callback.              *)

Good(s) ==
    /\ s \in Adapter /\ s.fwd \subseteq s.owned
    /\ \A k \in Keyboards \ attached : s.slot[k] = None /\ k # s.active
    /\ s.fatal <=> s.uncertain
    /\ Heard(s)

\* What recovery forgave between s and t, and on which desk.
Forgives(s, t, physical) ==
    (s.fatal /\ ~t.fatal) => /\ ~s.affected /\ s.fresh /\ s.owned = {}
                             /\ \A k \in attached : k \notin physical

\* What the functions called before an event is routed leave alone.
Early(s, t) ==
    /\ t.owned = s.owned /\ t.fwd = s.fwd /\ t.slot = s.slot /\ t.drain = s.drain
    /\ t.affected = s.affected
    /\ t.fresh => s.fresh
    /\ t.fatal => s.fatal

\* Functions that only touch the proof and the connection keep the rest good.
LEMMA SameGood ==
    ASSUME NEW s, NEW t, Good(s), Same(s, t), Heard(t)
    PROVE  Good(t) /\ Early(s, t) /\ (t.fatal <=> s.fatal) /\ t.active = s.active
BY ZenonT(30) DEF Good, Same, Early

\* What two steps each leave alone both do.
LEMMA EarlyTwice ==
    ASSUME NEW s, NEW t, NEW u, Early(s, t), Early(t, u)
    PROVE  Early(s, u)
BY ZenonT(30) DEF Early

\* tryOutputRecovery forgives only an output whose affected routes are gone, after a
\* fresh enter, on a desk where nothing is owned or held; it never keeps a proof.
LEMMA TryRecoveryForgives ==
    ASSUME NEW s, Good(s), NEW physical, NEW t, t = TryRecovery(s, physical)
    PROVE  /\ Good(t) /\ Early(s, t) /\ Forgives(s, t, physical)
           /\ t.active = s.active
           /\ t.reconciled => s.reconciled
<1>1. CASE t = s
  BY ZenonT(30), <1>1 DEF Early, Forgives
<1>2. CASE t # s
  <2>1. /\ t = [s EXCEPT !.fatal = FALSE, !.uncertain = FALSE, !.fresh = FALSE, !.reconciled = FALSE]
        /\ ~s.affected /\ s.fresh /\ s.owned = {}
        /\ \A k \in attached : k \notin physical
    BY ZenonT(30), <1>2 DEF TryRecovery, Admissible
  <2>2. s \in Adapter
    BY ZenonT(30) DEF Good
  <2>3. t \in Adapter
    <3>1. [s EXCEPT !.fatal = FALSE, !.uncertain = FALSE, !.fresh = FALSE, !.reconciled = FALSE] \in Adapter
      BY ZenonT(30), <2>2 DEF Adapter
    <3> QED
      BY ZenonT(30), <2>1, <3>1
  <2>4. /\ t.owned = s.owned /\ t.fwd = s.fwd /\ t.slot = s.slot /\ t.drain = s.drain
        /\ t.affected = s.affected /\ t.active = s.active
        /\ ~t.fatal /\ ~t.uncertain /\ ~t.fresh /\ ~t.reconciled
    BY ZenonT(30), <2>1, <2>2, <2>3 DEF Adapter
  <2> QED
    BY ZenonT(30), <2>1, <2>3, <2>4 DEF Good, Early, Forgives, Heard
<1> QED
  BY ZenonT(30), <1>1, <1>2

\* Everything but the projection.
Projects(s, t) ==
    /\ t.owned = s.owned /\ t.fwd = s.fwd /\ t.slot = s.slot /\ t.drain = s.drain
    /\ t.affected = s.affected /\ t.fresh = s.fresh /\ t.fatal = s.fatal
    /\ t.uncertain = s.uncertain /\ t.active = s.active /\ t.ledger = s.ledger
    /\ t.reconciled = s.reconciled /\ t.connected = s.connected
    /\ t.current = s.current /\ t.told = s.told

\* Only the projection changes when it is set.
LEMMA ProjectionMoves ==
    ASSUME NEW s \in Adapter, NEW p \in BOOLEAN, NEW t, t = [s EXCEPT !.projection = p]
    PROVE  t \in Adapter /\ Projects(s, t) /\ t.projection = p
<1>1. t \in Adapter
  BY ZenonT(30) DEF Adapter
<1> QED
  BY ZenonT(30), <1>1 DEF Adapter, Projects

\* No relation of the adapter depends on the projection.
LEMMA ProjectsGood ==
    ASSUME NEW s, NEW t \in Adapter, Good(s), Projects(s, t)
    PROVE  Good(t) /\ Early(s, t)
BY ZenonT(30) DEF Good, Projects, Early, Heard

\* selectConsumer and the choice of a projection move the projection only.
LEMMA SelectConsumerSelects ==
    ASSUME NEW s, Good(s), NEW k
    PROVE  /\ Good(SelectConsumer(s, k)) /\ Projects(s, SelectConsumer(s, k))
           /\ Good(Project(s, k)) /\ Projects(s, Project(s, k))
<1>1. s \in Adapter
  BY ZenonT(30) DEF Good
<1>2. \A p \in BOOLEAN : /\ [s EXCEPT !.projection = p] \in Adapter
                         /\ Projects(s, [s EXCEPT !.projection = p])
  BY ZenonT(30), <1>1, ProjectionMoves
<1>3. \A p \in BOOLEAN : /\ Good([s EXCEPT !.projection = p])
                         /\ Projects(s, [s EXCEPT !.projection = p])
  BY ZenonT(30), <1>2, ProjectsGood
<1>4. (s.slot[k] = map[k]) \in BOOLEAN
  BY ZenonT(30)
<1>5. Good(SelectConsumer(s, k)) /\ Projects(s, SelectConsumer(s, k))
  BY ZenonT(30), <1>3, <1>4 DEF SelectConsumer
<1>6. Project(s, k) = SelectConsumer(s, k) \/ Project(s, k) = [s EXCEPT !.projection = FALSE]
  BY ZenonT(30) DEF Project
<1> QED
  BY ZenonT(30), <1>3, <1>5, <1>6

\* An attached keyboard becomes the consumer.
LEMMA ActiveMoves ==
    ASSUME attached \subseteq Keyboards, NEW k \in attached, NEW s, Good(s), NEW t, t = [s EXCEPT !.active = k]
    PROVE  Good(t) /\ Early(s, t) /\ (t.fatal <=> s.fatal) /\ (t.reconciled <=> s.reconciled)
<1>1. s \in Adapter /\ k \in Keyboards
  BY ZenonT(30) DEF Good
<1>2. t \in Adapter
  BY ZenonT(30), <1>1 DEF Adapter
<1>3. /\ t.active = k /\ t.owned = s.owned /\ t.fwd = s.fwd /\ t.slot = s.slot /\ t.drain = s.drain
      /\ t.affected = s.affected /\ t.fresh = s.fresh /\ t.fatal = s.fatal /\ t.uncertain = s.uncertain
      /\ t.reconciled = s.reconciled /\ t.connected = s.connected
      /\ t.current = s.current /\ t.told = s.told
  BY ZenonT(30), <1>1, <1>2 DEF Adapter
<1> QED
  BY ZenonT(30), <1>2, <1>3 DEF Good, Early, Heard

\* The part of inputKey before event(): a proof that survives it, or is new, was
\* there before or needs every other key up; output is forgiven as recovery says.
LEMMA PrepareProves ==
    ASSUME attached \subseteq Keyboards, NEW k \in attached, NEW physical, NEW queued \in BOOLEAN,
           Good(n), NEW r, r = Prepare(k, physical, queued)
    PROVE  /\ Good(r) /\ Early(n, r) /\ Forgives(n, r, physical)
           /\ r.reconciled => n.reconciled \/ (\A j \in attached : j \notin physical \ {k})
<1> DEFINE o == IF n.reconciled /\ ~MapKnown(n) THEN Close(n) ELSE n
           c == EnsureBinding(o)
           t == TryRecovery(c, physical)
           s == SelectConsumer(t, k)
           l == IF Retains(t, k) THEN s ELSE BeginLifecycle(s, queued)
           b == IF ~(t.active # k /\ Prepared(t, k)) THEN t
                ELSE IF ~s.projection THEN s ELSE [l EXCEPT !.active = k]
<1>1. r = ReconcileInitial(b, physical \ {k}, queued)
  BY ZenonT(30) DEF Prepare
<1>2. /\ Good(o) /\ Early(n, o) /\ (o.fatal <=> n.fatal) /\ o.fresh = n.fresh
      /\ o.reconciled => n.reconciled
  <2>1. n \in Adapter
    BY ZenonT(30) DEF Good
  <2>2. Same(n, Close(n)) /\ ~Close(n).reconciled
    BY ZenonT(30), <2>1, CloseCloses
  <2>3. Heard(Close(n)) /\ Close(n).fresh = n.fresh
    BY ZenonT(30), <2>2 DEF Heard, Same
  <2>4. Good(Close(n)) /\ Early(n, Close(n)) /\ (Close(n).fatal <=> n.fatal)
    BY ZenonT(30), <2>2, <2>3, SameGood
  <2>5. Early(n, n)
    BY ZenonT(30) DEF Early
  <2> QED
    BY ZenonT(30), <2>2, <2>3, <2>4, <2>5
<1> HIDE DEF o
<1>3. /\ Good(c) /\ Early(n, c) /\ (c.fatal <=> n.fatal)
      /\ c.reconciled => n.reconciled
  <2>1. o \in Adapter /\ Heard(o)
    BY ZenonT(30), <1>2 DEF Good
  <2>2. Same(o, c) /\ Heard(c) /\ (c.reconciled => o.reconciled)
    BY ZenonT(30), <2>1, EnsureBindingBinds
  <2>3. Good(c) /\ Early(o, c) /\ (c.fatal <=> o.fatal)
    BY ZenonT(30), <1>2, <2>2, SameGood
  <2> QED
    BY ZenonT(30), <1>2, <2>2, <2>3, EarlyTwice
<1> HIDE DEF c
<1>4. /\ Good(t) /\ Early(c, t) /\ Forgives(c, t, physical)
      /\ t.reconciled => c.reconciled
  BY ZenonT(30), <1>3, TryRecoveryForgives
<1> HIDE DEF t
<1>5. /\ Good(s) /\ Early(t, s) /\ (s.fatal <=> t.fatal)
      /\ s.reconciled => t.reconciled
  <2>1. Good(s) /\ Projects(t, s)
    BY ZenonT(30), <1>4, SelectConsumerSelects
  <2>2. s \in Adapter
    BY ZenonT(30), <2>1 DEF Good
  <2>3. Early(t, s)
    BY ZenonT(30), <1>4, <2>1, <2>2, ProjectsGood
  <2> QED
    BY ZenonT(30), <2>1, <2>3 DEF Projects
<1> HIDE DEF s
<1>6. /\ Good(l) /\ Early(t, l) /\ (l.fatal <=> t.fatal)
      /\ l.reconciled => t.reconciled
  <2> DEFINE g == BeginLifecycle(s, queued)
  <2>1. s \in Adapter
    BY ZenonT(30), <1>5 DEF Good
  <2>2. Same(s, g) /\ ~g.reconciled
    BY ZenonT(30), <2>1, BeginLifecycleBegins
  <2>3. Heard(g)
    BY ZenonT(30), <2>2 DEF Heard
  <2>4. Good(g) /\ Early(s, g) /\ (g.fatal <=> s.fatal)
    BY ZenonT(30), <1>5, <2>2, <2>3, SameGood
  <2>5. Early(t, g)
    BY ZenonT(30), <1>5, <2>4, EarlyTwice
  <2> HIDE DEF g
  <2>6. l = s \/ l = g
    BY ZenonT(30) DEF g
  <2> QED
    BY ZenonT(30), <1>5, <2>2, <2>4, <2>5, <2>6
<1> HIDE DEF l
<1>7. /\ Good(b) /\ Early(t, b) /\ (b.fatal <=> t.fatal)
      /\ b.reconciled => t.reconciled
  <2> DEFINE a == [l EXCEPT !.active = k]
  <2>1. Good(a) /\ Early(l, a) /\ (a.fatal <=> l.fatal) /\ (a.reconciled <=> l.reconciled)
    BY ZenonT(30), <1>6, ActiveMoves
  <2>2. Early(t, a)
    BY ZenonT(30), <1>6, <2>1, EarlyTwice
  <2>3. Early(t, t)
    BY ZenonT(30) DEF Early
  <2>4. b = t \/ b = s \/ b = a
    BY ZenonT(30)
  <2> HIDE DEF a, b
  <2> QED
    BY ZenonT(30), <1>4, <1>5, <1>6, <2>1, <2>2, <2>3, <2>4
<1> HIDE DEF b
<1>8. /\ Same(b, r) /\ Heard(r)
      /\ r.reconciled => b.reconciled \/ (\A j \in attached : j \notin physical \ {k})
  <2>1. b \in Adapter /\ Heard(b)
    BY ZenonT(30), <1>7 DEF Good
  <2> QED
    BY ZenonT(30), <1>1, <2>1, ReconcileInitialProves
<1>9. Good(r) /\ Early(b, r) /\ (r.fatal <=> b.fatal)
  BY ZenonT(30), <1>7, <1>8, SameGood
<1>10. Early(n, r)
  BY ZenonT(30), <1>3, <1>4, <1>7, <1>9, EarlyTwice
<1>11. Forgives(n, r, physical)
  BY ZenonT(30), <1>3, <1>4, <1>7, <1>9 DEF Forgives, Early
<1> QED
  BY ZenonT(30), <1>3, <1>4, <1>7, <1>8, <1>9, <1>10, <1>11

-----------------------------------------------------------------------------
(* What inputKey does to the ledger.                                       *)

\* What of s stays when t owns other keys.
Moves(s, t) ==
    /\ t.slot = s.slot /\ t.drain = s.drain /\ t.active = s.active
    /\ t.reconciled = s.reconciled /\ t.connected = s.connected
    /\ t.current = s.current /\ t.told = s.told
    /\ t.fatal = s.fatal /\ t.uncertain = s.uncertain
    /\ t.affected = s.affected /\ t.fresh = s.fresh

\* An uncertain output is fatal and pending; keys and proof are left alone.
LEMMA UncertainFails ==
    ASSUME NEW s, Good(s), NEW t, t = Uncertain(s)
    PROVE  /\ Good(t) /\ t.owned = s.owned /\ t.fwd = s.fwd /\ t.drain = s.drain
           /\ t.reconciled = s.reconciled /\ t.fatal
<1>1. s \in Adapter
  BY ZenonT(30) DEF Good
<1>2. t = [s EXCEPT !.fatal = TRUE, !.uncertain = TRUE, !.affected = TRUE, !.fresh = FALSE]
  BY ZenonT(30) DEF Uncertain
<1>3. t \in Adapter
  BY ZenonT(30), <1>1, <1>2 DEF Adapter
<1>4. /\ t.slot = s.slot /\ t.active = s.active /\ t.owned = s.owned /\ t.fwd = s.fwd /\ t.drain = s.drain
      /\ t.reconciled = s.reconciled /\ t.connected = s.connected
      /\ t.current = s.current /\ t.told = s.told /\ t.fatal /\ t.uncertain
  BY ZenonT(30), <1>1, <1>2, <1>3 DEF Adapter
<1> QED
  BY ZenonT(30), <1>3, <1>4 DEF Good, Heard

\* Whose key is owned and whose is forwarded.
Table(o, f) == o \in SUBSET Keyboards /\ f \in SUBSET Keyboards /\ f \subseteq o

Ledgered(s, o, f, l) == [s EXCEPT !.owned = o, !.fwd = f, !.ledger = l]
Consuming(s, o) == [s EXCEPT !.owned = o]

\* Keys change hands.
LEMMA OwnedMoves ==
    ASSUME NEW s, Good(s), NEW o, NEW f, NEW l \in BOOLEAN, Table(o, f),
           NEW t, t = Ledgered(s, o, f, l)
    PROVE  Good(t) /\ Moves(s, t) /\ t.owned = o
<1>1. s \in Adapter
  BY ZenonT(30) DEF Good
<1>2. t \in Adapter
  BY ZenonT(30), <1>1 DEF Adapter, Table, Ledgered
<1>3. t.owned = o /\ t.fwd = f /\ Moves(s, t)
  BY SMTT(30), <1>1, <1>2 DEF Adapter, Moves, Ledgered
<1> QED
  BY ZenonT(30), <1>2, <1>3 DEF Good, Heard, Moves, Table

\* The same, of a consumed key.
LEMMA ConsumedMoves ==
    ASSUME NEW s, Good(s), NEW o, Table(o, s.fwd), NEW t, t = Consuming(s, o)
    PROVE  Good(t) /\ Moves(s, t) /\ t.owned = o
<1>1. s \in Adapter
  BY ZenonT(30) DEF Good
<1>2. t \in Adapter
  BY ZenonT(30), <1>1 DEF Adapter, Table, Consuming
<1>3. t.owned = o /\ t.fwd = s.fwd /\ Moves(s, t)
  BY ZenonT(30), <1>1, <1>2 DEF Adapter, Moves, Consuming
<1> QED
  BY ZenonT(30), <1>2, <1>3 DEF Good, Heard, Moves, Table

\* The key tables hold keyboards.
LEMMA Tables ==
    ASSUME NEW s, Good(s)
    PROVE  Table(s.owned, s.fwd)
BY ZenonT(30) DEF Good, Adapter, Table

Presses(s, t, k) ==
    /\ Good(t) /\ s.owned \subseteq t.owned /\ k \in t.owned
    /\ t.drain = s.drain
    /\ t.reconciled <=> s.reconciled
    /\ s.fatal => t.fatal

\* After a press its key is owned, whatever the verdict, and no key is lost.
LEMMA PressOwns ==
    ASSUME attached \subseteq Keyboards, NEW k \in attached, NEW verdict,
           NEW s, Good(s), NEW t, t = Press(s, k, verdict)
    PROVE  Presses(s, t, k)
<1> SUFFICES /\ Good(t) /\ s.owned \subseteq t.owned /\ k \in t.owned
             /\ t.drain = s.drain
             /\ t.reconciled <=> s.reconciled
             /\ s.fatal => t.fatal
  BY ZenonT(30) DEF Presses
<1> DEFINE p == Project(s, k)
           u == IF verdict = "partial" THEN Uncertain(p) ELSE p
           o == p.owned \cup {k}
           f == p.fwd \cup {k}
<1>1. /\ Good(p) /\ p.owned = s.owned /\ p.drain = s.drain
      /\ p.reconciled = s.reconciled /\ p.fatal = s.fatal
  BY ZenonT(30), SelectConsumerSelects DEF Projects
<1>2. \/ t = p /\ k \in p.owned
      \/ t = [u EXCEPT !.owned = u.owned \cup {k}]
      \/ t = [p EXCEPT !.owned = o, !.fwd = f, !.ledger = TRUE]
  BY ZenonT(30) DEF Press
<1> HIDE DEF p
<1>3. /\ Good(u) /\ u.owned = s.owned /\ u.drain = s.drain
      /\ u.reconciled = s.reconciled
      /\ s.fatal => u.fatal
  BY ZenonT(30), <1>1, UncertainFails
<1> HIDE DEF u
<1>4. CASE t = p /\ k \in p.owned
  BY ZenonT(30), <1>1, <1>4
<1>5. CASE t = [u EXCEPT !.owned = u.owned \cup {k}]
  <2>1. Table(u.owned \cup {k}, u.fwd)
    BY ZenonT(30), <1>3, Tables DEF Table
  <2> DEFINE a == Consuming(u, u.owned \cup {k})
  <2>2. Good(a) /\ Moves(u, a) /\ a.owned = u.owned \cup {k}
    <3>1. Good(u)
      BY ZenonT(30), <1>3
    <3> QED
      BY ZenonT(30), <2>1, <3>1, ConsumedMoves
  <2>3. t = a
    BY ZenonT(30), <1>5 DEF Consuming
  <2> HIDE DEF a
  <2> QED
    BY ZenonT(30), <1>3, <2>2, <2>3 DEF Moves
<1>6. CASE t = [p EXCEPT !.owned = o, !.fwd = f, !.ledger = TRUE]
  <2>1. Table(o, f)
    BY ZenonT(30), <1>1, Tables DEF Table
  <2> HIDE DEF o, f
  <2> DEFINE a == Ledgered(p, o, f, TRUE)
  <2>2. Good(a) /\ Moves(p, a) /\ a.owned = o
    <3>1. Good(p)
      BY ZenonT(30), <1>1
    <3>2. \A l \in BOOLEAN : /\ Good(Ledgered(p, o, f, l)) /\ Moves(p, Ledgered(p, o, f, l))
                             /\ Ledgered(p, o, f, l).owned = o
      BY ZenonT(30), <2>1, <3>1, OwnedMoves
    <3> QED
      BY ZenonT(30), <3>2
  <2>3. t = a
    BY ZenonT(30), <1>6 DEF Ledgered
  <2> HIDE DEF a
  <2> QED
    BY ZenonT(30), <1>1, <2>2, <2>3 DEF Moves, o
<1> QED
  BY ZenonT(30), <1>2, <1>4, <1>5, <1>6

\* After a release its key is not owned; the others are, as before.
LEMMA ReleaseGivesBack ==
    ASSUME NEW k, NEW s, Good(s), NEW t, t = Release(s, k)
    PROVE  /\ Good(t) /\ t.owned = s.owned \ {k} /\ t.drain = s.drain
           /\ t.affected = s.affected /\ t.fresh = s.fresh
           /\ t.reconciled <=> s.reconciled
           /\ t.fatal <=> s.fatal
<1> DEFINE p == Project(s, k)
           o == p.owned \ {k}
           f == p.fwd \ {k}
           l == p.ledger /\ k \notin s.fwd
<1>1. Good(p) /\ Projects(s, p)
  BY ZenonT(30), SelectConsumerSelects
<1>2. t = [p EXCEPT !.owned = o, !.fwd = f, !.ledger = l]
  BY ZenonT(30) DEF Release
<1> HIDE DEF p
<1>3. Table(o, f)
  BY ZenonT(30), <1>1, Tables DEF Table
<1>4. l \in BOOLEAN
  BY ZenonT(30)
<1> HIDE DEF f, o, l
<1> DEFINE a == Ledgered(p, o, f, l)
<1>5. Good(a) /\ Moves(p, a) /\ a.owned = o
  BY ZenonT(30), <1>1, <1>3, <1>4, OwnedMoves
<1>6. t = a
  BY ZenonT(30), <1>2 DEF Ledgered
<1> HIDE DEF a
<1> QED
  BY ZenonT(30), <1>1, <1>5, <1>6 DEF Moves, Projects, o

Ended(s, t) ==
    /\ Good(t) /\ t.owned = s.owned /\ t.drain = s.drain /\ ~t.reconciled
    /\ s.fatal => t.fatal

\* An event that is not modelled ends the proof and owns nothing new.
LEMMA UnmodelledEnds ==
    ASSUME NEW k, NEW s, Good(s), NEW t, t = Unmodelled(s, k)
    PROVE  Ended(s, t)
<1> SUFFICES /\ Good(t) /\ t.owned = s.owned /\ t.drain = s.drain /\ ~t.reconciled
             /\ s.fatal => t.fatal
  BY ZenonT(30) DEF Ended
<1> DEFINE u == IF s.fwd # {} THEN Uncertain(s) ELSE s
           c == [u EXCEPT !.closed = TRUE, !.fwd = {}]
           r == IF s.slot[k] \in {None, map[k]} THEN s ELSE c
<1>1. t = IF r.reconciled THEN Close(r) ELSE r
  BY ZenonT(30) DEF Unmodelled
<1>2. /\ Good(u) /\ u.owned = s.owned /\ u.drain = s.drain
      /\ s.fatal => u.fatal
  BY ZenonT(30), UncertainFails
<1> HIDE DEF u
<1>3. Good(c) /\ c.owned = u.owned /\ c.drain = u.drain /\ c.fatal = u.fatal
  <2>1. u \in Adapter
    BY ZenonT(30), <1>2 DEF Good
  <2>2. c \in Adapter
    BY ZenonT(30), <2>1 DEF Adapter
  <2>3. /\ c.slot = u.slot /\ c.active = u.active /\ c.owned = u.owned /\ c.fwd = {} /\ c.drain = u.drain
        /\ c.reconciled = u.reconciled /\ c.connected = u.connected
        /\ c.current = u.current /\ c.told = u.told /\ c.fatal = u.fatal /\ c.uncertain = u.uncertain
    BY ZenonT(30), <2>1, <2>2 DEF Adapter
  <2> HIDE DEF c
  <2> QED
    BY ZenonT(30), <1>2, <2>2, <2>3 DEF Good, Heard
<1> HIDE DEF c
<1>4. /\ Good(r) /\ r.owned = s.owned /\ r.drain = s.drain
      /\ s.fatal => r.fatal
  BY ZenonT(30), <1>2, <1>3
<1> HIDE DEF r
<1>5. CASE r.reconciled
  <2>1. r \in Adapter
    BY ZenonT(30), <1>4 DEF Good
  <2>2. Same(r, t) /\ ~t.reconciled
    BY ZenonT(30), <1>1, <1>5, <2>1, CloseCloses
  <2>3. Heard(t)
    BY ZenonT(30), <2>2 DEF Heard
  <2>4. Good(t) /\ Early(r, t) /\ (t.fatal <=> r.fatal)
    BY ZenonT(30), <1>4, <2>2, <2>3, SameGood
  <2> QED
    BY ZenonT(30), <1>4, <2>2, <2>4 DEF Early
<1>6. CASE ~r.reconciled
  BY ZenonT(30), <1>1, <1>4, <1>6
<1> QED
  BY ZenonT(30), <1>5, <1>6

Settled(r, t) ==
    /\ Good(t) /\ t.owned = r.owned /\ t.drain = r.drain
    /\ t.reconciled => r.reconciled
    /\ Forgives(r, t, pressed')

\* The end of a modelled event.
LEMMA SettleRecovers ==
    ASSUME NEW k, NEW s, NEW r, Good(r), NEW queued \in BOOLEAN, NEW t, t = Settle(s, r, k, queued)
    PROVE  Settled(r, t)
<1> SUFFICES /\ Good(t) /\ t.owned = r.owned /\ t.drain = r.drain
             /\ t.reconciled => r.reconciled
             /\ Forgives(r, t, pressed')
  BY ZenonT(30) DEF Settled
<1> DEFINE c == IF Proposes(s, k) /\ ~queued THEN Close(r) ELSE r
<1>1. t = TryRecovery(c, pressed')
  BY ZenonT(30) DEF Settle
<1>2. /\ Good(c) /\ Early(r, c) /\ (c.fatal <=> r.fatal)
      /\ c.reconciled => r.reconciled
  <2>1. r \in Adapter
    BY ZenonT(30) DEF Good
  <2>2. Same(r, Close(r)) /\ ~Close(r).reconciled
    BY ZenonT(30), <2>1, CloseCloses
  <2>3. Heard(Close(r))
    BY ZenonT(30), <2>2 DEF Heard
  <2>4. Good(Close(r)) /\ Early(r, Close(r)) /\ (Close(r).fatal <=> r.fatal)
    BY ZenonT(30), <2>2, <2>3, SameGood
  <2>5. Early(r, r)
    BY ZenonT(30) DEF Early
  <2> QED
    BY ZenonT(30), <2>2, <2>4, <2>5
<1> HIDE DEF c
<1>3. /\ Good(t) /\ Early(c, t) /\ Forgives(c, t, pressed')
      /\ t.reconciled => c.reconciled
  BY ZenonT(30), <1>1, <1>2, TryRecoveryForgives
<1>4. Forgives(r, t, pressed')
  BY ZenonT(30), <1>2, <1>3 DEF Forgives, Early
<1> QED
  BY ZenonT(30), <1>2, <1>3, <1>4 DEF Early

-----------------------------------------------------------------------------
(* The callbacks.                                                          *)

WorldOK ==
    /\ attached \subseteq Keyboards /\ pressed \subseteq attached
    /\ map \in [Keyboards -> Maps \cup {None}]
    /\ \A k \in Keyboards : map[k] \in IF k \in attached THEN Maps ELSE {None}
    /\ focus \in BOOLEAN

\* The inductive invariant.
Ind == Good(n) /\ WorldOK /\ HoldsAccounted /\ DetachesClean

\* The action of ForgivenAfresh.
Forgiven == n.fatal /\ ~n'.fatal => ~n.affected /\ n.fresh /\ n'.owned = {}

\* What every step gives.
Keeps == Ind' /\ Forgiven

\* A callback of an adapter that is not detached: what is left to show of its result.
LEMMA CallbackKeeps ==
    ASSUME attached' = attached, map' = map, focus' = focus, WorldOK, pressed' \subseteq attached,
           Good(n'), n'.drain # "Detached", n'.reconciled => pressed' \subseteq n'.owned, Forgiven
    PROVE  Keeps
<1>1. Good(n)'
  BY ZenonT(30) DEF Good, Heard
<1>2. WorldOK'
  BY ZenonT(30) DEF WorldOK
<1>3. HoldsAccounted' /\ DetachesClean'
  BY ZenonT(30) DEF HoldsAccounted, DetachesClean
<1> QED
  BY ZenonT(30), <1>1, <1>2, <1>3 DEF Keeps, Ind

\* A press: its key is owned before the callback returns, or the proof is gone; and
\* with that key down nothing is forgiven.
LEMMA KeyDownStep ==
    ASSUME Ind, NEW k \in Keyboards, NEW verdict \in Verdicts, NEW queued \in BOOLEAN,
           KeyDown(k, verdict, queued)
    PROVE  Keeps
<1>1. /\ n.drain # "Detached" /\ k \in attached /\ pressed' = pressed \cup {k}
      /\ attached' = attached /\ map' = map /\ focus' = focus
  BY ZenonT(30) DEF KeyDown
<1>2. Good(n) /\ WorldOK /\ attached \subseteq Keyboards /\ pressed \subseteq attached
  BY ZenonT(30) DEF Ind, WorldOK
<1> DEFINE s == Prepare(k, pressed', queued)
           p == Press(s, k, verdict)
<1>3. n' = IF s.slot[k] = map[k] THEN Settle(s, p, k, queued) ELSE Unmodelled(s, k)
  BY ZenonT(30) DEF KeyDown
<1>4. /\ Good(s) /\ Early(n, s) /\ Forgives(n, s, pressed')
      /\ s.reconciled => n.reconciled \/ (\A j \in attached : j \notin pressed' \ {k})
  BY ZenonT(30), <1>1, <1>2, PrepareProves
<1> HIDE DEF s
<1>5. s.drain = n.drain /\ s.owned = n.owned /\ (n.fatal => s.fatal)
  BY ZenonT(30), <1>1, <1>4 DEF Early, Forgives
<1>6. s.reconciled => pressed' \subseteq s.owned \cup {k}
  BY ZenonT(30), <1>1, <1>2, <1>4, <1>5 DEF Ind, HoldsAccounted
<1>7. pressed' \subseteq attached
  BY ZenonT(30), <1>1, <1>2
<1>8. CASE s.slot[k] = map[k]
  <2>1. /\ Good(p) /\ s.owned \subseteq p.owned /\ k \in p.owned /\ p.drain = s.drain
        /\ p.reconciled <=> s.reconciled
        /\ s.fatal => p.fatal
    <3>1. Good(s) /\ attached \subseteq Keyboards /\ k \in attached
      BY ZenonT(30), <1>1, <1>2, <1>4
    <3>2. Presses(s, p, k)
      BY ZenonT(30), <3>1, PressOwns
    <3> QED
      BY ZenonT(30), <3>2 DEF Presses
  <2> HIDE DEF p
  <2>2. n' = Settle(s, p, k, queued)
    BY ZenonT(30), <1>3, <1>8
  <2>3. /\ Good(n') /\ n'.owned = p.owned /\ n'.drain = p.drain
        /\ n'.reconciled => p.reconciled
        /\ Forgives(p, n', pressed')
    <3>1. Good(p)
      BY ZenonT(30), <2>1
    <3>2. Settled(p, n')
      BY ZenonT(30), <2>2, <3>1, SettleRecovers
    <3> QED
      BY ZenonT(30), <3>2 DEF Settled
  <2>4. n'.reconciled => pressed' \subseteq n'.owned
    BY ZenonT(30), <1>6, <2>1, <2>3
  <2>5. n.fatal => n'.fatal
    BY ZenonT(30), <1>1, <1>5, <2>1, <2>3 DEF Forgives
  <2>6. Forgiven /\ n'.drain # "Detached"
    BY ZenonT(30), <1>1, <1>5, <2>1, <2>3, <2>5 DEF Forgiven
  <2> QED
    BY ZenonT(30), <1>1, <1>2, <1>7, <2>3, <2>4, <2>6, CallbackKeeps
<1>9. CASE s.slot[k] # map[k]
  <2>1. n' = Unmodelled(s, k)
    BY ZenonT(30), <1>3, <1>9
  <2>2. /\ Good(n') /\ n'.owned = s.owned /\ n'.drain = s.drain /\ ~n'.reconciled
        /\ s.fatal => n'.fatal
    <3>1. Good(s)
      BY ZenonT(30), <1>4
    <3>2. Ended(s, n')
      BY ZenonT(30), <2>1, <3>1, UnmodelledEnds
    <3> QED
      BY ZenonT(30), <3>2 DEF Ended
  <2>3. Forgiven /\ n'.drain # "Detached"
    BY ZenonT(30), <1>1, <1>5, <2>2 DEF Forgiven
  <2> QED
    BY ZenonT(30), <1>1, <1>2, <1>7, <2>2, <2>3, CallbackKeeps
<1> QED
  BY ZenonT(30), <1>8, <1>9

\* A release: the key leaves the ledger, or the proof is gone.
LEMMA KeyUpStep ==
    ASSUME Ind, NEW k \in Keyboards, NEW queued \in BOOLEAN, KeyUp(k, queued)
    PROVE  Keeps
<1>1. /\ n.drain # "Detached" /\ k \in pressed /\ pressed' = pressed \ {k}
      /\ attached' = attached /\ map' = map /\ focus' = focus
  BY ZenonT(30) DEF KeyUp
<1>2. /\ Good(n) /\ WorldOK /\ attached \subseteq Keyboards /\ pressed \subseteq attached
      /\ k \in attached
  BY ZenonT(30), <1>1 DEF Ind, WorldOK
<1> DEFINE s == Prepare(k, pressed', queued)
           p == Release(s, k)
<1>3. n' = IF s.slot[k] = map[k] /\ k \in s.owned THEN Settle(s, p, k, queued) ELSE Unmodelled(s, k)
  BY ZenonT(30) DEF KeyUp
<1>4. /\ Good(s) /\ Early(n, s) /\ Forgives(n, s, pressed')
      /\ s.reconciled => n.reconciled \/ (\A j \in attached : j \notin pressed' \ {k})
  <2>1. Good(n) /\ attached \subseteq Keyboards /\ k \in attached
    BY ZenonT(30), <1>2
  <2> QED
    BY ZenonT(30), <2>1, PrepareProves
<1> HIDE DEF s
<1>5. /\ s.drain = n.drain /\ s.owned = n.owned /\ s.affected = n.affected
      /\ s.fresh => n.fresh
      /\ s.fatal => n.fatal
  BY ZenonT(30), <1>4 DEF Early
<1>6. s.reconciled => pressed' \subseteq s.owned \ {k}
  BY ZenonT(30), <1>1, <1>2, <1>4, <1>5 DEF Ind, HoldsAccounted
<1>7. pressed' \subseteq attached
  BY ZenonT(30), <1>1, <1>2
<1>8. CASE s.slot[k] = map[k] /\ k \in s.owned
  <2>1. /\ Good(p) /\ p.owned = s.owned \ {k} /\ p.drain = s.drain
        /\ p.affected = s.affected /\ p.fresh = s.fresh
        /\ p.reconciled <=> s.reconciled
        /\ p.fatal <=> s.fatal
    BY ZenonT(30), <1>4, ReleaseGivesBack
  <2> HIDE DEF p
  <2>2. n' = Settle(s, p, k, queued)
    BY ZenonT(30), <1>3, <1>8
  <2>3. /\ Good(n') /\ n'.owned = p.owned /\ n'.drain = p.drain
        /\ n'.reconciled => p.reconciled
        /\ Forgives(p, n', pressed')
    <3>1. Good(p)
      BY ZenonT(30), <2>1
    <3>2. Settled(p, n')
      BY ZenonT(30), <2>2, <3>1, SettleRecovers
    <3> QED
      BY ZenonT(30), <3>2 DEF Settled
  <2>4. n'.reconciled => pressed' \subseteq n'.owned
    BY ZenonT(30), <1>6, <2>1, <2>3
  <2>5. n.fatal => s.fatal
    BY ZenonT(30), <1>4, <1>5, <1>8 DEF Forgives
  <2>6. Forgiven
    BY ZenonT(30), <1>5, <2>1, <2>3, <2>5 DEF Forgiven, Forgives
  <2> QED
    BY ZenonT(30), <1>1, <1>2, <1>5, <1>7, <2>1, <2>3, <2>4, <2>6, CallbackKeeps
<1>9. CASE ~(s.slot[k] = map[k] /\ k \in s.owned)
  <2>1. n' = Unmodelled(s, k)
    BY ZenonT(30), <1>3, <1>9
  <2>2. /\ Good(n') /\ n'.owned = s.owned /\ n'.drain = s.drain /\ ~n'.reconciled
        /\ s.fatal => n'.fatal
    <3>1. Good(s)
      BY ZenonT(30), <1>4
    <3>2. Ended(s, n')
      BY ZenonT(30), <2>1, <3>1, UnmodelledEnds
    <3> QED
      BY ZenonT(30), <3>2 DEF Ended
  <2>3. Forgiven
    BY ZenonT(30), <1>4, <1>5, <2>2 DEF Forgiven, Forgives
  <2> QED
    BY ZenonT(30), <1>1, <1>2, <1>5, <1>7, <2>2, <2>3, CallbackKeeps
<1> QED
  BY ZenonT(30), <1>8, <1>9

\* Any s kept good by the operators of the timer: keys, proof and output are its own.
Quietly(s, t) ==
    /\ t.owned = s.owned /\ t.fwd = s.fwd /\ t.drain = s.drain /\ t.active = s.active
    /\ t.fatal = s.fatal /\ t.uncertain = s.uncertain
    /\ t.reconciled = s.reconciled /\ t.connected = s.connected
    /\ t.current = s.current /\ t.told = s.told

\* rebuildEquivalentMaps, registerExisting and the startup enter.
LEMMA TimerQuiet ==
    ASSUME WorldOK, NEW s, Good(s),
           NEW t, t \in {Rebuild(s), Register(s), Reproject(s), StartupOutput(s)}
    PROVE  Good(t) /\ Quietly(s, t)
<1>0. s \in Adapter
  BY ZenonT(30) DEF Good
<1>1. CASE t = s
  BY ZenonT(30), <1>1 DEF Quietly
<1>2. CASE t = [s EXCEPT !.compatible = FALSE]
  <2>1. t \in Adapter
    BY ZenonT(30), <1>0, <1>2 DEF Adapter
  <2>2. Quietly(s, t) /\ t.slot = s.slot
    BY ZenonT(30), <1>0, <1>2, <2>1 DEF Adapter, Quietly
  <2> QED
    BY ZenonT(30), <2>1, <2>2 DEF Good, Heard, Quietly
<1>3. CASE t = [s EXCEPT !.compatible = TRUE, !.dirty = FALSE]
  <2>1. t \in Adapter
    BY ZenonT(30), <1>0, <1>3 DEF Adapter
  <2>2. Quietly(s, t) /\ t.slot = s.slot
    BY SMTT(30), <1>0, <1>3, <2>1 DEF Adapter, Quietly
  <2> QED
    BY ZenonT(30), <2>1, <2>2 DEF Good, Heard, Quietly
<1>4. CASE t = SelectConsumer(s, s.active)
  <2>1. Good(t) /\ Projects(s, t)
    BY ZenonT(30), <1>4, SelectConsumerSelects
  <2> QED
    BY ZenonT(30), <2>1 DEF Projects, Quietly
<1>5. CASE t = Register(s)
  <2> DEFINE f == [k \in Keyboards |->
                     IF \/ k \in attached /\ s.slot[k] # None /\ Quiescent(s)
                        \/ k \in attached /\ s.slot[k] = None /\ k \notin pressed
                     THEN map[k] ELSE s.slot[k]]
  <2>1. t = [s EXCEPT !.slot = f]
    BY ZenonT(30), <1>5 DEF Register
  <2>2. s.slot \in [Keyboards -> Maps \cup {None}] /\ map \in [Keyboards -> Maps \cup {None}]
    BY ZenonT(30), <1>0 DEF Adapter, WorldOK
  <2>3. f \in [Keyboards -> Maps \cup {None}]
    BY ZenonT(30), <2>2
  <2>4. \A k \in Keyboards \ attached : f[k] = s.slot[k]
    BY ZenonT(30)
  <2> HIDE DEF f
  <2>5. t \in Adapter
    BY ZenonT(30), <1>0, <2>1, <2>3 DEF Adapter
  <2>6. Quietly(s, t) /\ t.slot = f
    BY ZenonT(30), <1>0, <2>1, <2>5 DEF Adapter, Quietly
  <2> QED
    BY ZenonT(30), <2>4, <2>5, <2>6 DEF Good, Heard, Quietly
<1>6. CASE t = StartupOutput(s) /\ t # s
  <2>1. PICK e \in BOOLEAN : t = [s EXCEPT !.bound = TRUE, !.startup = FALSE, !.fresh = e]
    BY ZenonT(30), <1>6 DEF StartupOutput
  <2>2. t \in Adapter
    BY ZenonT(30), <1>0, <2>1 DEF Adapter
  <2>3. Quietly(s, t) /\ t.slot = s.slot
    BY SMTT(30), <1>0, <2>1, <2>2 DEF Adapter, Quietly
  <2> QED
    BY ZenonT(30), <2>2, <2>3 DEF Good, Heard, Quietly
<1>7. t = Rebuild(s) => t = s \/ t = [s EXCEPT !.compatible = FALSE] \/ t = [s EXCEPT !.compatible = TRUE, !.dirty = FALSE]
  BY ZenonT(30) DEF Rebuild
<1>8. t = Reproject(s) => t = s \/ t = SelectConsumer(s, s.active)
  BY ZenonT(30) DEF Reproject
<1>9. t = Rebuild(s) \/ t = Register(s) \/ t = Reproject(s) \/ t = StartupOutput(s)
  BY ZenonT(30)
<1> QED
  BY ZenonT(30), <1>1, <1>2, <1>3, <1>4, <1>5, <1>6, <1>7, <1>8, <1>9

\* The timer: a proof it makes needs every key up.
LEMMA TickStep ==
    ASSUME Ind, NEW queued \in BOOLEAN, Tick(queued)
    PROVE  Keeps
<1>1. Good(n) /\ WorldOK
  BY ZenonT(30) DEF Ind
<1>2. n.drain # "Detached" /\ UNCHANGED world
  BY ZenonT(30) DEF Tick
<1> DEFINE u == Rebuild(n)
           v == Register(u)
           r == Reproject(v)
           l == IF \E k \in Keyboards : n.slot[k] = None /\ r.slot[k] # None
                THEN BeginLifecycle(r, queued) ELSE r
           o == StartupOutput(l)
<1>3. n' = ReconcileInitial(o, pressed, queued)
  BY ZenonT(30) DEF Tick
<1>4. Good(u) /\ Quietly(n, u)
  BY ZenonT(30), <1>1, TimerQuiet
<1> HIDE DEF u
<1>5. Good(v) /\ Quietly(u, v)
  BY ZenonT(30), <1>1, <1>4, TimerQuiet
<1> HIDE DEF v
<1>6. Good(r) /\ Quietly(v, r)
  BY ZenonT(30), <1>1, <1>5, TimerQuiet
<1>7. Quietly(n, r)
  BY ZenonT(30), <1>4, <1>5, <1>6 DEF Quietly
<1> HIDE DEF r
<1>8. /\ Good(l) /\ l.owned = n.owned /\ l.drain = n.drain /\ (l.fatal <=> n.fatal)
      /\ l.reconciled => n.reconciled
  <2> DEFINE g == BeginLifecycle(r, queued)
  <2>1. r \in Adapter
    BY ZenonT(30), <1>6 DEF Good
  <2>2. Same(r, g) /\ ~g.reconciled
    BY ZenonT(30), <2>1, BeginLifecycleBegins
  <2>3. Heard(g)
    BY ZenonT(30), <2>2 DEF Heard
  <2>4. Good(g) /\ Early(r, g) /\ (g.fatal <=> r.fatal)
    BY ZenonT(30), <1>6, <2>2, <2>3, SameGood
  <2>5. l = r \/ l = g
    BY ZenonT(30)
  <2> HIDE DEF g, l
  <2> QED
    BY ZenonT(30), <1>6, <1>7, <2>2, <2>4, <2>5 DEF Quietly, Early
<1> HIDE DEF l
<1>9. Good(o) /\ Quietly(l, o)
  BY ZenonT(30), <1>1, <1>8, TimerQuiet
<1> HIDE DEF o
<1>10. /\ Same(o, n') /\ Heard(n')
       /\ n'.reconciled => o.reconciled \/ (\A k \in attached : k \notin pressed)
  <2>1. o \in Adapter /\ Heard(o)
    BY ZenonT(30), <1>9 DEF Good
  <2> QED
    BY ZenonT(30), <1>3, <2>1, ReconcileInitialProves
<1>11. Good(n') /\ Early(o, n') /\ (n'.fatal <=> o.fatal)
  BY ZenonT(30), <1>9, <1>10, SameGood
<1>12. n'.owned = n.owned /\ n'.drain = n.drain /\ (n'.fatal <=> n.fatal) /\ (o.reconciled => n.reconciled)
  BY ZenonT(30), <1>8, <1>9, <1>11 DEF Quietly, Early
<1>13. n'.reconciled => pressed' \subseteq n'.owned
  BY ZenonT(30), <1>1, <1>2, <1>10, <1>12 DEF Ind, HoldsAccounted, WorldOK, world
<1>14. attached' = attached /\ map' = map /\ focus' = focus /\ pressed' \subseteq attached
  BY ZenonT(30), <1>1, <1>2 DEF world, WorldOK
<1>15. Forgiven
  BY ZenonT(30), <1>12 DEF Forgiven
<1> QED
  BY ZenonT(30), <1>1, <1>2, <1>11, <1>12, <1>13, <1>14, <1>15, CallbackKeeps

\* Setting lifecycleDirty changes nothing else.
LEMMA DirtyMoves ==
    ASSUME NEW s, Good(s), NEW t, t = [s EXCEPT !.dirty = TRUE]
    PROVE  Good(t) /\ Quietly(s, t) /\ t.slot = s.slot
<1>1. s \in Adapter
  BY ZenonT(30) DEF Good
<1>2. t \in Adapter
  BY ZenonT(30), <1>1 DEF Adapter
<1>3. Quietly(s, t) /\ t.slot = s.slot
  BY ZenonT(30), <1>1, <1>2 DEF Adapter, Quietly
<1> QED
  BY ZenonT(30), <1>2, <1>3 DEF Good, Heard, Quietly

\* beginLifecycle with lifecycleDirty, as the device and layout callbacks have it.
Begun(s, t) ==
    /\ Good(t) /\ ~t.reconciled /\ t.slot = s.slot /\ t.active = s.active
    /\ t.owned = s.owned /\ t.fwd = s.fwd /\ t.drain = s.drain
    /\ t.fatal <=> s.fatal

\* The device and layout callbacks begin with it.
LEMMA LifecycleBegun ==
    ASSUME Good(n), NEW queued \in BOOLEAN
    PROVE  Begun(n, BeginLifecycle(n, queued)) /\ Begun(n, [BeginLifecycle(n, queued) EXCEPT !.dirty = TRUE])
<1> DEFINE g == BeginLifecycle(n, queued)
           d == [g EXCEPT !.dirty = TRUE]
<1>1. n \in Adapter
  BY ZenonT(30) DEF Good
<1>2. Same(n, g) /\ ~g.reconciled
  BY ZenonT(30), <1>1, BeginLifecycleBegins
<1> HIDE DEF g
<1>3. Heard(g)
  BY ZenonT(30), <1>2 DEF Heard
<1>4. Good(g) /\ Early(n, g) /\ (g.fatal <=> n.fatal) /\ g.active = n.active
  BY ZenonT(30), <1>2, <1>3, SameGood
<1>5. Begun(n, g)
  BY ZenonT(30), <1>2, <1>4 DEF Early, Begun
<1>6. Good(d) /\ Quietly(g, d) /\ d.slot = g.slot
  BY ZenonT(30), <1>4, DirtyMoves
<1> HIDE DEF d
<1>7. Begun(n, d)
  BY ZenonT(30), <1>5, <1>6 DEF Begun, Quietly
<1> QED
  BY ZenonT(30), <1>5, <1>7 DEF g, d

\* A step that changes the world ends with no proof: what is left to show.
LEMMA WorldKeeps ==
    ASSUME Good(n)', WorldOK', n'.drain # "Detached", ~n'.reconciled, n.fatal => n'.fatal
    PROVE  Keeps
<1>1. HoldsAccounted' /\ DetachesClean'
  BY ZenonT(30) DEF HoldsAccounted, DetachesClean
<1>2. Forgiven
  BY ZenonT(30) DEF Forgiven
<1> QED
  BY ZenonT(30), <1>1, <1>2 DEF Keeps, Ind

\* A keyboard that appears, with or without its key held, ends the proof.
LEMMA NewKeyboardStep ==
    ASSUME Ind, NEW k \in Keyboards, NEW m \in Maps, NEW held \in BOOLEAN, NEW queued \in BOOLEAN,
           NewKeyboard(k, m, held, queued)
    PROVE  Keeps
<1>1. Good(n) /\ WorldOK
  BY ZenonT(30) DEF Ind
<1>2. /\ n.drain # "Detached" /\ attached' = attached \cup {k} /\ map' = [map EXCEPT ![k] = m]
      /\ pressed' = (IF held THEN pressed \cup {k} ELSE pressed)
      /\ n' = [BeginLifecycle(n, queued) EXCEPT !.dirty = TRUE] /\ focus' = focus
  BY ZenonT(30) DEF NewKeyboard
<1>3. Begun(n, n')
  BY ZenonT(30), <1>1, <1>2, LifecycleBegun
<1>4. Good(n)'
  <2>1. Good(n')
    BY ZenonT(30), <1>3 DEF Begun
  <2>2. Keyboards \ attached' \subseteq Keyboards \ attached
    BY ZenonT(30), <1>2
  <2> QED
    BY ZenonT(30), <2>1, <2>2 DEF Good, Heard
<1>5. WorldOK'
  BY ZenonT(30), <1>1, <1>2 DEF WorldOK
<1> QED
  BY ZenonT(30), <1>2, <1>3, <1>4, <1>5, WorldKeeps DEF Begun

\* A layout change ends the proof.
LEMMA SetLayoutStep ==
    ASSUME Ind, NEW m \in Maps, NEW queued \in BOOLEAN, SetLayout(m, queued)
    PROVE  Keeps
<1>1. Good(n) /\ WorldOK
  BY ZenonT(30) DEF Ind
<1>2. /\ n.drain # "Detached"
      /\ map' = [k \in Keyboards |-> IF k \in attached THEN m ELSE map[k]]
      /\ n' = [BeginLifecycle(n, queued) EXCEPT !.dirty = TRUE]
      /\ attached' = attached /\ pressed' = pressed /\ focus' = focus
  BY ZenonT(30) DEF SetLayout
<1>3. Begun(n, n')
  BY ZenonT(30), <1>1, <1>2, LifecycleBegun
<1>4. Good(n)'
  <2>1. Good(n')
    BY ZenonT(30), <1>3 DEF Begun
  <2> QED
    BY ZenonT(30), <1>2, <2>1 DEF Good, Heard
<1>5. WorldOK'
  BY ZenonT(30), <1>1, <1>2 DEF WorldOK
<1> QED
  BY ZenonT(30), <1>2, <1>3, <1>4, <1>5, WorldKeeps DEF Begun

\* A keyboard that goes takes its key out of the ledger; if the key was forwarded by it
\* alone the output is uncertain.  The proof ends.
LEMMA DestroyKeyboardStep ==
    ASSUME Ind, NEW k \in Keyboards, NEW queued \in BOOLEAN, DestroyKeyboard(k, queued)
    PROVE  Keeps
<1>1. Good(n) /\ WorldOK
  BY ZenonT(30) DEF Ind
<1> DEFINE b == BeginLifecycle(n, queued)
           u == IF k \in b.fwd /\ b.fwd = {k} THEN Uncertain(b) ELSE b
           a == IF u.active = k THEN None ELSE u.active
           f == [u.slot EXCEPT ![k] = None]
           o == u.owned \ {k}
           w == u.fwd \ {k}
<1>2. /\ n.drain # "Detached" /\ attached' = attached \ {k} /\ map' = [map EXCEPT ![k] = None]
      /\ pressed' = pressed \ {k} /\ focus' = focus
  BY ZenonT(30) DEF DestroyKeyboard
<1>3. n' = [u EXCEPT !.slot = f, !.owned = o, !.fwd = w, !.active = a, !.dirty = TRUE]
  BY ZenonT(30) DEF DestroyKeyboard
<1>4. Begun(n, b)
  BY ZenonT(30), <1>1, LifecycleBegun
<1> HIDE DEF b
<1>5. /\ Good(u) /\ ~u.reconciled /\ u.drain = n.drain
      /\ n.fatal => u.fatal
  BY ZenonT(30), <1>4, UncertainFails DEF Begun
<1> HIDE DEF u
<1>6. u \in Adapter
  BY ZenonT(30), <1>5 DEF Good
<1>7. /\ u.slot \in [Keyboards -> Maps \cup {None}] /\ u.active \in Keyboards \cup {None}
      /\ u.owned \in SUBSET Keyboards /\ u.fwd \in SUBSET Keyboards /\ u.fwd \subseteq u.owned
      /\ \A j \in Keyboards \ attached : u.slot[j] = None /\ j # u.active
  BY ZenonT(30), <1>5, <1>6 DEF Adapter, Good
<1>8. /\ f \in [Keyboards -> Maps \cup {None}] /\ a \in Keyboards \cup {None}
      /\ o \in SUBSET Keyboards /\ w \in SUBSET Keyboards /\ w \subseteq o
      /\ \A j \in Keyboards \ attached' : f[j] = None /\ j # a
  BY ZenonT(30), <1>2, <1>7, AdmissionAssumption
<1> HIDE DEF f, a, o, w
<1>9. n' \in Adapter
  BY ZenonT(30), <1>3, <1>6, <1>8 DEF Adapter
<1>10. /\ n'.slot = f /\ n'.owned = o /\ n'.fwd = w /\ n'.active = a
       /\ n'.fatal = u.fatal /\ n'.uncertain = u.uncertain
       /\ n'.drain = u.drain /\ n'.reconciled = u.reconciled
  BY SMTT(30), <1>3, <1>6, <1>9 DEF Adapter
<1>11. Good(n)'
  BY ZenonT(30), <1>5, <1>8, <1>9, <1>10 DEF Good, Heard
<1>12. WorldOK'
  BY ZenonT(30), <1>1, <1>2 DEF WorldOK
<1> QED
  BY ZenonT(30), <1>2, <1>5, <1>10, <1>11, <1>12, WorldKeeps

\* A step that moves no key and makes no proof.
LEMMA SteadyKeeps ==
    ASSUME Ind, attached' = attached, map' = map, pressed' = pressed, focus' \in BOOLEAN,
           Good(n'), n'.owned = n.owned, n'.reconciled => n.reconciled, n'.fatal <=> n.fatal,
           DetachesClean'
    PROVE  Keeps
<1>1. Good(n)'
  BY ZenonT(30) DEF Good, Heard
<1>2. WorldOK'
  BY ZenonT(30) DEF WorldOK, Ind
<1>3. HoldsAccounted'
  BY ZenonT(30) DEF HoldsAccounted, Ind
<1>4. Forgiven
  BY ZenonT(30) DEF Forgiven
<1> QED
  BY ZenonT(30), <1>1, <1>2, <1>3, <1>4 DEF Keeps, Ind

\* Stock's choice of a consumer keeps a proof only for a keyboard whose map is known.
LEMMA SelectKeyboardStep ==
    ASSUME Ind, NEW k \in Keyboards, SelectKeyboard(k)
    PROVE  Keeps
<1>1. Good(n) /\ WorldOK /\ attached \subseteq Keyboards
  BY ZenonT(30) DEF Ind, WorldOK
<1> DEFINE s == Project(n, k)
<1>2. n.drain # "Detached" /\ k \in attached /\ UNCHANGED world
  BY ZenonT(30) DEF SelectKeyboard
<1>3. PICK r \in BOOLEAN : /\ n' = [s EXCEPT !.active = k, !.reconciled = r]
                           /\ r => s.reconciled
  BY ZenonT(30) DEF SelectKeyboard, Project
<1>4. Good(s) /\ Projects(n, s)
  BY ZenonT(30), <1>1, SelectConsumerSelects
<1> HIDE DEF s
<1>5. s \in Adapter /\ k \in Keyboards
  BY ZenonT(30), <1>4 DEF Good
<1>6. n' \in Adapter
  BY ZenonT(30), <1>3, <1>5 DEF Adapter
<1>7. /\ n'.active = k /\ n'.owned = s.owned /\ n'.fwd = s.fwd /\ n'.slot = s.slot /\ n'.drain = s.drain
      /\ n'.fatal = s.fatal /\ n'.uncertain = s.uncertain
      /\ n'.reconciled = r /\ n'.connected = s.connected
      /\ n'.current = s.current /\ n'.told = s.told
  BY ZenonT(30), <1>3, <1>5, <1>6 DEF Adapter
<1>8. Good(n')
  BY ZenonT(30), <1>2, <1>3, <1>4, <1>6, <1>7 DEF Good, Heard
<1>9. /\ n'.owned = n.owned /\ n'.drain # "Detached" /\ (n'.fatal <=> n.fatal)
      /\ n'.reconciled => n.reconciled
  BY ZenonT(30), <1>2, <1>3, <1>4, <1>7 DEF Projects
<1>10. DetachesClean'
  BY ZenonT(30), <1>9 DEF DetachesClean
<1>11. attached' = attached /\ map' = map /\ pressed' = pressed /\ focus' \in BOOLEAN
  BY ZenonT(30), <1>1, <1>2 DEF world, WorldOK
<1> QED
  BY ZenonT(30), <1>8, <1>9, <1>10, <1>11, SteadyKeeps

\* A focus change ends the proof, and is the fresh client recovery waits for.
LEMMA FocusChangeStep ==
    ASSUME Ind, NEW f \in BOOLEAN, NEW entered \in BOOLEAN, NEW queued \in BOOLEAN,
           FocusChange(f, entered, queued)
    PROVE  Keeps
<1>1. Good(n) /\ n \in Adapter
  BY ZenonT(30) DEF Ind, Good
<1> DEFINE r == [n EXCEPT !.reconciled = FALSE]
           t == Tell(r, FALSE, queued)
<1>2. n.drain # "Detached" /\ focus' = f /\ UNCHANGED <<attached, map, pressed>>
  BY ZenonT(30) DEF FocusChange
<1>3. PICK e \in BOOLEAN : n' = [t EXCEPT !.bound = entered, !.fresh = e]
  <2>1. n' = [t EXCEPT !.bound = entered, !.fresh = @ \/ (entered /\ n.uncertain /\ ~n.affected)]
    BY ZenonT(30) DEF FocusChange
  <2> QED
    BY ZenonT(30), <2>1
<1>4. r \in Adapter
  BY ZenonT(30), <1>1, Restated
<1>5. Same(n, r) /\ ~r.reconciled
  BY ZenonT(30), <1>1, <1>4 DEF Adapter, Same
<1> HIDE DEF r
<1>6. Same(r, t) /\ ~t.reconciled
  BY ZenonT(30), <1>4, <1>5, TellTells
<1> HIDE DEF t
<1>7. Same(n, t) /\ Heard(t)
  BY ZenonT(30), <1>5, <1>6, SameTwice DEF Heard
<1>8. Good(t) /\ Early(n, t) /\ (t.fatal <=> n.fatal)
  BY ZenonT(30), <1>1, <1>7, SameGood
<1>9. t \in Adapter
  BY ZenonT(30), <1>8 DEF Good
<1>10. n' \in Adapter
  BY ZenonT(30), <1>3, <1>9 DEF Adapter
<1>11. Quietly(t, n') /\ n'.slot = t.slot
  BY SMTT(30), <1>3, <1>9, <1>10 DEF Adapter, Quietly
<1>12. Good(n')
  BY ZenonT(30), <1>8, <1>10, <1>11 DEF Good, Heard, Quietly
<1>13. n'.owned = n.owned /\ n'.drain # "Detached" /\ (n'.fatal <=> n.fatal) /\ ~n'.reconciled
  BY ZenonT(30), <1>2, <1>6, <1>8, <1>11 DEF Quietly, Early
<1>14. DetachesClean'
  BY ZenonT(30), <1>13 DEF DetachesClean
<1> QED
  BY ZenonT(30), <1>2, <1>12, <1>13, <1>14, SteadyKeeps

\* A keyboard resource that goes retires its route; keys and proof stay.
LEMMA ResourceDestroyedStep ==
    ASSUME Ind, NEW hit \in BOOLEAN, NEW ours \in BOOLEAN, ResourceDestroyed(hit, ours)
    PROVE  Keeps
<1>1. Good(n) /\ WorldOK /\ n \in Adapter
  BY ZenonT(30) DEF Ind, Good
<1>2. n.drain # "Detached" /\ UNCHANGED world
  BY ZenonT(30) DEF ResourceDestroyed
<1>3. PICK a \in BOOLEAN, b \in BOOLEAN : n' = [n EXCEPT !.affected = a, !.fresh = FALSE, !.bound = b]
  BY ZenonT(30) DEF ResourceDestroyed
<1>4. n' \in Adapter
  BY ZenonT(30), <1>1, <1>3 DEF Adapter
<1>5. Quietly(n, n') /\ n'.slot = n.slot
  BY SMTT(30), <1>1, <1>3, <1>4 DEF Adapter, Quietly
<1>6. Good(n')
  BY ZenonT(30), <1>1, <1>4, <1>5 DEF Good, Heard, Quietly
<1>7. n'.owned = n.owned /\ n'.drain # "Detached" /\ n'.fatal = n.fatal /\ n'.reconciled = n.reconciled
  BY ZenonT(30), <1>2, <1>5 DEF Quietly
<1>8. DetachesClean'
  BY ZenonT(30), <1>7 DEF DetachesClean
<1>9. attached' = attached /\ map' = map /\ pressed' = pressed /\ focus' \in BOOLEAN
  BY ZenonT(30), <1>1, <1>2 DEF world, WorldOK
<1> QED
  BY ZenonT(30), <1>6, <1>7, <1>8, <1>9, SteadyKeeps

\* The worker's connections: a new one has heard nothing and is not the proof's.
LEMMA ConnectionStep ==
    ASSUME Ind, Connect \/ Drop
    PROVE  Keeps
<1>1. Good(n) /\ WorldOK /\ DetachesClean /\ n \in Adapter
  BY ZenonT(30) DEF Ind, Good
<1>2. UNCHANGED world
  BY ZenonT(30) DEF Connect, Drop
<1>3. \/ n' = [n EXCEPT !.connected = TRUE, !.current = FALSE, !.told = FALSE]
      \/ n' = [n EXCEPT !.connected = FALSE]
  BY ZenonT(30) DEF Connect, Drop
<1>4. n' \in Adapter
  <2>1. /\ [n EXCEPT !.connected = TRUE, !.current = FALSE, !.told = FALSE] \in Adapter
        /\ [n EXCEPT !.connected = FALSE] \in Adapter
    BY ZenonT(30), <1>1 DEF Adapter
  <2> QED
    BY ZenonT(30), <1>3, <2>1
<1>5. Same(n, n') /\ n'.reconciled = n.reconciled /\ (~n'.connected \/ ~n'.current)
  <2>1. CASE n' = [n EXCEPT !.connected = TRUE, !.current = FALSE, !.told = FALSE]
    BY SMTT(30), <1>1, <1>4, <2>1 DEF Adapter, Same
  <2>2. CASE n' = [n EXCEPT !.connected = FALSE]
    BY ZenonT(30), <1>1, <1>4, <2>2 DEF Adapter, Same
  <2> QED
    BY ZenonT(30), <1>3, <2>1, <2>2
<1>6. Heard(n')
  BY ZenonT(30), <1>5 DEF Heard
<1>7. Good(n') /\ Early(n, n') /\ (n'.fatal <=> n.fatal)
  BY ZenonT(30), <1>1, <1>5, <1>6, SameGood
<1>8. n'.owned = n.owned /\ DetachesClean'
  BY ZenonT(30), <1>1, <1>5 DEF Same, DetachesClean
<1>9. attached' = attached /\ map' = map /\ pressed' = pressed /\ focus' \in BOOLEAN
  BY ZenonT(30), <1>1, <1>2 DEF world, WorldOK
<1> QED
  BY ZenonT(30), <1>5, <1>7, <1>8, <1>9, SteadyKeeps

\* The drain command ends the proof; the status command detaches a settled desk.
LEMMA DrainStep ==
    ASSUME Ind, Drain \/ Status
    PROVE  Keeps
<1>1. Good(n) /\ WorldOK /\ n \in Adapter
  BY ZenonT(30) DEF Ind, Good
<1>2. UNCHANGED world
  BY ZenonT(30) DEF Drain, Status
<1>3. \/ n' = [n EXCEPT !.drain = "Draining", !.reconciled = FALSE]
      \/ /\ n' = [n EXCEPT !.drain = "Detached"]
         /\ n.owned = {} /\ ~n.fatal /\ ~n.ledger /\ ~n.uncertain
  BY ZenonT(30) DEF Drain, Status, Admissible, Quiescent, OutputReconciled
<1>4. n' \in Adapter
  <2>1. /\ [n EXCEPT !.drain = "Draining", !.reconciled = FALSE] \in Adapter
        /\ [n EXCEPT !.drain = "Detached"] \in Adapter
    BY ZenonT(30), <1>1 DEF Adapter
  <2> QED
    BY ZenonT(30), <1>3, <2>1
<1>5. /\ n'.owned = n.owned /\ n'.fwd = n.fwd /\ n'.slot = n.slot /\ n'.active = n.active
      /\ n'.fatal = n.fatal /\ n'.uncertain = n.uncertain /\ n'.ledger = n.ledger
      /\ n'.connected = n.connected /\ n'.current = n.current /\ n'.told = n.told
      /\ n'.reconciled => n.reconciled
      /\ n'.drain = "Detached" => n.owned = {} /\ ~n.fatal /\ ~n.ledger /\ ~n.uncertain
  <2>1. CASE n' = [n EXCEPT !.drain = "Draining", !.reconciled = FALSE]
    BY ZenonT(30), <1>1, <1>4, <2>1 DEF Adapter
  <2>2. CASE /\ n' = [n EXCEPT !.drain = "Detached"]
             /\ n.owned = {} /\ ~n.fatal /\ ~n.ledger /\ ~n.uncertain
    BY ZenonT(30), <1>1, <1>4, <2>2 DEF Adapter
  <2> QED
    BY ZenonT(30), <1>3, <2>1, <2>2
<1>6. Good(n') /\ DetachesClean'
  BY ZenonT(30), <1>1, <1>4, <1>5 DEF Good, Heard, DetachesClean
<1>7. attached' = attached /\ map' = map /\ pressed' = pressed /\ focus' \in BOOLEAN
  BY ZenonT(30), <1>1, <1>2 DEF world, WorldOK
<1> QED
  BY ZenonT(30), <1>5, <1>6, <1>7, SteadyKeeps

-----------------------------------------------------------------------------
(* The theorems.                                                           *)

\* The plugin starts on a released desk, without a proof.
LEMMA InitGood ==
    ASSUME Init
    PROVE  Ind
<1>1. /\ attached \subseteq Keyboards /\ pressed = {} /\ focus \in BOOLEAN
      /\ map \in [Keyboards -> Maps \cup {None}]
      /\ \A k \in Keyboards : map[k] = None <=> k \notin attached
  BY ZenonT(30) DEF Init
<1>2. PICK k \in attached :
        n = [slot |-> map,
             active |-> k, compatible |-> TRUE, projection |-> TRUE, dirty |-> FALSE,
             owned |-> {}, fwd |-> {}, ledger |-> FALSE, fatal |-> FALSE,
             uncertain |-> FALSE, affected |-> FALSE, fresh |-> FALSE, bound |-> FALSE,
             startup |-> TRUE, closed |-> FALSE, current |-> TRUE, connected |-> FALSE,
             reconciled |-> FALSE,
             told |-> FALSE, drain |-> "Running"]
  BY ZenonT(30) DEF Init
<1>3. k \in Keyboards \cup {None} /\ {} \in SUBSET Keyboards
  BY ZenonT(30), <1>1
<1>4. n \in Adapter
  BY ZenonT(30), <1>1, <1>2, <1>3 DEF Adapter
<1>5. /\ n.slot = map /\ n.active = k /\ n.owned = {} /\ n.fwd = {} /\ ~n.fatal /\ ~n.uncertain
      /\ ~n.reconciled /\ n.drain = "Running"
  BY ZenonT(30), <1>2
<1>6. Good(n)
  BY ZenonT(30), <1>1, <1>4, <1>5 DEF Good, Heard
<1>7. WorldOK
  BY ZenonT(30), <1>1 DEF WorldOK
<1>8. HoldsAccounted /\ DetachesClean
  BY ZenonT(30), <1>5 DEF HoldsAccounted, DetachesClean
<1> QED
  BY ZenonT(30), <1>6, <1>7, <1>8 DEF Ind

\* Every step keeps the invariant and forgives only afresh.
LEMMA NextKeeps ==
    ASSUME Ind, Next
    PROVE  Keeps
<1>0. Queue \subseteq BOOLEAN
  BY ZenonT(30) DEF Queue
<1>1. CASE Connect \/ Drop
  BY ZenonT(30), <1>1, ConnectionStep
<1>2. CASE \E queued \in Queue : Tick(queued)
  BY ZenonT(30), <1>0, <1>2, TickStep
<1>3. CASE \E k \in Keyboards, m \in Maps, held \in BOOLEAN, queued \in Queue : NewKeyboard(k, m, held, queued)
  BY ZenonT(30), <1>0, <1>3, NewKeyboardStep
<1>4. CASE \E k \in Keyboards, queued \in Queue : DestroyKeyboard(k, queued)
  BY ZenonT(30), <1>0, <1>4, DestroyKeyboardStep
<1>5. CASE \E m \in Maps, queued \in Queue : SetLayout(m, queued)
  BY ZenonT(30), <1>0, <1>5, SetLayoutStep
<1>6. CASE \E k \in Keyboards : SelectKeyboard(k)
  BY ZenonT(30), <1>6, SelectKeyboardStep
<1>7. CASE \E f, entered \in BOOLEAN, queued \in Queue : FocusChange(f, entered, queued)
  BY ZenonT(30), <1>0, <1>7, FocusChangeStep
<1>8. CASE \E hit, ours \in BOOLEAN : ResourceDestroyed(hit, ours)
  BY ZenonT(30), <1>8, ResourceDestroyedStep
<1>9. CASE \E k \in Keyboards, queued \in Queue, verdict \in Verdicts : KeyDown(k, verdict, queued)
  BY ZenonT(30), <1>0, <1>9, KeyDownStep
<1>10. CASE \E k \in Keyboards, queued \in Queue : KeyUp(k, queued)
  BY ZenonT(30), <1>0, <1>10, KeyUpStep
<1>11. CASE Drain \/ Status
  BY ZenonT(30), <1>11, DrainStep
<1> QED
  BY ZenonT(30), <1>1, <1>2, <1>3, <1>4, <1>5, <1>6, <1>7, <1>8, <1>9, <1>10, <1>11 DEF Next, Callback

\* Ind is an invariant: the adapter is good between callbacks.
LEMMA IndHolds == Spec => []Ind
<1>1. Init => Ind
  BY ZenonT(30), InitGood
<1>2. Ind /\ [Next]_vars => Ind'
  <2>1. CASE Next
    BY ZenonT(30), <2>1, NextKeeps DEF Keeps
  <2>2. CASE UNCHANGED vars
    BY ZenonT(30), <2>2 DEF vars, Ind, Good, Heard, WorldOK, HoldsAccounted, DetachesClean
  <2> QED
    BY <2>1, <2>2
<1> QED
  BY <1>1, <1>2, PTL DEF Spec

\* The router is fatal exactly while a recovery is pending, and the daemon is asked only on
\* a stream whose last control was the boundary, for any keyboards, keymaps, connections
\* and order of callbacks.
THEOREM AdmissionInductive == Spec => []AdmissionInv
<1>1. Ind => AdmissionInv
  <2> SUFFICES ASSUME Ind PROVE AdmissionInv
    OBVIOUS
  <2>1. TypeOK /\ BoundaryHeard
    BY ZenonT(30) DEF Ind, Good, WorldOK, TypeOK, BoundaryHeard, Heard
  <2>2. FatalIsPending
    BY ZenonT(30) DEF Ind, Good, FatalIsPending
  <2> QED
    BY <2>1, <2>2 DEF AdmissionInv
<1> QED
  BY <1>1, IndHolds, PTL

\* While the daemon is asked about keys every key that is down is in the ledger.
THEOREM HoldsOwned == Spec => []HoldsAccounted
<1>1. Ind => HoldsAccounted
  BY DEF Ind
<1> QED
  BY <1>1, IndHolds, PTL

\* A drain commits with nothing owned, shown as held or uncertain.
THEOREM DetachesSettled == Spec => []DetachesClean
<1>1. Ind => DetachesClean
  BY DEF Ind
<1> QED
  BY <1>1, IndHolds, PTL

\* tryOutputRecovery, wherever inputKey calls it, forgives an uncertain output only when
\* its affected routes are gone, a client was entered since and nothing is owned.
THEOREM ForgivesAfresh == Spec => ForgivenAfresh
<1>1. Ind /\ [Next]_vars => [Forgiven]_vars
  BY NextKeeps DEF Keeps
<1>2. Spec => [][Forgiven]_vars
  BY <1>1, IndHolds, PTL DEF Spec
<1> QED
  BY <1>2, PTL DEF ForgivenAfresh, Forgiven
=============================================================================
