---------------------------- MODULE SessionProofs ----------------------------
(***************************************************************************)
(* Proofs about Session, for every set of keyboards and keys and every     *)
(* bound on nonces, retirements and packets in flight: a proposal and its  *)
(* token live and die together, and a replacement proposed on a release    *)
(* completes an unbroken tap.                                              *)
(***************************************************************************)
EXTENDS Session, TLAPS

-----------------------------------------------------------------------------
(* The matching state that each method of MatcherTransactions leaves.      *)

M == Matching(MaxNonces + 1)

\* No proposal, no token and no tap in progress.
Quiesced(y) == y \in M /\ y.pending = None /\ y.token = None /\ y.tap = None

\* A press with an owner is known to be down.
Tracked(y) == \A p \in Press : y.owner[p] # "none" => p \in y.downs

\* The fields of a matching state.
LEMMA MatchingFields ==
  ASSUME NEW y \in M
  PROVE  /\ y.pending \in Proposal \cup {None} /\ y.downs \in SUBSET Press /\ y.seen \in Gens \cup {None}
         /\ y.disabled \in BOOLEAN /\ y.recovery \in Nonces /\ y.previous \in Nonces
         /\ y.owner \in [Press -> {"none", "swallowed", "forwarded"}]
         /\ y.token \in Press \cup {None} /\ y.tap \in Press \cup {None}
BY SMTT(30) DEF M, Matching, Nonces

\* invalidate_speculation.
LEMMA InvalidateQuiesces ==
  ASSUME NEW y \in M, NEW z, z = InvalidateSpeculation(y)
  PROVE  Quiesced(z) /\ z.owner = y.owner /\ z.downs = y.downs
<1> DEFINE d == y.disabled \/ y.pending # None
<1>1. z = [y EXCEPT !.disabled = d, !.pending = None, !.seen = None, !.token = None, !.tap = None]
  BY ZenonT(30) DEF InvalidateSpeculation
<1>2. d \in BOOLEAN
  BY ZenonT(30)
<1> HIDE DEF d
<1>3. z \in M
  BY ZenonT(30), <1>1, <1>2 DEF M, Matching
<1>4. z.pending = None /\ z.token = None /\ z.tap = None /\ z.owner = y.owner /\ z.downs = y.downs
  BY ZenonT(30), <1>1 DEF M, Matching
<1> QED
  BY ZenonT(30), <1>3, <1>4 DEF Quiesced

\* disconnected and await_reconciliation.
LEMMA SuspendQuiesces ==
  ASSUME NEW y \in M, NEW z, NEW nonce \in Nonces,
         z = Disconnected(y) \/ z = AwaitReconciliation(y, nonce)
  PROVE  Quiesced(z) /\ z.owner = y.owner /\ z.downs = y.downs
<1> DEFINE i == InvalidateSpeculation(y)
<1>1. Quiesced(i) /\ i.owner = y.owner /\ i.downs = y.downs
  BY ZenonT(30), InvalidateQuiesces
<1>2. 0 \in Nonces
  BY SessionAssumption DEF Nonces
<1>3. PICK r \in Nonces : z = [i EXCEPT !.disabled = TRUE, !.recovery = r]
  BY ZenonT(30), <1>2 DEF Disconnected, AwaitReconciliation
<1> HIDE DEF i
<1>4. z \in M
  BY ZenonT(30), <1>1, <1>3 DEF Quiesced, M, Matching, Nonces
<1>5. z.pending = i.pending /\ z.token = i.token /\ z.tap = i.tap /\ z.owner = i.owner /\ z.downs = i.downs
  BY ZenonT(30), <1>1, <1>3 DEF Quiesced, M, Matching
<1> QED
  BY ZenonT(30), <1>1, <1>4, <1>5 DEF Quiesced

\* The boundary's fresh matching state.
LEMMA NewQuiesces ==
  ASSUME NEW nonce \in Nonces
  PROVE  /\ Quiesced(NewMatching) /\ Quiesced(Reconciled(x, nonce))
         /\ Tracked(NewMatching) /\ Tracked(Reconciled(x, nonce))
<1>1. 0 \in Nonces
  BY SessionAssumption DEF Nonces
<1>2. NewMatching \in M
  BY ZenonT(30), <1>1 DEF M, Matching, NewMatching, Nonces
<1>3. \A p \in Press : NewMatching.owner[p] = "none"
  BY ZenonT(30) DEF NewMatching
<1>4. NewMatching.pending = None /\ NewMatching.token = None /\ NewMatching.tap = None
  BY ZenonT(30) DEF NewMatching
<1> DEFINE z == Reconciled(x, nonce)
<1>5. z \in M
  BY ZenonT(30), <1>2 DEF Reconciled, M, Matching, Nonces
<1>6. /\ z.pending = NewMatching.pending /\ z.token = NewMatching.token /\ z.tap = NewMatching.tap
      /\ z.owner = NewMatching.owner
  BY ZenonT(30), <1>2 DEF Reconciled, M, Matching
<1> QED
  BY ZenonT(30), <1>2, <1>3, <1>4, <1>5, <1>6 DEF Quiesced, Tracked

\* retire_device, after the invalidation that precedes it.
LEMMA RetireQuiesces ==
  ASSUME NEW y, Quiesced(y), NEW g \in Gens, NEW z, z = RetireDevice(y, g)
  PROVE  Quiesced(z) /\ (Tracked(y) => Tracked(z))
<1> DEFINE lost == {p \in Press : p[1] = g}
           o == [p \in Press |-> IF p \in lost THEN "none" ELSE y.owner[p]]
           ours == y.pending # None /\ y.pending.press[1] = g
           d == y.disabled \/ ours
           e == IF ours THEN None ELSE y.pending
           t == IF y.token \in lost THEN None ELSE y.token
           u == IF y.tap \in lost THEN None ELSE y.tap
<1>1. z = [y EXCEPT !.pending = e, !.disabled = d, !.downs = y.downs \ lost, !.owner = o, !.token = t, !.tap = u]
  BY ZenonT(30) DEF RetireDevice
<1>2. e = None /\ t = None /\ u = None /\ d \in BOOLEAN
  BY ZenonT(30) DEF Quiesced
<1>3. y.downs \ lost \in SUBSET Press /\ o \in [Press -> {"none", "swallowed", "forwarded"}]
  BY ZenonT(30), MatchingFields DEF Quiesced
<1>4. Tracked(y) => \A p \in Press : o[p] # "none" => p \in y.downs \ lost
  BY ZenonT(30) DEF Tracked
<1> HIDE DEF lost, o, d, e, t, u
<1>5. z \in M
  BY ZenonT(30), <1>1, <1>2, <1>3 DEF Quiesced, M, Matching
<1>6. z.pending = None /\ z.token = None /\ z.tap = None /\ z.owner = o /\ z.downs = y.downs \ lost
  BY ZenonT(30), <1>1, <1>2 DEF Quiesced, M, Matching
<1> QED
  BY ZenonT(30), <1>4, <1>5, <1>6 DEF Quiesced, Tracked

\* What a step that ends all speculation does to the matching state: nothing is
\* outstanding, and it knows at least as much of the keys that are down as it did.
Settled(y, z) == Quiesced(z) /\ (Tracked(y) => Tracked(z))

\* observe_lock_boundary, observe_unlocked_epoch and the lifecycle wait followed by the
\* invalidation.
LEMMA BoundaryQuiesces ==
  ASSUME NEW y \in M, NEW nonce \in Nonces
  PROVE  /\ Settled(y, InvalidateSpeculation(y)) /\ Settled(y, Disconnected(y))
         /\ Settled(y, AwaitReconciliation(y, nonce))
         /\ Settled(y, ObserveLockBoundary(y, nonce)) /\ Settled(y, ObserveUnlockedEpoch(y, nonce))
         /\ AwaitLifecycle(y, nonce) \in M /\ (Tracked(y) => Tracked(AwaitLifecycle(y, nonce)))
<1>1. \A z : Quiesced(z) /\ z.owner = y.owner /\ z.downs = y.downs => Settled(y, z)
  BY ZenonT(30) DEF Settled, Tracked
<1>2. Settled(y, InvalidateSpeculation(y))
  BY ZenonT(30), <1>1, InvalidateQuiesces
<1>3. Settled(y, Disconnected(y))
  BY ZenonT(30), <1>1, SuspendQuiesces
<1>4. Settled(y, AwaitReconciliation(y, nonce))
  BY ZenonT(30), <1>1, SuspendQuiesces
<1>5. Settled(y, ObserveLockBoundary(y, nonce))
  BY ZenonT(30), <1>2, <1>3 DEF ObserveLockBoundary
<1>6. Settled(y, ObserveUnlockedEpoch(y, nonce))
  BY ZenonT(30), <1>2, <1>5 DEF ObserveUnlockedEpoch
<1>7. AwaitLifecycle(y, nonce) = y \/ AwaitLifecycle(y, nonce) = AwaitReconciliation(y, nonce)
  BY ZenonT(30) DEF AwaitLifecycle
<1>8. AwaitLifecycle(y, nonce) \in M /\ (Tracked(y) => Tracked(AwaitLifecycle(y, nonce)))
  BY ZenonT(30), <1>4, <1>7 DEF Settled, Quiesced
<1> QED
  BY ZenonT(30), <1>2, <1>3, <1>4, <1>5, <1>6, <1>8

\* A packet that is a control.
IsControl(packet) ==
    /\ packet.op \in {"Lock", "Reset", "Retire"}
    /\ packet.op = "Lock" => packet.arg \in BOOLEAN
    /\ packet.op = "Retire" => packet.arg \in Gens

\* Handler::reset and Handler::unlocked_epoch: every control ends all speculation.
LEMMA ControlQuiesces ==
  ASSUME x \in M, b.nonce \in Nonces, NEW packet, IsControl(packet)
  PROVE  Settled(x, Controlled(packet))
<1> DEFINE noticed == IF packet.op = "Lock" /\ Installed THEN ObserveLockBoundary(x, b.nonce)
                      ELSE IF packet.op = "Reset" /\ packet.arg # 8 THEN AwaitLifecycle(x, b.nonce)
                      ELSE x
           i == InvalidateSpeculation(noticed)
<1>1. noticed \in M /\ (Tracked(x) => Tracked(noticed))
  BY ZenonT(30), BoundaryQuiesces DEF Settled, Quiesced
<1>2. \/ Controlled(packet) = ObserveUnlockedEpoch(x, b.nonce)
      \/ Controlled(packet) = Reconciled(noticed, b.nonce)
      \/ packet.op = "Retire" /\ Controlled(packet) = RetireDevice(i, packet.arg)
      \/ Controlled(packet) = i
  BY ZenonT(30) DEF Controlled
<1> HIDE DEF noticed
<1>3. Settled(x, i)
  <2>1. Settled(noticed, i)
    BY ZenonT(30), <1>1, BoundaryQuiesces
  <2> QED
    BY ZenonT(30), <1>1, <2>1 DEF Settled
<1> HIDE DEF i
<1>4. CASE Controlled(packet) = ObserveUnlockedEpoch(x, b.nonce)
  BY ZenonT(30), <1>4, BoundaryQuiesces
<1>5. CASE Controlled(packet) = Reconciled(noticed, b.nonce)
  BY ZenonT(30), <1>5, NewQuiesces DEF Settled, Reconciled
<1>6. CASE packet.op = "Retire" /\ Controlled(packet) = RetireDevice(i, packet.arg)
  BY ZenonT(30), <1>3, <1>6, RetireQuiesces DEF Settled, IsControl
<1> QED
  BY ZenonT(30), <1>2, <1>3, <1>4, <1>5, <1>6

-----------------------------------------------------------------------------
(* Proposals.                                                              *)

\* What dispatching a press does to the matching state.
DownDispatched(y, p, d) ==
    /\ d.x \in M /\ d.verdict \in Decisions
    /\ d.x.pending = y.pending /\ d.x.downs = y.downs /\ d.x.disabled = y.disabled
    /\ \A q \in Press : q # p => d.x.owner[q] = y.owner[q]
    /\ y.owner[p] = "none" => \/ d.x.tap = None
                              \/ d.x.tap = p /\ p[2] \in Modifiers
    /\ d.verdict = "Replace" => d.x.token = p /\ d.x.tap = None
    /\ d.verdict # "Replace" => d.x.token = y.token

\* dispatch_device_with_delivery for a press: only a new press can be replaced, which
\* ends every tap; the only tap it can leave is its own.
LEMMA DispatchDownFields ==
  ASSUME NEW y \in M, NEW p \in Press, NEW d \in DispatchDown(y, p)
  PROVE  DownDispatched(y, p, d)
<1> DEFINE t == IF p[2] \in Modifiers /\ y.tap \in {None, p} THEN p ELSE None
           seen == [y EXCEPT !.tap = t]
           o == [y.owner EXCEPT ![p] = "swallowed"]
           taken == [seen EXCEPT !.owner[p] = "swallowed", !.token = p]
<1>1. y.owner \in [Press -> {"none", "swallowed", "forwarded"}] /\ y.owner[p] \in {"none", "swallowed", "forwarded"}
  BY ZenonT(30), MatchingFields
<1>2. \/ d.x = y /\ d.verdict \in {"Pass", "Swallow"} /\ y.owner[p] # "none"
      \/ d.x = seen /\ d.verdict = "Pass"
      \/ d.x = taken /\ d.verdict = "Replace" /\ p[2] \notin Modifiers
  <2>1. \/ d = [x |-> y, verdict |-> "Pass"] /\ y.owner[p] # "none"
        \/ d = [x |-> y, verdict |-> "Swallow"] /\ y.owner[p] # "none"
        \/ d = [x |-> seen, verdict |-> "Pass"]
        \/ d = [x |-> taken, verdict |-> "Replace"] /\ p[2] \notin Modifiers
    BY SMTT(30), <1>1 DEF DispatchDown
  <2> HIDE DEF t, seen, taken
  <2>2. \A r, v : d = [x |-> r, verdict |-> v] => d.x = r /\ d.verdict = v
    BY SMTT(30)
  <2> QED
    BY ZenonT(30), <2>1, <2>2
<1>3. t \in Press \cup {None} /\ (t = None \/ (t = p /\ p[2] \in Modifiers))
  BY ZenonT(30)
<1>4. o \in [Press -> {"none", "swallowed", "forwarded"}] /\ \A q \in Press : q # p => o[q] = y.owner[q]
  BY ZenonT(30), <1>1
<1>5. p[2] \notin Modifiers => t = None
  BY ZenonT(30)
<1> HIDE DEF t
<1>6. seen \in M
  BY ZenonT(30), <1>3 DEF M, Matching
<1>7. /\ seen.pending = y.pending /\ seen.downs = y.downs /\ seen.disabled = y.disabled
      /\ seen.owner = y.owner /\ seen.tap = t /\ seen.token = y.token
  BY ZenonT(30) DEF M, Matching
<1> HIDE DEF seen
<1>8. taken = [seen EXCEPT !.owner = o, !.token = p]
  BY ZenonT(30), <1>7
<1> HIDE DEF o, taken
<1>9. taken \in M
  BY ZenonT(30), <1>4, <1>6, <1>8 DEF M, Matching
<1>10. /\ taken.pending = seen.pending /\ taken.downs = seen.downs /\ taken.disabled = seen.disabled
       /\ taken.owner = o /\ taken.tap = seen.tap /\ taken.token = p
  BY ZenonT(30), <1>6, <1>8 DEF M, Matching
<1>11. CASE d.x = y /\ d.verdict \in {"Pass", "Swallow"} /\ y.owner[p] # "none"
  BY ZenonT(30), <1>11 DEF Decisions, DownDispatched
<1>12. CASE d.x = seen /\ d.verdict = "Pass"
  BY ZenonT(30), <1>3, <1>6, <1>7, <1>12 DEF Decisions, DownDispatched
<1>13. CASE d.x = taken /\ d.verdict = "Replace" /\ p[2] \notin Modifiers
  BY ZenonT(30), <1>4, <1>5, <1>7, <1>9, <1>10, <1>13 DEF Decisions, DownDispatched
<1> QED
  BY ZenonT(30), <1>2, <1>11, <1>12, <1>13

\* What dispatching a release does to it.
UpDispatched(y, p, d) ==
    /\ d.x \in M /\ d.verdict \in Decisions
    /\ d.x.pending = y.pending /\ d.x.downs = y.downs /\ d.x.disabled = y.disabled
    /\ d.x.owner[p] = "none" /\ \A q \in Press : q # p => d.x.owner[q] = y.owner[q]
    /\ (y.tap = p => d.x.tap = None) /\ (y.tap # p => d.x.tap = y.tap)
    /\ d.verdict = "Replace" => d.x.token = p /\ y.tap = p
    /\ d.verdict # "Replace" => d.x.token = y.token

\* dispatch_device_with_delivery for a release: it frees the press, and only the release
\* of the tap in progress can be replaced.
LEMMA DispatchUpFields ==
  ASSUME NEW y \in M, NEW p \in Press, NEW d \in DispatchUp(y, p)
  PROVE  UpDispatched(y, p, d)
<1> DEFINE t == IF y.tap = p THEN None ELSE y.tap
           o == [y.owner EXCEPT ![p] = "none"]
           up == [y EXCEPT !.owner[p] = "none", !.tap = IF @ = p THEN None ELSE @]
           taken == [up EXCEPT !.token = p]
<1>1. /\ y.owner \in [Press -> {"none", "swallowed", "forwarded"}]
      /\ y.owner[p] \in {"none", "swallowed", "forwarded"} /\ y.tap \in Press \cup {None}
  BY ZenonT(30), MatchingFields
<1>2. \/ d.x = up /\ d.verdict \in {"Pass", "Swallow"}
      \/ d.x = taken /\ d.verdict = "Replace" /\ y.tap = p
  <2>1. \/ d = [x |-> up, verdict |-> "Pass"]
        \/ d = [x |-> up, verdict |-> "Swallow"]
        \/ d = [x |-> taken, verdict |-> "Replace"] /\ y.tap = p
    BY SMTT(30), <1>1 DEF DispatchUp
  <2> HIDE DEF t, up, taken
  <2>2. \A r, v : d = [x |-> r, verdict |-> v] => d.x = r /\ d.verdict = v
    BY SMTT(30)
  <2> QED
    BY ZenonT(30), <2>1, <2>2
<1>3. t \in Press \cup {None}
  BY ZenonT(30), <1>1
<1>4. /\ o \in [Press -> {"none", "swallowed", "forwarded"}] /\ o[p] = "none"
      /\ \A q \in Press : q # p => o[q] = y.owner[q]
  BY ZenonT(30), <1>1
<1>5. up = [y EXCEPT !.owner = o, !.tap = t]
  BY ZenonT(30)
<1> HIDE DEF t, o, up
<1>6. up \in M
  BY ZenonT(30), <1>3, <1>4, <1>5 DEF M, Matching
<1>7. /\ up.pending = y.pending /\ up.downs = y.downs /\ up.disabled = y.disabled
      /\ up.owner = o /\ up.tap = t /\ up.token = y.token
  BY ZenonT(30), <1>5 DEF M, Matching
<1>8. taken \in M
  BY ZenonT(30), <1>6 DEF M, Matching
<1>9. /\ taken.pending = up.pending /\ taken.downs = up.downs /\ taken.disabled = up.disabled
      /\ taken.owner = up.owner /\ taken.tap = up.tap /\ taken.token = p
  BY ZenonT(30), <1>6 DEF M, Matching
<1> HIDE DEF taken
<1>10. (y.tap = p => t = None) /\ (y.tap # p => t = y.tap)
  BY ZenonT(30) DEF t
<1>11. CASE d.x = up /\ d.verdict \in {"Pass", "Swallow"}
  BY ZenonT(30), <1>4, <1>6, <1>7, <1>10, <1>11 DEF Decisions, UpDispatched
<1>12. CASE d.x = taken /\ d.verdict = "Replace" /\ y.tap = p
  BY ZenonT(30), <1>4, <1>7, <1>8, <1>9, <1>10, <1>12 DEF Decisions, UpDispatched
<1> QED
  BY ZenonT(30), <1>2, <1>11, <1>12

\* What observing an event does to it.
ObservedAs(y, p, kind, o) ==
    /\ o \in M /\ o.pending = y.pending /\ o.token = y.token /\ o.owner = y.owner
    /\ o.disabled = y.disabled /\ o.tap \in {y.tap, None}
    /\ (kind = "Down" => o.downs = y.downs \cup {p}) /\ (kind = "Up" => o.downs = y.downs \ {p})

\* observe_physical.
LEMMA ObserveFields ==
  ASSUME NEW y \in M, NEW p \in Press, NEW kind \in {"Down", "Up"}, NEW o,
         o = ObservePhysical(y, p, kind)
  PROVE  ObservedAs(y, p, kind, o)
<1> DEFINE t == IF y.seen = p[1] THEN y.tap ELSE None
           g == p[1]
           e == IF kind = "Down" THEN y.downs \cup {p} ELSE y.downs \ {p}
<1>1. y.tap \in Press \cup {None} /\ y.downs \in SUBSET Press
  BY ZenonT(30), MatchingFields
<1>2. t \in Press \cup {None} /\ t \in {y.tap, None} /\ e \in SUBSET Press
  BY ZenonT(30), <1>1
<1>3. g \in Gens
  BY SMTT(30) DEF Press
<1>4. o = [y EXCEPT !.tap = t, !.seen = g, !.downs = e]
  BY ZenonT(30) DEF ObservePhysical
<1> HIDE DEF t, g
<1>5. o.downs = e /\ o.tap = t
  BY ZenonT(30), <1>4 DEF M, Matching
<1> HIDE DEF e
<1>6. o \in M
  BY ZenonT(30), <1>2, <1>3, <1>4 DEF M, Matching
<1>7. o.pending = y.pending /\ o.token = y.token /\ o.owner = y.owner /\ o.disabled = y.disabled
  BY ZenonT(30), <1>4 DEF M, Matching
<1>8. (kind = "Down" => e = y.downs \cup {p}) /\ (kind = "Up" => e = y.downs \ {p})
  BY ZenonT(30) DEF e
<1> QED
  BY ZenonT(30), <1>2, <1>5, <1>6, <1>7, <1>8 DEF ObservedAs

\* What holds of a matching state between two events, and in tap mode of its tap.
TapHeld(y) == Tracked(y) /\ (y.tap # None => y.downs = {y.tap} /\ ~y.disabled)

\* What a proposal for p's event makes of the matching state y.
Proposed(y, z, p, kind) ==
    /\ z \in M
    /\ z.pending = None => z.token = None
    /\ z.pending # None => /\ z.pending.press = p /\ z.pending.kind = kind
                           /\ z.token = p /\ z.tap = None /\ (kind = "Up" => y.tap = p)

\* And of its tap.
ProposedTap(y, z, p, kind) ==
    /\ TapHeld(z)
    /\ z.tap # None => IF kind = "Down" THEN z.tap = p ELSE p \notin y.downs /\ z.tap = y.tap

\* The matching state an event is dispatched in.
Observed(y, p, kind, tapRelease) == IF tapRelease THEN ObservePhysical(y, p, kind) ELSE y

\* A press beside other keys that are down.
Crowds(o, p, kind, tapRelease) == tapRelease /\ kind = "Down" /\ Crowded(o, p)

\* The record left by a proposal dispatched in o with outcome d.
Dispatched(o, p, kind, tapRelease, d, decision) ==
    LET alone == IF Crowds(o, p, kind, tapRelease)
                 THEN [d.x EXCEPT !.tap = None] ELSE d.x
    IN  IF d.verdict = "Replace"
        THEN [alone EXCEPT !.pending = [press |-> p, kind |-> kind, decision |-> decision]]
        ELSE alone

\* The fields of that record.
RecordedAs(o, p, kind, tapRelease, d, y, z) ==
    /\ z \in M /\ z.token = y.token /\ z.owner = y.owner /\ z.downs = y.downs
    /\ z.disabled = y.disabled
    /\ (Crowds(o, p, kind, tapRelease) => z.tap = None) /\ (~Crowds(o, p, kind, tapRelease) => z.tap = y.tap)
    /\ d.verdict = "Replace" => z.pending # None /\ z.pending.press = p /\ z.pending.kind = kind
    /\ d.verdict # "Replace" => z.pending = y.pending

\* The record a proposal leaves once its event is dispatched: the tap is dropped beside
\* other keys, and a replacement becomes the outstanding proposal.
LEMMA ProposalRecord ==
  ASSUME NEW o, NEW p \in Press, NEW kind \in {"Down", "Up"}, NEW tapRelease \in BOOLEAN,
         NEW d, NEW decision \in Decisions, NEW y \in M, y = d.x,
         NEW z, z = Dispatched(o, p, kind, tapRelease, d, decision)
  PROVE  RecordedAs(o, p, kind, tapRelease, d, y, z)
<1> DEFINE crowded == Crowds(o, p, kind, tapRelease)
           replaced == d.verdict = "Replace"
           alone == IF crowded THEN [y EXCEPT !.tap = None] ELSE y
           e == [press |-> p, kind |-> kind, decision |-> decision]
<1>1. alone \in M
  BY ZenonT(30) DEF M, Matching
<1>2. /\ alone.token = y.token /\ alone.owner = y.owner /\ alone.downs = y.downs
      /\ alone.disabled = y.disabled /\ alone.pending = y.pending
  BY ZenonT(30) DEF M, Matching
<1>3. (crowded => alone.tap = None) /\ (~crowded => alone.tap = y.tap)
  BY ZenonT(30) DEF M, Matching
<1>4. e \in Proposal /\ e.press = p /\ e.kind = kind /\ e # None
  BY SMTT(30), TransactionAssumption DEF Proposal
<1>5. z = IF replaced THEN [alone EXCEPT !.pending = e] ELSE alone
  BY ZenonT(30) DEF Dispatched
<1> HIDE DEF alone, e
<1>6. CASE replaced
  <2>1. z = [alone EXCEPT !.pending = e]
    BY ZenonT(30), <1>5, <1>6
  <2>2. z \in M
    BY ZenonT(30), <1>1, <1>4, <2>1 DEF M, Matching
  <2>3. /\ z.token = alone.token /\ z.owner = alone.owner /\ z.downs = alone.downs
        /\ z.disabled = alone.disabled /\ z.tap = alone.tap /\ z.pending = e
    BY ZenonT(30), <1>1, <2>1 DEF M, Matching
  <2> QED
    BY ZenonT(30), <1>2, <1>3, <1>4, <1>6, <2>2, <2>3 DEF RecordedAs
<1>7. CASE ~replaced
  BY ZenonT(30), <1>1, <1>2, <1>3, <1>5, <1>7 DEF RecordedAs
<1> QED
  BY ZenonT(30), <1>6, <1>7

\* The ways propose_with_source ends.
ProposeEnds(y, p, kind, tapRelease, o, r) ==
    \/ r.x = y /\ r.decision = "Pass" /\ y.disabled
    \/ r.x = o /\ r.decision = "Pass" /\ tapRelease /\ o.downs = y.downs /\ ~y.disabled
    \/ /\ r.decision \in Decisions /\ (tapRelease => o.downs # y.downs) /\ ~y.disabled
       /\ \E d : /\ r.x = Dispatched(o, p, kind, tapRelease, d, r.decision)
                 /\ kind = "Down" => d \in DispatchDown(o, p)
                 /\ kind = "Up" => d \in DispatchUp(o, p)

\* It ends in one of them.
LEMMA ProposeCases ==
  ASSUME NEW y \in M, NEW p \in Press, NEW kind \in {"Down", "Up"}, NEW tapRelease \in BOOLEAN,
         NEW sources \in BOOLEAN, NEW r \in Propose(y, p, kind, tapRelease, sources), y.pending = None
  PROVE  ProposeEnds(y, p, kind, tapRelease, Observed(y, p, kind, tapRelease), r)
<1> DEFINE o == Observed(y, p, kind, tapRelease)
           dispatched == IF kind = "Down" THEN DispatchDown(o, p) ELSE DispatchUp(o, p)
           Result(d, decision) == Dispatched(o, p, kind, tapRelease, d, decision)
           Decided(d) == {[x |-> Result(d, decision), decision |-> decision] :
                             decision \in DecisionFor(d.verdict, kind, sources)}
<1>1. \A z, v : r = [x |-> z, decision |-> v] => r.x = z /\ r.decision = v
  BY SMTT(30)
<1>2. r \in IF y.disabled THEN {[x |-> y, decision |-> "Pass"]}
            ELSE IF tapRelease /\ o.downs = y.downs THEN {[x |-> o, decision |-> "Pass"]}
            ELSE UNION {Decided(d) : d \in dispatched}
  BY ZenonT(30) DEF Propose, Observed, Dispatched, Crowds
<1>3. CASE y.disabled
  BY ZenonT(30), <1>1, <1>2, <1>3 DEF ProposeEnds
<1>4. CASE ~y.disabled /\ tapRelease /\ o.downs = y.downs
  BY ZenonT(30), <1>1, <1>2, <1>4 DEF ProposeEnds
<1>5. CASE ~y.disabled /\ ~(tapRelease /\ o.downs = y.downs)
  <2>1. PICK d \in dispatched : r \in Decided(d)
    BY ZenonT(30), <1>2, <1>5
  <2>2. PICK decision \in DecisionFor(d.verdict, kind, sources) :
            r = [x |-> Result(d, decision), decision |-> decision]
    BY ZenonT(30), <2>1
  <2>3. r.x = Result(d, decision) /\ r.decision = decision
    BY ZenonT(30), <1>1, <2>2
  <2>4. d.verdict \in Decisions
    <3>1. o \in M
      BY ZenonT(30), ObserveFields DEF Observed, ObservedAs
    <3> QED
      BY ZenonT(30), <2>1, <3>1, DispatchDownFields, DispatchUpFields DEF DownDispatched, UpDispatched
  <2>5. decision \in Decisions
    BY SMTT(30), <2>2, <2>4 DEF DecisionFor, Decisions
  <2>6. r.x = Result(d, r.decision)
    BY ZenonT(30), <2>3
  <2> QED
    BY ZenonT(30), <1>5, <2>1, <2>3, <2>5, <2>6 DEF ProposeEnds
<1> QED
  BY ZenonT(30), <1>3, <1>4, <1>5

\* propose_with_source: its proposal is for this event and this press, a replacement of a
\* release is of the tap in progress, and the only tap a press leaves is its own, with no
\* other key down.
LEMMA ProposeStep ==
  ASSUME NEW y \in M, NEW p \in Press, NEW kind \in {"Down", "Up"}, NEW tapRelease \in BOOLEAN,
         NEW sources \in BOOLEAN, NEW r \in Propose(y, p, kind, tapRelease, sources),
         y.pending = None, y.token = None
  PROVE  /\ r.decision \in Decisions /\ Proposed(y, r.x, p, kind)
         /\ tapRelease /\ TapHeld(y) => ProposedTap(y, r.x, p, kind)
<1> DEFINE o == Observed(y, p, kind, tapRelease)
<1>1. /\ o \in M /\ o.pending = None /\ o.token = None /\ o.owner = y.owner
      /\ o.disabled = y.disabled /\ o.tap \in {y.tap, None}
      /\ tapRelease /\ kind = "Down" => o.downs = y.downs \cup {p}
      /\ tapRelease /\ kind = "Up" => o.downs = y.downs \ {p}
  <2>1. CASE tapRelease
    <3>1. o = ObservePhysical(y, p, kind)
      BY ZenonT(30), <2>1 DEF Observed
    <3> HIDE DEF o
    <3>2. ObservedAs(y, p, kind, o)
      BY ZenonT(30), <3>1, ObserveFields
    <3> QED
      BY ZenonT(30), <3>2 DEF ObservedAs
  <2>2. CASE ~tapRelease
    BY ZenonT(30), <2>2 DEF Observed
  <2> QED
    BY ZenonT(30), <2>1, <2>2
<1>2. p # None /\ "Pass" \in Decisions
  BY ZenonT(30), TransactionAssumption DEF Decisions
<1> HIDE DEF o
<1>3. CASE r.x = y /\ r.decision = "Pass" /\ y.disabled
  BY ZenonT(30), <1>2, <1>3 DEF Proposed, ProposedTap, TapHeld
<1>4. CASE r.x = o /\ r.decision = "Pass" /\ tapRelease /\ o.downs = y.downs /\ ~y.disabled
  <2>1. Proposed(y, r.x, p, kind)
    BY ZenonT(30), <1>1, <1>4 DEF Proposed
  <2>2. ASSUME TapHeld(y)
        PROVE  ProposedTap(y, o, p, kind)
    <3>1. TapHeld(o)
      BY ZenonT(30), <1>1, <1>4, <2>2 DEF TapHeld, Tracked
    <3>2. ASSUME o.tap # None, kind = "Down"
          PROVE  o.tap = p
      BY ZenonT(30), <1>1, <1>4, <2>2, <3>2 DEF TapHeld
    <3>3. ASSUME o.tap # None, kind # "Down"
          PROVE  p \notin y.downs /\ o.tap = y.tap
      BY ZenonT(30), <1>1, <1>4, <3>3
    <3> QED
      BY ZenonT(30), <3>1, <3>2, <3>3 DEF ProposedTap
  <2> QED
    BY ZenonT(30), <1>2, <1>4, <2>1, <2>2
<1>5. CASE /\ r.decision \in Decisions /\ (tapRelease => o.downs # y.downs) /\ ~y.disabled
           /\ \E d : /\ r.x = Dispatched(o, p, kind, tapRelease, d, r.decision)
                     /\ kind = "Down" => d \in DispatchDown(o, p)
                     /\ kind = "Up" => d \in DispatchUp(o, p)
  <2> DEFINE z == r.x
             crowded == Crowds(o, p, kind, tapRelease)
  <2>1. PICK d : /\ z = Dispatched(o, p, kind, tapRelease, d, r.decision)
                 /\ kind = "Down" => d \in DispatchDown(o, p)
                 /\ kind = "Up" => d \in DispatchUp(o, p)
    BY ZenonT(30), <1>5
  <2>2. kind = "Down" => DownDispatched(o, p, d)
    BY ZenonT(30), <1>1, <2>1, DispatchDownFields
  <2>3. kind = "Up" => UpDispatched(o, p, d)
    BY ZenonT(30), <1>1, <2>1, DispatchUpFields
  <2>4. /\ d.x \in M /\ d.x.pending = None /\ d.x.downs = o.downs /\ d.x.disabled = o.disabled
        /\ \A q \in Press : q # p => d.x.owner[q] = o.owner[q]
        /\ d.verdict = "Replace" => d.x.token = p
        /\ d.verdict # "Replace" => d.x.token = None
    <3>1. CASE kind = "Down"
      BY ZenonT(30), <1>1, <2>2, <3>1 DEF DownDispatched
    <3>2. CASE kind = "Up"
      BY ZenonT(30), <1>1, <2>3, <3>2 DEF UpDispatched
    <3> QED
      BY ZenonT(30), <3>1, <3>2
  <2>5. kind = "Down" => /\ o.owner[p] = "none" => \/ d.x.tap = None
                                                   \/ d.x.tap = p /\ p[2] \in Modifiers
                         /\ d.verdict = "Replace" => d.x.tap = None
    BY ZenonT(30), <2>2 DEF DownDispatched
  <2>6. kind = "Up" => /\ d.x.owner[p] = "none"
                       /\ (o.tap = p => d.x.tap = None) /\ (o.tap # p => d.x.tap = o.tap)
                       /\ d.verdict = "Replace" => o.tap = p
    BY ZenonT(30), <2>3 DEF UpDispatched
  <2>7. /\ z \in M /\ z.token = d.x.token /\ z.owner = d.x.owner /\ z.downs = o.downs
        /\ z.disabled = o.disabled /\ (crowded => z.tap = None) /\ (~crowded => z.tap = d.x.tap)
        /\ d.verdict = "Replace" => z.pending # None /\ z.pending.press = p /\ z.pending.kind = kind
        /\ d.verdict # "Replace" => z.pending = None
    <3> DEFINE e == d.x
    <3>1. e \in M /\ e = d.x /\ r.decision \in Decisions
      BY ZenonT(30), <1>5, <2>4
    <3> HIDE DEF e, z
    <3>2. RecordedAs(o, p, kind, tapRelease, d, e, z)
      BY ZenonT(30), <2>1, <3>1, ProposalRecord
    <3> QED
      BY ZenonT(30), <2>4, <3>1, <3>2 DEF RecordedAs
  <2> HIDE DEF z
  <2>8. Proposed(y, z, p, kind)
    <3>1. CASE d.verdict = "Replace"
      BY ZenonT(30), <1>1, <1>2, <2>4, <2>5, <2>6, <2>7, <3>1 DEF Proposed
    <3>2. CASE d.verdict # "Replace"
      BY ZenonT(30), <2>4, <2>7, <3>2 DEF Proposed
    <3> QED
      BY ZenonT(30), <3>1, <3>2
  <2>9. TapHeld(y) => \A q \in Press : o.owner[q] # "none" => q \in y.downs
    BY ZenonT(30), <1>1 DEF TapHeld, Tracked
  <2>10. ASSUME tapRelease, TapHeld(y)
        PROVE  ProposedTap(y, z, p, kind)
    <3>1. CASE kind = "Down"
      <4>1. p \notin y.downs /\ o.downs = y.downs \cup {p}
        BY ZenonT(30), <1>1, <1>5, <2>10, <3>1
      <4>2. o.owner[p] = "none"
        BY ZenonT(30), <2>10, <2>9, <4>1
      <4>3. Tracked(z)
        BY ZenonT(30), <2>4, <2>7, <2>10, <2>9, <4>1 DEF Tracked
      <4>4. ASSUME z.tap # None
            PROVE  z.tap = p /\ z.downs = {p}
        <5>1. d.x.tap = p /\ p[2] \in Modifiers /\ ~crowded /\ z.tap = p
          BY ZenonT(30), <2>5, <2>7, <3>1, <4>2, <4>4
        <5>2. o.downs \ {p} = {}
          BY ZenonT(30), <2>10, <3>1, <5>1 DEF Crowds, Crowded
        <5> QED
          BY ZenonT(30), <2>7, <4>1, <5>1, <5>2
      <4> QED
        BY ZenonT(30), <1>1, <1>5, <2>7, <3>1, <4>3, <4>4 DEF ProposedTap, TapHeld
    <3>2. CASE kind = "Up"
      <4>1. p \in y.downs /\ o.downs = y.downs \ {p}
        BY ZenonT(30), <1>1, <1>5, <2>10, <3>2
      <4>2. Tracked(z)
        BY ZenonT(30), <2>4, <2>6, <2>7, <2>10, <2>9, <3>2, <4>1 DEF Tracked
      <4>3. o.tap \in {p, None}
        BY ZenonT(30), <1>1, <2>10, <4>1 DEF TapHeld
      <4>4. z.tap = None
        BY ZenonT(30), <2>6, <2>7, <3>2, <4>3
      <4> QED
        BY ZenonT(30), <4>2, <4>4 DEF ProposedTap, TapHeld
    <3> QED
      BY ZenonT(30), <3>1, <3>2
  <2> QED
    BY ZenonT(30), <1>5, <2>8, <2>10 DEF z
<1> QED
  <2>1. ProposeEnds(y, p, kind, tapRelease, o, r)
    BY ZenonT(30), ProposeCases DEF o
  <2> QED
    BY ZenonT(30), <1>3, <1>4, <1>5, <2>1 DEF ProposeEnds

-----------------------------------------------------------------------------
(* Deliveries.                                                             *)

\* on_delivery: the proposal and its token end together.
LEMMA OnDeliverySettles ==
  ASSUME NEW y \in M, NEW code, NEW z, z = OnDelivery(y, code), y.pending = None => y.token = None,
         y.pending # None => y.token \in Press
  PROVE  /\ z \in M /\ z.pending = None /\ z.token = None
         /\ z.tap = y.tap /\ z.downs = y.downs /\ (Tracked(y) => Tracked(z))
         /\ y.pending = None => z = y
<1>1. CASE y.pending = None
  BY ZenonT(30), <1>1 DEF OnDelivery
<1>2. CASE y.pending # None
  <2> DEFINE result == Delivered(y.pending.decision, code)
             o == IF result = "RejectedOriginalForwarded" /\ y.owner[y.token] = "swallowed"
                  THEN [y.owner EXCEPT ![y.token] = "forwarded"] ELSE y.owner
             w == ReportDelivery(y, result)
             d == w.disabled \/ result = "Uncertain"
  <2>1. y.owner \in [Press -> {"none", "swallowed", "forwarded"}]
    BY ZenonT(30), MatchingFields
  <2>2. o \in [Press -> {"none", "swallowed", "forwarded"}]
    BY ZenonT(30), <2>1
  <2>3. \A q \in Press : o[q] # "none" => y.owner[q] # "none"
    BY ZenonT(30), <1>2, <2>1
  <2>4. w = [y EXCEPT !.token = None, !.owner = o]
    BY ZenonT(30) DEF ReportDelivery
  <2>5. z = [w EXCEPT !.pending = None, !.disabled = d]
    BY ZenonT(30), <1>2 DEF OnDelivery
  <2>6. d \in BOOLEAN
    BY ZenonT(30)
  <2> HIDE DEF o, d, w
  <2>7. w \in M
    BY ZenonT(30), <2>2, <2>4 DEF M, Matching
  <2>8. w.token = None /\ w.owner = o /\ w.tap = y.tap /\ w.downs = y.downs
    BY ZenonT(30), <2>4 DEF M, Matching
  <2>9. z \in M
    BY ZenonT(30), <2>5, <2>6, <2>7 DEF M, Matching
  <2>10. z.pending = None /\ z.token = w.token /\ z.owner = w.owner /\ z.tap = w.tap /\ z.downs = w.downs
    BY ZenonT(30), <2>5, <2>7 DEF M, Matching
  <2> QED
    BY ZenonT(30), <1>2, <2>3, <2>8, <2>9, <2>10 DEF Tracked
<1> QED
  BY ZenonT(30), <1>1, <1>2

\* settle_device_event of a release, with no proposal outstanding.
LEMMA SettleReleases ==
  ASSUME NEW y \in M, NEW p \in Press, NEW code, NEW z, z = SettleDeviceEvent(y, p, "Up", code),
         y.pending = None, y.token = None
  PROVE  z \in M /\ z.pending = None /\ z.token = None
<1> DEFINE o == [y.owner EXCEPT ![p] = "none"]
           t == IF y.tap # None /\ y.tap[1] = p[1] THEN None ELSE y.tap
<1>1. y.owner \in [Press -> {"none", "swallowed", "forwarded"}] /\ y.tap \in Press \cup {None}
  BY ZenonT(30), MatchingFields
<1>2. o \in [Press -> {"none", "swallowed", "forwarded"}] /\ t \in Press \cup {None}
  BY ZenonT(30), <1>1
<1>3. \/ z = [y EXCEPT !.disabled = TRUE]
      \/ z = [y EXCEPT !.pending = None, !.owner = o, !.token = None, !.tap = t]
  BY SMTT(30) DEF SettleDeviceEvent
<1> HIDE DEF o, t
<1>4. CASE z = [y EXCEPT !.disabled = TRUE]
  BY ZenonT(30), <1>4 DEF M, Matching
<1>5. CASE z = [y EXCEPT !.pending = None, !.owner = o, !.token = None, !.tap = t]
  BY ZenonT(30), <1>2, <1>5 DEF M, Matching
<1> QED
  BY ZenonT(30), <1>3, <1>4, <1>5

-----------------------------------------------------------------------------
(* The invariant in two parts: the worker's and the plugin's.              *)

Healths == [connected : BOOLEAN, awaiting : BOOLEAN, locked : BOOLEAN, nonce : Nonces]
Bridges == [open : BOOLEAN, nonce : Nonces, awaiting : BOOLEAN, locked : BOOLEAN, retired : SUBSET Gens]

\* The worker's variables keep their types.
DaemonTypeOK ==
    /\ mode \in {"research", "installed", "tap"}
    /\ x \in M /\ health \in Healths /\ gap \in BOOLEAN /\ b \in Bridges
    /\ pc \in {"accept", "step", "outcome", "check", "stopped"}
    /\ cur \in [event : KeyEvents, decision : Decisions] \cup {None}
    /\ missed \subseteq Press /\ tapped \in Press \cup {None}

\* What SessionInv says of the worker's variables.
DaemonInv == DaemonTypeOK /\ PendingIsToken /\ TapUnbroken /\ ProposalAgrees /\ TapAgrees

\* And its types of all of them but the matching state.
WorkerTypes ==
    /\ health \in Healths /\ gap \in BOOLEAN /\ b \in Bridges
    /\ pc \in {"accept", "step", "outcome", "check", "stopped"}
    /\ cur \in [event : KeyEvents, decision : Decisions] \cup {None}
    /\ missed \subseteq Press /\ tapped \in Press \cup {None}

\* A step after which nothing is outstanding keeps the worker's part.
LEMMA QuietDaemon ==
  ASSUME DaemonInv, mode' = mode, WorkerTypes', Quiesced(x'),
         TapRelease /\ Tracked(x) => Tracked(x'), cur' # None <=> pc' = "outcome"
  PROVE  DaemonInv'
<1>1. DaemonTypeOK'
  BY ZenonT(30) DEF DaemonInv, DaemonTypeOK, WorkerTypes, Quiesced
<1>2. PendingIsToken' /\ TapUnbroken' /\ ProposalAgrees'
  BY ZenonT(30) DEF PendingIsToken, TapUnbroken, ProposalAgrees, Quiesced
<1>3. TapAgrees'
  BY ZenonT(30) DEF DaemonInv, TapAgrees, TapRelease, Tracked, Quiesced
<1> QED
  BY ZenonT(30), <1>1, <1>2, <1>3 DEF DaemonInv

\* Nothing is outstanding unless the worker waits for an outcome.
LEMMA IdleWorker ==
  ASSUME DaemonInv, pc # "outcome"
  PROVE  x.pending = None /\ x.token = None /\ cur = None
BY ZenonT(30) DEF DaemonInv, PendingIsToken, ProposalAgrees

\* The bridge and the published health, field by field.
LEMMA BridgeFields ==
  ASSUME DaemonInv
  PROVE  /\ b.open \in BOOLEAN /\ b.nonce \in Nonces /\ b.awaiting \in BOOLEAN /\ b.locked \in BOOLEAN
         /\ b.retired \in SUBSET Gens
         /\ Health(b) \in Healths /\ Invalidate(health) \in Healths /\ Invalidate(Health(b)) \in Healths
         /\ [health EXCEPT !.awaiting = TRUE] \in Healths
         /\ [b EXCEPT !.open = FALSE] \in Bridges /\ [b EXCEPT !.open = FALSE, !.awaiting = TRUE] \in Bridges
<1>1. /\ b.open \in BOOLEAN /\ b.nonce \in Nonces /\ b.awaiting \in BOOLEAN /\ b.locked \in BOOLEAN
      /\ b.retired \in SUBSET Gens
  BY ZenonT(30) DEF DaemonInv, DaemonTypeOK, Bridges
<1>2. Health(b) \in Healths
  BY ZenonT(30), <1>1 DEF Health, Healths
<1>3. \A h \in Healths : Invalidate(h) \in Healths
  BY ZenonT(30) DEF Invalidate, Healths
<1>4. [health EXCEPT !.awaiting = TRUE] \in Healths
  BY ZenonT(30) DEF DaemonInv, DaemonTypeOK, Healths
<1>5. [b EXCEPT !.open = FALSE] \in Bridges /\ [b EXCEPT !.open = FALSE, !.awaiting = TRUE] \in Bridges
  BY ZenonT(30) DEF DaemonInv, DaemonTypeOK, Bridges
<1>6. health \in Healths
  BY ZenonT(30) DEF DaemonInv, DaemonTypeOK
<1> QED
  BY ZenonT(30), <1>1, <1>2, <1>3, <1>4, <1>5, <1>6

\* transport.take and Handler::disconnected, whatever the failed step made of the matching
\* state first.
LEMMA FailStep ==
  ASSUME DaemonInv, NEW y \in M, TapRelease /\ Tracked(x) => Tracked(y), Fail(y),
         UNCHANGED <<mode, gap, n, missed>>
  PROVE  DaemonInv'
<1>1. 0 \in Nonces
  BY SessionAssumption DEF Nonces
<1>2. Settled(y, x')
  BY ZenonT(30), <1>1, BoundaryQuiesces DEF Fail
<1>3. WorkerTypes'
  <2>1. health' \in Healths /\ b' \in Bridges
    BY ZenonT(30), BridgeFields DEF Fail
  <2>2. pc' \in {"check", "accept"} /\ cur' = None /\ tapped' = None /\ gap' = gap /\ missed' = missed
    BY ZenonT(30) DEF Fail, AfterError
  <2> QED
    BY ZenonT(30), <2>1, <2>2 DEF WorkerTypes, DaemonInv, DaemonTypeOK
<1>4. cur' = None /\ pc' # "outcome"
  BY ZenonT(30) DEF Fail, AfterError
<1> QED
  BY ZenonT(30), <1>2, <1>3, <1>4, QuietDaemon DEF Settled

\* reconnect and bind_matcher.
LEMMA AcceptStep ==
  ASSUME DaemonInv, Accept
  PROVE  DaemonInv'
<1> DEFINE k == b.nonce + 1
<1>1. b.nonce \in Nonces /\ b.nonce <= MaxNonces
  BY ZenonT(30), BridgeFields DEF Accept
<1>2. k \in Nonces
  BY SMTT(30), <1>1, SessionAssumption DEF Nonces
<1>3. b' = [b EXCEPT !.open = TRUE, !.nonce = k, !.awaiting = TRUE]
  BY ZenonT(30) DEF Accept
<1> HIDE DEF k
<1>4. b' \in Bridges /\ b'.nonce = k
  BY ZenonT(30), <1>2, <1>3 DEF DaemonInv, DaemonTypeOK, Bridges
<1>5. Settled(x, x')
  <2>1. x' = AwaitReconciliation(x, b'.nonce) /\ x \in M
    BY ZenonT(30) DEF Accept, DaemonInv, DaemonTypeOK
  <2> QED
    BY ZenonT(30), <1>2, <1>4, <2>1, BoundaryQuiesces
<1>6. health' \in Healths
  <2>1. health' = Health(b') \/ health' = health
    BY ZenonT(30) DEF Accept
  <2>2. b'.open \in BOOLEAN /\ b'.nonce \in Nonces /\ b'.awaiting \in BOOLEAN /\ b'.locked \in BOOLEAN
    BY ZenonT(30), <1>4 DEF Bridges
  <2>3. Health(b') \in Healths
    BY ZenonT(30), <2>2 DEF Health, Healths
  <2> QED
    BY ZenonT(30), <2>1, <2>3 DEF DaemonInv, DaemonTypeOK
<1>7. /\ pc = "accept" /\ pc' = "step" /\ cur' = cur /\ tapped' = None /\ gap' = gap /\ missed' = missed
      /\ mode' = mode
  BY ZenonT(30) DEF Accept
<1>8. cur' = None
  BY ZenonT(30), <1>7, IdleWorker
<1>9. WorkerTypes'
  BY ZenonT(30), <1>4, <1>6, <1>7, <1>8 DEF WorkerTypes, DaemonInv, DaemonTypeOK
<1> QED
  BY ZenonT(30), <1>5, <1>7, <1>8, <1>9, QuietDaemon DEF Settled

\* The daemon's thread ends, and a reload between two steps of it.
LEMMA HistoryFullStep ==
  ASSUME DaemonInv, HistoryFull
  PROVE  DaemonInv'
<1>1. /\ pc = "accept" /\ pc' = "stopped" /\ health' = health /\ gap' = gap /\ b' = b /\ cur' = cur
      /\ missed' = missed /\ tapped' = tapped /\ mode' = mode
      /\ x' = Disconnected(x) \/ (x' = x /\ ~Installed)
  BY ZenonT(30) DEF HistoryFull
<1>2. x.pending = None /\ x.token = None /\ cur = None
  BY ZenonT(30), <1>1, IdleWorker
<1>3. WorkerTypes'
  BY ZenonT(30), <1>1 DEF WorkerTypes, DaemonInv, DaemonTypeOK
<1>4. CASE x' = Disconnected(x)
  <2>1. x \in M /\ 0 \in Nonces
    BY SessionAssumption DEF Nonces, DaemonInv, DaemonTypeOK
  <2>2. Settled(x, x')
    BY ZenonT(30), <1>4, <2>1, BoundaryQuiesces
  <2> QED
    BY ZenonT(30), <1>1, <1>2, <1>3, <2>2, QuietDaemon DEF Settled
<1>5. CASE x' = x /\ ~Installed
  <2>1. ~TapRelease'
    BY ZenonT(30), <1>1, <1>5 DEF Installed, TapRelease
  <2>2. DaemonTypeOK'
    BY ZenonT(30), <1>1, <1>3, <1>5 DEF DaemonInv, DaemonTypeOK, WorkerTypes
  <2>3. PendingIsToken' /\ TapUnbroken' /\ ProposalAgrees'
    BY ZenonT(30), <1>1, <1>2, <1>5 DEF PendingIsToken, TapUnbroken, ProposalAgrees
  <2> QED
    BY ZenonT(30), <2>1, <2>2, <2>3 DEF DaemonInv, TapAgrees
<1> QED
  BY ZenonT(30), <1>1, <1>4, <1>5

\* publish on the reload thread.
LEMMA ReloadStep ==
  ASSUME DaemonInv, Reload
  PROVE  DaemonInv'
<1>1. /\ x' = InvalidateSpeculation(x) /\ pc' = pc /\ health' = health /\ gap' = gap /\ b' = b /\ cur' = cur
      /\ missed' = missed /\ tapped' = None /\ mode' = mode
  BY ZenonT(30) DEF Reload
<1>2. x \in M /\ 0 \in Nonces
  BY SessionAssumption DEF Nonces, DaemonInv, DaemonTypeOK
<1>3. Settled(x, x')
  BY ZenonT(30), <1>1, <1>2, BoundaryQuiesces
<1>4. WorkerTypes'
  BY ZenonT(30), <1>1 DEF WorkerTypes, DaemonInv, DaemonTypeOK
<1>5. cur' # None <=> pc' = "outcome"
  BY ZenonT(30), <1>1 DEF DaemonInv, ProposalAgrees
<1> QED
  BY ZenonT(30), <1>1, <1>3, <1>4, <1>5, QuietDaemon DEF Settled

\* A packet the bridge accepts and that is no event is a control.
LEMMA ControlPacket ==
  ASSUME NEW packet \in Packets, packet.op # "Event", ~Refused(packet)
  PROVE  IsControl(packet)
<1>1. packet.op # "Outcome"
  BY ZenonT(30) DEF Refused
<1> QED
  BY ZenonT(30), <1>1 DEF Packets, IsControl

\* Every control the bridge accepts.
LEMMA ControlStep ==
  ASSUME DaemonInv, Control, wire \in Seq(Packets)
  PROVE  DaemonInv'
<1> DEFINE packet == Head(wire)
<1>1. /\ pc = "step" /\ packet.op # "Event" /\ ~Refused(packet) /\ b' = BridgeAfter(packet)
      /\ x' = Controlled(packet) /\ health' = HealthAfter(packet)
      /\ missed' \in {{}, missed} /\ pc' = AfterStep /\ tapped' = None
      /\ mode' = mode /\ gap' = gap /\ cur' = cur
  BY ZenonT(30) DEF Control
<1>2. packet \in Packets
  BY SMTT(30) DEF Control
<1> HIDE DEF packet
<1>3. IsControl(packet)
  BY ZenonT(30), <1>1, <1>2, ControlPacket
<1>4. x \in M /\ b.nonce \in Nonces /\ b \in Bridges /\ b.retired \in SUBSET Gens
  BY ZenonT(30), BridgeFields DEF DaemonInv, DaemonTypeOK
<1>5. Settled(x, x')
  BY ZenonT(30), <1>1, <1>3, <1>4, ControlQuiesces
<1>6. b' \in Bridges
  <2>1. CASE packet.op = "Lock"
    <3>1. b' = [b EXCEPT !.locked = packet.arg]
      BY SMTT(30), <1>1, <2>1 DEF BridgeAfter
    <3> QED
      BY ZenonT(30), <1>3, <1>4, <2>1, <3>1 DEF Bridges, IsControl
  <2>2. CASE packet.op = "Retire"
    <3> DEFINE s == b.retired \cup {packet.arg}
    <3>1. b' = [b EXCEPT !.retired = s]
      BY SMTT(30), <1>1, <2>2 DEF BridgeAfter
    <3>2. s \in SUBSET Gens
      BY ZenonT(30), <1>3, <1>4, <2>2 DEF IsControl
    <3> HIDE DEF s
    <3> QED
      BY ZenonT(30), <1>4, <3>1, <3>2 DEF Bridges
  <2>3. CASE packet.op = "Reset"
    <3>1. PICK a \in BOOLEAN : a = (packet.arg # 8)
      BY ZenonT(30)
    <3>2. b' = [b EXCEPT !.awaiting = packet.arg # 8]
      BY SMTT(30), <1>1, <2>3 DEF BridgeAfter
    <3>3. b' = [b EXCEPT !.awaiting = a]
      BY ZenonT(30), <3>1, <3>2
    <3> QED
      BY ZenonT(30), <1>4, <3>3 DEF Bridges
  <2> QED
    BY ZenonT(30), <1>3, <2>1, <2>2, <2>3 DEF IsControl
<1>7. health' \in Healths
  BY ZenonT(30), <1>1, BridgeFields DEF HealthAfter, DaemonInv, DaemonTypeOK
<1>8. cur = None /\ pc' \in {"check", "step"}
  BY ZenonT(30), <1>1, IdleWorker DEF AfterStep
<1>9. WorkerTypes'
  BY ZenonT(30), <1>1, <1>6, <1>7, <1>8 DEF WorkerTypes, DaemonInv, DaemonTypeOK
<1> QED
  BY ZenonT(30), <1>1, <1>5, <1>8, <1>9, QuietDaemon DEF Settled

\* What an outcome makes of the matching state; in tap mode it keeps what is known of the
\* keys that are down.
DeliveredAs(z) ==
    /\ z \in M /\ z.pending = None /\ z.token = None
    /\ TapRelease => /\ z.tap = x.tap /\ z.downs = x.downs /\ (Tracked(x) => Tracked(z))
                     /\ x.pending = None => z = x

\* Handler::delivery.
LEMMA DeliverySettles ==
  ASSUME DaemonInv, pc = "outcome", NEW code
  PROVE  DeliveredAs(DeliveryTo(code))
<1> DEFINE z == DeliveryTo(code)
<1>1. x \in M /\ cur \in [event : KeyEvents, decision : Decisions]
  BY ZenonT(30) DEF DaemonInv, DaemonTypeOK, ProposalAgrees
<1>2. cur.event \in KeyEvents
  BY ZenonT(30), <1>1
<1>3. cur.event.press \in Press /\ cur.event.kind \in {"Down", "Up"}
  BY ZenonT(30), <1>2 DEF KeyEvents
<1>4. (x.pending = None => x.token = None) /\ (x.pending # None => x.token \in Press)
  BY ZenonT(30), <1>3 DEF DaemonInv, PendingIsToken
<1>5. CASE cur.event.kind = "Down" \/ TapRelease
  <2>1. z = OnDelivery(x, code)
    BY ZenonT(30), <1>5 DEF DeliveryTo
  <2> HIDE DEF z
  <2>2. /\ z \in M /\ z.pending = None /\ z.token = None
        /\ z.tap = x.tap /\ z.downs = x.downs /\ (Tracked(x) => Tracked(z))
        /\ x.pending = None => z = x
    BY ZenonT(30), <1>1, <1>4, <2>1, OnDeliverySettles
  <2>3. DeliveredAs(z)
    BY ZenonT(30), <2>2 DEF DeliveredAs
  <2> QED
    BY ZenonT(30), <2>3 DEF z
<1>6. CASE cur.event.kind = "Up" /\ ~TapRelease
  <2>1. z = SettleDeviceEvent(x, cur.event.press, "Up", code)
    BY ZenonT(30), <1>6 DEF DeliveryTo
  <2>2. x.pending = None /\ x.token = None
    BY ZenonT(30), <1>4, <1>6 DEF DaemonInv, ProposalAgrees
  <2> HIDE DEF z
  <2>3. z \in M /\ z.pending = None /\ z.token = None
    BY ZenonT(30), <1>1, <1>3, <2>1, <2>2, SettleReleases
  <2>4. DeliveredAs(z)
    BY ZenonT(30), <1>6, <2>3 DEF DeliveredAs
  <2> QED
    BY ZenonT(30), <2>4 DEF z
<1> QED
  BY ZenonT(30), <1>3, <1>5, <1>6

\* event_traced with an outcome that answers the event.
LEMMA OutcomeStep ==
  ASSUME DaemonInv, Outcome
  PROVE  DaemonInv'
<1>1. /\ pc = "outcome" /\ x' = DeliveryTo(Head(wire).arg) /\ pc' = AfterStep /\ cur' = None
      /\ tapped' = (IF x.pending # None THEN None ELSE tapped)
      /\ mode' = mode /\ health' = health /\ gap' = gap /\ b' = b /\ missed' = missed
  BY ZenonT(30) DEF Outcome
<1>2. DeliveredAs(x')
  BY ZenonT(30), <1>1, DeliverySettles
<1>3. pc' \in {"check", "step"}
  BY ZenonT(30), <1>1 DEF AfterStep
<1>4. DaemonTypeOK'
  BY ZenonT(30), <1>1, <1>2, <1>3 DEF DaemonInv, DaemonTypeOK, DeliveredAs
<1>5. PendingIsToken' /\ TapUnbroken' /\ ProposalAgrees'
  BY ZenonT(30), <1>1, <1>2, <1>3 DEF PendingIsToken, TapUnbroken, ProposalAgrees, DeliveredAs
<1>6. TapAgrees'
  <2> SUFFICES ASSUME TapRelease
               PROVE  /\ Tracked(x')
                      /\ x'.tap # None => /\ x'.downs = {x'.tap}
                                          /\ x'.pending = None /\ ~x'.disabled /\ ~b.awaiting /\ ~b.locked
                                          /\ gap \/ tapped' = x'.tap
    BY ZenonT(30), <1>1 DEF TapAgrees, TapRelease, Tracked
  <2>1. Tracked(x')
    BY ZenonT(30), <1>2 DEF DaemonInv, TapAgrees, DeliveredAs, Tracked
  <2>2. ASSUME x'.tap # None
        PROVE  x' = x /\ x.tap # None /\ tapped' = tapped
    BY ZenonT(30), <1>1, <1>2, <2>2 DEF DaemonInv, TapAgrees, DeliveredAs
  <2> QED
    BY ZenonT(30), <2>1, <2>2 DEF DaemonInv, TapAgrees
<1> QED
  BY ZenonT(30), <1>4, <1>5, <1>6 DEF DaemonInv

\* No outcome in time, or one that does not settle the event.
LEMMA UncertainStep ==
  ASSUME DaemonInv, Uncertain
  PROVE  DaemonInv'
<1>1. PICK code : Fail(DeliveryTo(code))
  BY ZenonT(30) DEF Uncertain
<1>2. pc = "outcome" /\ UNCHANGED <<mode, gap, n, missed>>
  BY ZenonT(30) DEF Uncertain
<1>3. DeliveredAs(DeliveryTo(code))
  BY ZenonT(30), <1>2, DeliverySettles
<1>4. DeliveryTo(code) \in M /\ (TapRelease /\ Tracked(x) => Tracked(DeliveryTo(code)))
  BY ZenonT(30), <1>3 DEF DeliveredAs
<1> QED
  BY ZenonT(30), <1>1, <1>2, <1>4, FailStep

\* A refused or stale packet, or a closed socket.
LEMMA StepFailsStep ==
  ASSUME DaemonInv, StepFails
  PROVE  DaemonInv'
<1>1. x \in M /\ Fail(x) /\ UNCHANGED <<mode, gap, n, missed>>
  BY ZenonT(30) DEF StepFails, DaemonInv, DaemonTypeOK
<1> QED
  BY ZenonT(30), <1>1, FailStep

\* run_session between two steps.
LEMMA CheckStep ==
  ASSUME DaemonInv, Check
  PROVE  DaemonInv'
<1>1. /\ pc = "check" /\ mode' = mode /\ gap' = gap /\ cur' = cur /\ missed' = missed
  BY ZenonT(30) DEF Check
<1>2. x.pending = None /\ x.token = None /\ cur = None
  BY ZenonT(30), <1>1, IdleWorker
<1>3. CASE ~b.open \/ NeedsReconciliation(x)
  <2>1. /\ b' = [b EXCEPT !.open = FALSE, !.awaiting = TRUE] /\ x' = Disconnected(x)
        /\ health' = Invalidate(Health(b)) /\ pc' = "accept" /\ tapped' = None
    BY ZenonT(30), <1>3 DEF Check
  <2>2. x \in M /\ 0 \in Nonces
    BY SessionAssumption DEF Nonces, DaemonInv, DaemonTypeOK
  <2>3. Settled(x, x')
    BY ZenonT(30), <2>1, <2>2, BoundaryQuiesces
  <2>4. b' \in Bridges /\ health' \in Healths
    BY ZenonT(30), <2>1, BridgeFields
  <2>5. WorkerTypes'
    BY ZenonT(30), <1>1, <2>1, <2>4 DEF WorkerTypes, DaemonInv, DaemonTypeOK
  <2> QED
    BY ZenonT(30), <1>1, <1>2, <2>1, <2>3, <2>5, QuietDaemon DEF Settled
<1>4. CASE ~(~b.open \/ NeedsReconciliation(x))
  <2>1. health' = Health(b) /\ pc' = "step" /\ b' = b /\ x' = x /\ tapped' = tapped
    BY ZenonT(30), <1>4 DEF Check
  <2>2. DaemonTypeOK'
    BY ZenonT(30), <1>1, <2>1, BridgeFields DEF DaemonInv, DaemonTypeOK
  <2>3. PendingIsToken' /\ TapUnbroken' /\ ProposalAgrees'
    BY ZenonT(30), <1>1, <1>2, <2>1 DEF PendingIsToken, TapUnbroken, ProposalAgrees
  <2>4. TapAgrees'
    BY ZenonT(30), <1>1, <2>1 DEF DaemonInv, TapAgrees, TapRelease
  <2> QED
    BY ZenonT(30), <2>2, <2>3, <2>4 DEF DaemonInv
<1> QED
  BY ZenonT(30), <1>3, <1>4

\* The matching state a proposal starts from, after the events the handler missed.
Fresh == IF gap THEN InvalidateSpeculation(x) ELSE x

\* It is the matching state with its tap only if nothing was missed.
LEMMA FreshHeld ==
  ASSUME DaemonInv, pc = "step"
  PROVE  /\ Fresh \in M /\ Fresh.pending = None /\ Fresh.token = None /\ Fresh.downs = x.downs
         /\ Fresh.tap # None => ~gap /\ Fresh.tap = x.tap
         /\ TapRelease => TapHeld(Fresh)
<1>1. x.pending = None /\ x.token = None /\ x \in M
  BY ZenonT(30), IdleWorker DEF DaemonInv, DaemonTypeOK
<1>2. CASE gap
  <2>1. Quiesced(Fresh) /\ Fresh.owner = x.owner /\ Fresh.downs = x.downs
    BY ZenonT(30), <1>1, <1>2, InvalidateQuiesces DEF Fresh
  <2>2. TapRelease => TapHeld(Fresh)
    BY ZenonT(30), <2>1 DEF TapHeld, Tracked, Quiesced, DaemonInv, TapAgrees
  <2> QED
    BY ZenonT(30), <1>2, <2>1, <2>2 DEF Quiesced
<1>3. CASE ~gap
  <2>1. Fresh = x
    BY ZenonT(30), <1>3 DEF Fresh
  <2>2. TapRelease => TapHeld(Fresh)
    BY ZenonT(30), <2>1 DEF TapHeld, Tracked, DaemonInv, TapAgrees
  <2> QED
    BY ZenonT(30), <1>1, <1>3, <2>1, <2>2
<1> QED
  BY ZenonT(30), <1>2, <1>3

\* Handler::propose: the matching state is untouched, or a proposal was made.
LEMMA ProposalsMade ==
  ASSUME DaemonInv, pc = "step", NEW event \in KeyEvents, NEW r \in Proposals(event)
  PROVE  /\ r.decision \in Decisions /\ r.gap \in BOOLEAN
         /\ \/ r.x = x /\ ~Proposing(event) /\ r.gap = gap
            \/ r.x = x /\ Proposing(event) /\ r.gap
            \/ /\ Proposing(event) /\ ~r.gap /\ Proposed(Fresh, r.x, event.press, event.kind)
               /\ TapRelease => ProposedTap(Fresh, r.x, event.press, event.kind)
<1>1. \A y, d, g : r = [x |-> y, decision |-> d, gap |-> g] => r.x = y /\ r.decision = d /\ r.gap = g
  BY SMTT(30)
<1>2. "Pass" \in Decisions /\ gap \in BOOLEAN
  BY ZenonT(30) DEF Decisions, DaemonInv, DaemonTypeOK
<1>3. CASE ~Proposing(event)
  <2>1. r = [x |-> x, decision |-> "Pass", gap |-> gap]
    BY ZenonT(30), <1>3 DEF Proposals
  <2> QED
    BY ZenonT(30), <1>1, <1>2, <1>3, <2>1
<1>4. CASE Proposing(event)
  <2>1. \/ r = [x |-> x, decision |-> "Pass", gap |-> TRUE]
        \/ \E q \in Propose(Fresh, event.press, event.kind, TapRelease, ~Installed) :
              r = [x |-> q.x, decision |-> q.decision, gap |-> FALSE]
    BY ZenonT(30), <1>4 DEF Proposals, Fresh
  <2>2. CASE r = [x |-> x, decision |-> "Pass", gap |-> TRUE]
    BY ZenonT(30), <1>1, <1>2, <1>4, <2>2
  <2>3. ASSUME NEW q \in Propose(Fresh, event.press, event.kind, TapRelease, ~Installed),
               r = [x |-> q.x, decision |-> q.decision, gap |-> FALSE]
        PROVE  /\ r.decision \in Decisions /\ r.gap = FALSE
               /\ Proposed(Fresh, r.x, event.press, event.kind)
               /\ TapRelease => ProposedTap(Fresh, r.x, event.press, event.kind)
    <3>1. event.press \in Press /\ event.kind \in {"Down", "Up"}
      BY ZenonT(30) DEF KeyEvents
    <3>2. TapRelease \in BOOLEAN /\ (~Installed) \in BOOLEAN
      BY ZenonT(30) DEF TapRelease, Installed
    <3>3. Fresh \in M /\ Fresh.pending = None /\ Fresh.token = None /\ (TapRelease => TapHeld(Fresh))
      BY ZenonT(30), FreshHeld
    <3>4. /\ q.decision \in Decisions /\ Proposed(Fresh, q.x, event.press, event.kind)
          /\ TapRelease /\ TapHeld(Fresh) => ProposedTap(Fresh, q.x, event.press, event.kind)
      BY ZenonT(30), <3>1, <3>2, <3>3, ProposeStep
    <3>5. r.x = q.x /\ r.decision = q.decision /\ r.gap = FALSE
      BY ZenonT(30), <1>1, <2>3
    <3> QED
      BY ZenonT(30), <3>3, <3>4, <3>5
  <2> QED
    BY ZenonT(30), <1>4, <2>1, <2>2, <2>3
<1> QED
  BY ZenonT(30), <1>3, <1>4

\* A key event: its proposal and the decision sent.
LEMMA EventStep ==
  ASSUME DaemonInv, Event, wire \in Seq(Packets)
  PROVE  DaemonInv'
<1> DEFINE event == Head(wire).arg
           Handles(e, r) ==
              /\ x' = r.x /\ gap' = r.gap /\ cur' = [event |-> e, decision |-> r.decision]
              /\ missed' = IF e.kind = "Up" /\ TapRelease
                           THEN IF Proposing(e) /\ ~r.gap THEN missed \ {e.press}
                                ELSE missed \cup {e.press}
                           ELSE missed
              /\ tapped' = IF e.kind = "Down" /\ Proposing(e) /\ ~r.gap THEN e.press
                           ELSE IF \/ e.kind = "Up" /\ r.x.pending # None
                                   \/ e.kind = "Up" /\ Proposing(e) /\ ~r.gap /\ e.press \notin x.downs
                           THEN tapped ELSE None
<1>1. Head(wire) \in Packets /\ Head(wire).op = "Event" /\ pc = "step"
  BY SMTT(30) DEF Event
<1>2. event \in KeyEvents
  BY ZenonT(30), <1>1 DEF Packets
<1>3. event.press \in Press /\ event.kind \in {"Down", "Up"}
  BY ZenonT(30), <1>2 DEF KeyEvents
<1>4. PICK r \in Proposals(event) : Handles(event, r)
  <2>1. PICK e \in {event} : \E r \in Proposals(e) : Handles(e, r)
    BY ZenonT(30) DEF Event
  <2> HIDE DEF Handles
  <2> QED
    BY ZenonT(30), <2>1
<1>5. pc' = "outcome" /\ mode' = mode /\ health' = health /\ b' = b
  BY ZenonT(30) DEF Event
<1> HIDE DEF event
<1>6. /\ r.decision \in Decisions /\ r.gap \in BOOLEAN
      /\ \/ r.x = x /\ ~Proposing(event) /\ r.gap = gap
         \/ r.x = x /\ Proposing(event) /\ r.gap
         \/ /\ Proposing(event) /\ ~r.gap /\ Proposed(Fresh, r.x, event.press, event.kind)
            /\ TapRelease => ProposedTap(Fresh, r.x, event.press, event.kind)
  BY ZenonT(30), <1>1, <1>2, ProposalsMade
<1>7. x.pending = None /\ x.token = None /\ x \in M
  BY ZenonT(30), <1>1, IdleWorker DEF DaemonInv, DaemonTypeOK
<1>8. cur' \in [event : KeyEvents, decision : Decisions] /\ cur'.event = event /\ cur' # None
  <2>1. cur' \in [event : KeyEvents, decision : Decisions]
    BY ZenonT(30), <1>2, <1>4, <1>6
  <2>2. cur'.event = event
    BY SMTT(30), <1>4
  <2> QED
    BY ZenonT(30), <2>1, <2>2, SessionAssumption
<1>9. missed' \subseteq Press /\ tapped' \in Press \cup {None}
  BY ZenonT(30), <1>3, <1>4 DEF DaemonInv, DaemonTypeOK
<1>10. ASSUME x' \in M PROVE DaemonTypeOK'
  BY ZenonT(30), <1>4, <1>5, <1>6, <1>8, <1>9, <1>10 DEF DaemonInv, DaemonTypeOK
<1>11. CASE r.x = x /\ (r.gap \/ (~Proposing(event) /\ r.gap = gap))
  <2>1. PendingIsToken' /\ TapUnbroken' /\ ProposalAgrees'
    BY ZenonT(30), <1>4, <1>5, <1>7, <1>8, <1>11 DEF PendingIsToken, TapUnbroken, ProposalAgrees
  <2>2. TapRelease /\ x.tap # None => Proposing(event)
    BY ZenonT(30), <1>3 DEF DaemonInv, TapAgrees, Proposing
  <2>3. TapAgrees'
    BY ZenonT(30), <1>4, <1>5, <1>11, <2>2 DEF DaemonInv, TapAgrees, TapRelease
  <2> QED
    BY ZenonT(30), <1>4, <1>7, <1>10, <1>11, <2>1, <2>3 DEF DaemonInv
<1>12. CASE /\ Proposing(event) /\ ~r.gap /\ Proposed(Fresh, r.x, event.press, event.kind)
            /\ TapRelease => ProposedTap(Fresh, r.x, event.press, event.kind)
  <2>1. /\ x' \in M
        /\ x'.pending = None => x'.token = None
        /\ x'.pending # None => /\ x'.pending.press = event.press /\ x'.pending.kind = event.kind
                                /\ x'.token = event.press /\ x'.tap = None
                                /\ event.kind = "Up" => Fresh.tap = event.press
    BY ZenonT(30), <1>4, <1>12 DEF Proposed
  <2>2. event.press # None
    BY ZenonT(30), <1>3, TransactionAssumption
  <2>3. /\ Fresh.downs = x.downs /\ (Fresh.tap # None => ~gap /\ Fresh.tap = x.tap)
    BY ZenonT(30), <1>1, FreshHeld
  <2>4. event.kind = "Up" => TapRelease
    BY ZenonT(30), <1>12 DEF Proposing
  <2>5. TapRelease /\ Fresh.tap # None => tapped = Fresh.tap
    BY ZenonT(30), <2>3 DEF DaemonInv, TapAgrees
  <2>6. PendingIsToken'
    BY ZenonT(30), <1>5, <1>8, <2>1, <2>2 DEF PendingIsToken
  <2>7. ProposalAgrees'
    BY ZenonT(30), <1>5, <1>8, <2>1, <2>4 DEF ProposalAgrees, TapRelease
  <2>8. TapUnbroken'
    <3> SUFFICES ASSUME x'.pending # None, x'.pending.kind = "Up"
                 PROVE  TapRelease /\ tapped' = event.press
      BY ZenonT(30), <1>5, <2>1 DEF TapUnbroken, TapRelease
    <3>1. event.kind = "Up" /\ Fresh.tap = event.press
      BY ZenonT(30), <2>1
    <3>2. tapped' = tapped
      BY ZenonT(30), <1>4, <3>1
    <3> QED
      BY ZenonT(30), <2>2, <2>4, <2>5, <3>1, <3>2
  <2>9. TapAgrees'
    <3> SUFFICES ASSUME TapRelease
                 PROVE  /\ Tracked(x')
                        /\ x'.tap # None => /\ x'.downs = {x'.tap} /\ x'.pending = None /\ ~x'.disabled
                                            /\ ~b.awaiting /\ ~b.locked /\ tapped' = x'.tap
      BY ZenonT(30), <1>5 DEF TapAgrees, TapRelease, Tracked
    <3>1. ProposedTap(Fresh, x', event.press, event.kind)
      BY ZenonT(30), <1>4, <1>12
    <3>2. ~b.awaiting /\ ~b.locked
      BY ZenonT(30), <1>12 DEF Proposing, Installed, TapRelease
    <3>3. ASSUME x'.tap # None PROVE tapped' = x'.tap
      <4>1. CASE event.kind = "Down"
        BY ZenonT(30), <1>4, <1>12, <3>1, <3>3, <4>1 DEF ProposedTap
      <4>2. CASE event.kind = "Up"
        <5>1. event.press \notin x.downs /\ x'.tap = Fresh.tap
          BY ZenonT(30), <2>3, <3>1, <3>3, <4>2 DEF ProposedTap
        <5>2. tapped' = tapped
          BY ZenonT(30), <1>4, <1>12, <4>2, <5>1
        <5> QED
          BY ZenonT(30), <2>5, <3>3, <5>1, <5>2
      <4> QED
        BY ZenonT(30), <1>3, <4>1, <4>2
    <3> QED
      BY ZenonT(30), <2>1, <3>1, <3>2, <3>3 DEF ProposedTap, TapHeld
  <2> QED
    BY ZenonT(30), <1>10, <2>1, <2>6, <2>7, <2>8, <2>9 DEF DaemonInv
<1> QED
  BY ZenonT(30), <1>6, <1>11, <1>12

-----------------------------------------------------------------------------
(* The plugin and the packets in flight.                                   *)

Plugins ==
    [bound : Nonces, reconciled : BOOLEAN, stale : BOOLEAN, locked : BOOLEAN,
     gens : SUBSET Gens, used : SUBSET Gens,
     owner : [Press -> {"none", "forwarded", "consumed", "quarantined"}], ask : KeyEvents \cup {None}]

\* What SessionInv says of the plugin's variables.
FlightInv ==
    /\ sock \in Nonces /\ wire \in Seq(Packets) /\ reply \in Decisions \cup {None} /\ n \in Plugins
    /\ FlightAgrees

\* The fields of the plugin's record.
LEMMA PluginFields ==
  ASSUME NEW m \in Plugins
  PROVE  /\ m.bound \in Nonces /\ m.reconciled \in BOOLEAN /\ m.stale \in BOOLEAN /\ m.locked \in BOOLEAN
         /\ m.gens \in SUBSET Gens /\ m.used \in SUBSET Gens /\ m.ask \in KeyEvents \cup {None}
         /\ m.owner \in [Press -> {"none", "forwarded", "consumed", "quarantined"}]
BY ZenonT(30) DEF Plugins

\* The packets the plugin builds.
LEMMA PacketTypes ==
  /\ \A locked \in BOOLEAN : Packet("Lock", locked) \in Packets
  /\ \A reason \in {2, 3, 8} : Packet("Reset", reason) \in Packets
  /\ \A g \in Gens : Packet("Retire", g) \in Packets
  /\ \A e \in KeyEvents : Packet("Event", e) \in Packets
  /\ \A code \in Codes : Packet("Outcome", code) \in Packets
<1>1. \A locked \in BOOLEAN : Packet("Lock", locked) \in Packets
  BY ZenonT(30) DEF Packet, Packets
<1>2. \A reason \in {2, 3, 8} : Packet("Reset", reason) \in Packets
  BY ZenonT(30) DEF Packet, Packets
<1>3. \A g \in Gens : Packet("Retire", g) \in Packets
  BY ZenonT(30) DEF Packet, Packets
<1>4. \A e \in KeyEvents : Packet("Event", e) \in Packets
  BY ZenonT(30) DEF Packet, Packets
<1>5. \A code \in Codes : Packet("Outcome", code) \in Packets
  BY ZenonT(30) DEF Packet, Packets
<1> QED
  BY ZenonT(30), <1>1, <1>2, <1>3, <1>4, <1>5

\* A send adds its packets and at most the Lock control in front of them.
LEMMA SentFits ==
  ASSUME wire \in Seq(Packets), NEW m \in Plugins, NEW body \in Seq(Packets)
  PROVE  Sent(m, body) \in Seq(Packets) /\ Len(Sent(m, body)) <= Len(wire) + 1 + Len(body)
<1>1. Packet("Lock", m.locked) \in Packets
  BY ZenonT(30), PluginFields, PacketTypes
<1> DEFINE front == IF m.stale THEN <<Packet("Lock", m.locked)>> ELSE <<>>
<1>2. front \in Seq(Packets) /\ Len(front) \in 0..1
  <2>1. CASE m.stale
    BY SMTT(30), <1>1, <2>1
  <2>2. CASE ~m.stale
    BY SMTT(30), <2>2
  <2> QED
    BY ZenonT(30), <2>1, <2>2
<1>3. Sent(m, body) = wire \/ Sent(m, body) = wire \o front \o body
  BY ZenonT(30) DEF Sent
<1> HIDE DEF front
<1>4. CASE Sent(m, body) = wire
  BY SMTT(30), <1>4
<1>5. CASE Sent(m, body) = wire \o front \o body
  <2> DEFINE begun == wire \o front
  <2>1. begun \in Seq(Packets) /\ Len(begun) = Len(wire) + Len(front)
    BY SMTT(30), <1>2
  <2>2. Len(wire) \in Nat /\ Len(front) \in 0..1 /\ Len(body) \in Nat
    BY SMTT(30), <1>2
  <2> HIDE DEF begun
  <2>3. begun \o body \in Seq(Packets) /\ Len(begun \o body) = Len(begun) + Len(body)
    BY SMTT(30), <2>1
  <2>4. Len(begun \o body) <= Len(wire) + 1 + Len(body)
    <3>1. \A i, k \in Nat, f \in 0..1 : (i + f) + k <= i + 1 + k
      BY SMTT(30)
    <3> QED
      BY ZenonT(30), <2>1, <2>2, <2>3, <3>1
  <2> QED
    BY ZenonT(30), <1>5, <2>3, <2>4 DEF begun
<1> QED
  BY ZenonT(30), <1>3, <1>4, <1>5

\* ensureBinding touches neither the presses nor the transaction.
LEMMA BoundFields ==
  ASSUME n \in Plugins, sock \in Nonces
  PROVE  Bound \in Plugins /\ Bound.owner = n.owner /\ Bound.ask = n.ask
<1>1. \/ Bound = [n EXCEPT !.reconciled = FALSE]
      \/ Bound = [n EXCEPT !.bound = sock, !.reconciled = FALSE, !.stale = TRUE]
      \/ Bound = n
  BY ZenonT(30) DEF Bound
<1>2. CASE Bound = [n EXCEPT !.reconciled = FALSE]
  BY ZenonT(30), <1>2 DEF Plugins
<1>3. CASE Bound = [n EXCEPT !.bound = sock, !.reconciled = FALSE, !.stale = TRUE]
  BY ZenonT(30), <1>3 DEF Plugins
<1>4. CASE Bound = n
  BY ZenonT(30), <1>4
<1> QED
  BY ZenonT(30), <1>1, <1>2, <1>3, <1>4

\* A send with room for it keeps the plugin's part.
LEMMA SendsStep ==
  ASSUME FlightInv, NEW m \in Plugins, NEW body \in Seq(Packets), Sends(m, body),
         Len(body) <= 3, m.ask # None => Len(body) <= 1,
         m.ask # None => (m.ask.kind = "Up" => m.owner[m.ask.press] # "none")
  PROVE  FlightInv'
<1>1. wire' = Sent(m, body) /\ sock' = sock /\ reply' = reply /\ Len(wire) <= MaxQueued
  BY ZenonT(30) DEF Sends, Room
<1>2. wire \in Seq(Packets) /\ sock \in Nonces /\ reply \in Decisions \cup {None}
  BY ZenonT(30) DEF FlightInv
<1>3. wire' \in Seq(Packets) /\ Len(wire') <= Len(wire) + 1 + Len(body)
  BY ZenonT(30), <1>1, <1>2, SentFits
<1>4. Len(wire) \in Nat /\ Len(wire') \in Nat /\ Len(body) \in Nat /\ MaxQueued \in Nat
  BY SMTT(30), <1>2, <1>3, SessionAssumption
<1>5. Len(wire') <= MaxQueued + 5 /\ (m.ask # None => Len(wire') <= MaxQueued + 2)
  BY SMTT(30), <1>1, <1>3, <1>4
<1>6. PICK s \in BOOLEAN : s = (m.stale /\ sock = 0)
  BY ZenonT(30)
<1>7. n' = [m EXCEPT !.stale = @ /\ sock = 0]
  BY ZenonT(30) DEF Sends
<1>8. n' = [m EXCEPT !.stale = s]
  BY ZenonT(30), <1>6, <1>7
<1>9. n' \in Plugins /\ n'.ask = m.ask /\ n'.owner = m.owner
  BY ZenonT(30), <1>8 DEF Plugins
<1>10. FlightAgrees'
  BY ZenonT(30), <1>5, <1>9 DEF FlightAgrees
<1> QED
  BY ZenonT(30), <1>1, <1>2, <1>3, <1>9, <1>10 DEF FlightInv

\* The owner and the outcome a press ends with are among those the wire can name.
LEMMA ResultTypes ==
  ASSUME NEW answer \in Decisions \cup {None}
  PROVE  /\ \A r \in DownResults(answer) : r[1] \in {"forwarded", "consumed"} /\ r[2] \in Codes
         /\ \A owner \in {"forwarded", "consumed", "quarantined"} : UpResults(answer, owner) \subseteq Codes
<1>1. ASSUME NEW r \in DownResults(answer)
      PROVE  r[1] \in {"forwarded", "consumed"} /\ r[2] \in Codes
  <2>1. r \in {<<"forwarded", "Stock">>, <<"forwarded", "Partial">>, <<"forwarded", "Timeout">>,
               <<"forwarded", "Admitted">>, <<"consumed", "Swallowed">>, <<"consumed", "Replaced">>,
               <<"forwarded", "Rejected">>, <<"consumed", "Partial">>}
    BY SMTT(30), <1>1, TransactionAssumption DEF DownResults, Decisions
  <2> QED
    BY SMTT(30), <2>1 DEF Codes
<1>2. ASSUME NEW owner \in {"forwarded", "consumed", "quarantined"}
      PROVE  UpResults(answer, owner) \subseteq Codes
  BY SMTT(30) DEF UpResults, Codes
<1> QED
  BY ZenonT(30), <1>1, <1>2

\* A key moves.
LEMMA KeyStep ==
  ASSUME FlightInv, NEW p \in Press, NEW kind \in {"Down", "Up"}, Key(p, kind)
  PROVE  FlightInv'
<1>1. n \in Plugins /\ sock \in Nonces /\ wire \in Seq(Packets) /\ reply \in Decisions \cup {None}
  BY ZenonT(30) DEF FlightInv
<1>2. Bound \in Plugins /\ Bound.owner = n.owner /\ Bound.ask = n.ask
  BY ZenonT(30), <1>1, BoundFields
<1>3. n.ask = None /\ (kind = "Down" <=> n.owner[p] = "none")
  BY ZenonT(30) DEF Key
<1>4. CASE CanPropose
  <2> DEFINE e == EventOf(p, kind)
             m == [Bound EXCEPT !.ask = e]
             body == <<Packet("Event", e)>>
  <2>1. Sends(m, body)
    BY ZenonT(30), <1>4 DEF Key
  <2>2. e \in KeyEvents
    BY ZenonT(30) DEF EventOf, KeyEvents
  <2>3. e.press = p /\ e.kind = kind
    BY SMTT(30) DEF EventOf
  <2>4. Packet("Event", e) \in Packets
    BY ZenonT(30), <2>2, PacketTypes
  <2>5. body \in Seq(Packets) /\ Len(body) <= 3 /\ Len(body) <= 1
    BY SMTT(30), <2>4
  <2> HIDE DEF e, body
  <2>6. m \in Plugins /\ m.ask = e /\ m.owner = n.owner
    BY ZenonT(30), <1>2, <2>2 DEF Plugins
  <2> HIDE DEF m
  <2>7. m.ask.kind = "Up" => m.owner[m.ask.press] # "none"
    BY ZenonT(30), <1>3, <2>3, <2>6
  <2> QED
    BY ZenonT(30), <2>1, <2>5, <2>6, <2>7, SendsStep
<1>5. CASE ~CanPropose
  <2>1. PICK v \in {"none", "forwarded", "quarantined"} : n' = [Bound EXCEPT !.owner[p] = v]
    BY SMTT(30), <1>5 DEF Key
  <2>2. sock' = sock /\ wire' = wire /\ reply' = reply
    BY ZenonT(30), <1>5 DEF Key
  <2> DEFINE o == [Bound.owner EXCEPT ![p] = v]
  <2>3. o \in [Press -> {"none", "forwarded", "consumed", "quarantined"}]
    BY ZenonT(30), <1>2, PluginFields
  <2>4. n' = [Bound EXCEPT !.owner = o]
    BY ZenonT(30), <2>1
  <2> HIDE DEF o
  <2>5. n' \in Plugins /\ n'.ask = Bound.ask
    BY ZenonT(30), <1>2, <2>3, <2>4 DEF Plugins
  <2> QED
    BY ZenonT(30), <1>1, <1>2, <1>3, <2>2, <2>5 DEF FlightInv, FlightAgrees
<1> QED
  BY ZenonT(30), <1>4, <1>5

\* The transaction ends: its owner and outcome, with the packets of a nested change.
LEMMA SettleStep ==
  ASSUME FlightInv, NEW nested \in BOOLEAN, Settle(nested)
  PROVE  FlightInv'
<1> DEFINE p == n.ask.press
<1>1. n \in Plugins /\ sock \in Nonces /\ wire \in Seq(Packets) /\ reply \in Decisions \cup {None}
  BY ZenonT(30) DEF FlightInv
<1>2. n.ask # None /\ n.ask \in KeyEvents /\ p \in Press /\ n.ask.kind \in {"Down", "Up"}
  <2>1. n.ask # None /\ n.ask \in KeyEvents
    BY ZenonT(30), <1>1, PluginFields DEF Settle
  <2> QED
    BY ZenonT(30), <2>1 DEF KeyEvents
<1>3. Len(wire) <= MaxQueued + 2 /\ (n.ask.kind = "Up" => n.owner[p] # "none")
  BY ZenonT(30), <1>2 DEF FlightInv, FlightAgrees
<1>4. n.owner \in [Press -> {"none", "forwarded", "consumed", "quarantined"}]
  BY ZenonT(30), <1>1, PluginFields
<1> DEFINE results == IF n.ask.kind = "Down" THEN DownResults(reply)
                      ELSE {<<"none", code>> : code \in UpResults(reply, n.owner[p])}
           M0(r) == [Bound EXCEPT !.ask = None, !.owner[p] = r[1]]
           Body(r) == IF nested THEN <<Packet("Reset", 2), Packet("Outcome", r[2])>>
                      ELSE <<Packet("Outcome", r[2])>>
<1>5. PICK r \in results :
          \/ wire' = Sent(Nested(M0(r), nested), Body(r)) /\ n' = [Nested(M0(r), nested) EXCEPT !.stale = FALSE]
          \/ wire' = wire /\ n' = Nested(M0(r), nested)
  BY ZenonT(30) DEF Settle
<1>6. sock' = sock /\ reply' = None
  BY ZenonT(30) DEF Settle
<1>7. r[1] \in {"none", "forwarded", "consumed"} /\ r[2] \in Codes
  <2>1. CASE n.ask.kind = "Down"
    <3>1. r \in DownResults(reply)
      BY ZenonT(30), <1>5, <2>1
    <3> QED
      BY ZenonT(30), <1>1, <3>1, ResultTypes
  <2>2. CASE n.ask.kind = "Up"
    <3>1. PICK code \in UpResults(reply, n.owner[p]) : r = <<"none", code>>
      BY ZenonT(30), <1>5, <2>2
    <3>2. n.owner[p] \in {"forwarded", "consumed", "quarantined"}
      BY ZenonT(30), <1>2, <1>3, <1>4, <2>2
    <3>3. code \in Codes
      BY ZenonT(30), <1>1, <3>1, <3>2, ResultTypes
    <3> QED
      BY SMTT(30), <3>1, <3>3
  <2> QED
    BY ZenonT(30), <1>2, <2>1, <2>2
<1> DEFINE m0 == M0(r)
           m == Nested(m0, nested)
           body == Body(r)
           o == [Bound.owner EXCEPT ![p] = r[1]]
<1>8. Bound \in Plugins /\ Bound.owner = n.owner
  BY ZenonT(30), <1>1, BoundFields
<1>9. o \in [Press -> {"none", "forwarded", "consumed", "quarantined"}]
  BY ZenonT(30), <1>4, <1>7, <1>8
<1>10. m0 = [Bound EXCEPT !.ask = None, !.owner = o]
  BY ZenonT(30)
<1> HIDE DEF o, m0
<1>11. m0 \in Plugins /\ m0.ask = None
  BY ZenonT(30), <1>8, <1>9, <1>10 DEF Plugins
<1>12. m \in Plugins /\ m.ask = None
  <2>1. m = m0 \/ m = [m0 EXCEPT !.reconciled = FALSE, !.stale = TRUE]
    BY ZenonT(30) DEF Nested
  <2>2. CASE m = [m0 EXCEPT !.reconciled = FALSE, !.stale = TRUE]
    BY ZenonT(30), <1>11, <2>2 DEF Plugins
  <2> QED
    BY ZenonT(30), <1>11, <2>1, <2>2
<1>13. body \in Seq(Packets) /\ Len(body) \in 1..2
  <2>1. Packet("Reset", 2) \in Packets /\ Packet("Outcome", r[2]) \in Packets
    BY ZenonT(30), <1>7, PacketTypes
  <2>2. CASE nested
    BY SMTT(30), <2>1, <2>2
  <2>3. CASE ~nested
    BY SMTT(30), <2>1, <2>3
  <2> QED
    BY ZenonT(30), <2>2, <2>3
<1>14. \/ wire' = Sent(m, body) /\ n' = [m EXCEPT !.stale = FALSE]
       \/ wire' = wire /\ n' = m
  BY ZenonT(30), <1>5 DEF m0
<1> HIDE DEF m, body
<1>15. n' \in Plugins /\ n'.ask = None
  <2>1. CASE n' = [m EXCEPT !.stale = FALSE]
    BY ZenonT(30), <1>12, <2>1 DEF Plugins
  <2> QED
    BY ZenonT(30), <1>12, <1>14, <2>1
<1>16. wire' \in Seq(Packets) /\ Len(wire') <= MaxQueued + 5
  <2>1. Sent(m, body) \in Seq(Packets) /\ Len(Sent(m, body)) <= Len(wire) + 1 + Len(body)
    BY ZenonT(30), <1>1, <1>12, <1>13, SentFits
  <2>2. Len(wire) \in Nat /\ Len(Sent(m, body)) \in Nat /\ MaxQueued \in Nat
    BY SMTT(30), <1>1, <2>1, SessionAssumption
  <2>3. \A i, j, q \in Nat, k \in 1..2 : i <= q + 2 /\ j <= i + 1 + k => j <= q + 5 /\ i <= q + 5
    BY SMTT(30)
  <2> QED
    BY ZenonT(30), <1>1, <1>3, <1>13, <1>14, <2>1, <2>2, <2>3
<1> QED
  BY ZenonT(30), <1>1, <1>6, <1>15, <1>16 DEF FlightInv, FlightAgrees

\* Focus, locks, devices and the quiescence proof: the changes that open no transaction.
LEMMA ChangeStep ==
  ASSUME FlightInv, Focus \/ Lock \/ Unlock \/ Reconcile \/ (\E g \in Gens : Attach(g) \/ Retire(g))
  PROVE  FlightInv'
<1>1. n \in Plugins /\ sock \in Nonces
  BY ZenonT(30) DEF FlightInv
<1>2. Bound \in Plugins /\ Bound.owner = n.owner /\ Bound.ask = n.ask
  BY ZenonT(30), <1>1, BoundFields
<1>3. n.ask = None
  BY ZenonT(30) DEF Focus, Lock, Unlock, Reconcile, Attach, Retire
<1>4. /\ Bound.gens \in SUBSET Gens /\ Bound.used \in SUBSET Gens
      /\ Bound.owner \in [Press -> {"none", "forwarded", "consumed", "quarantined"}] /\ n.locked \in BOOLEAN
  BY ZenonT(30), <1>1, <1>2, PluginFields
<1>5. ASSUME NEW m \in Plugins, m.ask = None, NEW body \in Seq(Packets), Len(body) <= 3, Sends(m, body)
      PROVE  FlightInv'
  BY ZenonT(30), <1>5, SendsStep
<1>6. <<>> \in Seq(Packets) /\ Len(<<>>) <= 3
  BY SMTT(30)
<1>7. \A k \in {2, 3, 8} : <<Packet("Reset", k)>> \in Seq(Packets) /\ Len(<<Packet("Reset", k)>>) <= 3
  <2>1. \A k \in {2, 3, 8} : Packet("Reset", k) \in Packets
    BY ZenonT(30), PacketTypes
  <2> QED
    BY SMTT(30), <2>1
<1>8. CASE Focus
  <2> DEFINE m == [Bound EXCEPT !.reconciled = FALSE, !.stale = TRUE]
  <2>1. Sends(m, <<Packet("Reset", 2)>>)
    BY ZenonT(30), <1>8 DEF Focus
  <2>2. m \in Plugins /\ m.ask = None
    BY ZenonT(30), <1>2, <1>3 DEF Plugins
  <2> HIDE DEF m
  <2> QED
    BY ZenonT(30), <1>5, <1>7, <2>1, <2>2
<1>9. CASE Lock
  <2> DEFINE o == [p \in Press |-> IF Bound.owner[p] = "none" THEN "none" ELSE "quarantined"]
             m == [Bound EXCEPT !.locked = TRUE, !.stale = TRUE, !.owner = o]
  <2>1. Sends(m, <<>>)
    BY ZenonT(30), <1>9 DEF Lock
  <2>2. o \in [Press -> {"none", "forwarded", "consumed", "quarantined"}]
    BY ZenonT(30)
  <2> HIDE DEF o
  <2>3. m \in Plugins /\ m.ask = None
    BY ZenonT(30), <1>2, <1>3, <2>2 DEF Plugins
  <2> HIDE DEF m
  <2> QED
    BY ZenonT(30), <1>5, <1>6, <2>1, <2>3
<1>10. CASE Unlock
  <2> DEFINE m == [Bound EXCEPT !.locked = FALSE, !.stale = TRUE]
  <2>1. Sends(m, <<>>)
    BY ZenonT(30), <1>10 DEF Unlock
  <2>2. m \in Plugins /\ m.ask = None
    BY ZenonT(30), <1>2, <1>3 DEF Plugins
  <2> HIDE DEF m
  <2> QED
    BY ZenonT(30), <1>5, <1>6, <2>1, <2>2
<1>11. CASE Reconcile
  <2> DEFINE m == [Bound EXCEPT !.reconciled = TRUE]
  <2>1. Sends(m, <<Packet("Reset", 8)>>)
    BY ZenonT(30), <1>11 DEF Reconcile
  <2>2. m \in Plugins /\ m.ask = None
    BY ZenonT(30), <1>2, <1>3 DEF Plugins
  <2> HIDE DEF m
  <2> QED
    BY ZenonT(30), <1>5, <1>7, <2>1, <2>2
<1>12. ASSUME NEW g \in Gens, Attach(g)
       PROVE  FlightInv'
  <2> DEFINE s == Bound.gens \cup {g}
             u == Bound.used \cup {g}
             m == [Bound EXCEPT !.gens = s, !.used = u, !.reconciled = FALSE, !.stale = TRUE]
  <2>1. Sends(m, <<Packet("Reset", 3)>>)
    BY ZenonT(30), <1>12 DEF Attach
  <2>2. s \in SUBSET Gens /\ u \in SUBSET Gens
    BY ZenonT(30), <1>4
  <2> HIDE DEF s, u
  <2>3. m \in Plugins /\ m.ask = None
    BY ZenonT(30), <1>2, <1>3, <2>2 DEF Plugins
  <2> HIDE DEF m
  <2> QED
    BY ZenonT(30), <1>5, <1>7, <2>1, <2>3
<1>13. ASSUME NEW g \in Gens, Retire(g)
       PROVE  FlightInv'
  <2> DEFINE s == Bound.gens \ {g}
             o == [p \in Press |-> IF p[1] = g THEN "none" ELSE Bound.owner[p]]
             m == [Bound EXCEPT !.gens = s, !.reconciled = FALSE, !.stale = TRUE, !.owner = o]
             body == <<Packet("Reset", 3), Packet("Lock", n.locked), Packet("Retire", g)>>
  <2>1. Sends(m, body)
    BY ZenonT(30), <1>13 DEF Retire
  <2>2. s \in SUBSET Gens /\ o \in [Press -> {"none", "forwarded", "consumed", "quarantined"}]
    BY ZenonT(30), <1>4
  <2>3. Packet("Reset", 3) \in Packets /\ Packet("Lock", n.locked) \in Packets /\ Packet("Retire", g) \in Packets
    BY ZenonT(30), <1>4, PacketTypes
  <2>4. body \in Seq(Packets) /\ Len(body) <= 3
    BY SMTT(30), <2>3
  <2> HIDE DEF s, o, body
  <2>5. m \in Plugins /\ m.ask = None
    BY ZenonT(30), <1>2, <1>3, <2>2 DEF Plugins
  <2> HIDE DEF m
  <2> QED
    BY ZenonT(30), <1>5, <2>1, <2>4, <2>5
<1> QED
  BY ZenonT(30), <1>8, <1>9, <1>10, <1>11, <1>12, <1>13

\* The worker reads packets and loses them, and sends one decision.
LEMMA FlightUnderWorker ==
  ASSUME DaemonInv, FlightInv, Worker \/ Reload \/ Hangup
  PROVE  FlightInv'
<1>1. wire \in Seq(Packets) /\ sock \in Nonces /\ reply \in Decisions \cup {None} /\ n \in Plugins
  BY ZenonT(30) DEF FlightInv
<1>2. n' = n
  BY ZenonT(30) DEF Worker, Reload, Hangup, Accept, HistoryFull, Control, Event, Outcome, Uncertain, StepFails, Check
<1>3. wire' = wire \/ wire' = <<>> \/ (wire # <<>> /\ wire' = Tail(wire))
  BY ZenonT(30) DEF Worker, Reload, Hangup, Accept, HistoryFull, Control, Event, Outcome, Uncertain, StepFails, Check,
     Fail, CloseEnd
<1>4. wire' \in Seq(Packets) /\ Len(wire') <= Len(wire) /\ Len(wire') \in Nat /\ Len(wire) \in Nat
  <2>1. CASE wire' = wire
    BY SMTT(30), <1>1, <2>1
  <2>2. CASE wire' = <<>>
    BY SMTT(30), <1>1, <2>2
  <2>3. CASE wire # <<>> /\ wire' = Tail(wire)
    BY SMTT(30), <1>1, <2>3
  <2> QED
    BY ZenonT(30), <1>3, <2>1, <2>2, <2>3
<1>5. FlightAgrees'
  <2>1. \A i, j, q \in Nat : j <= i => (i <= q + 5 => j <= q + 5) /\ (i <= q + 2 => j <= q + 2)
    BY SMTT(30)
  <2>2. MaxQueued \in Nat
    BY SessionAssumption
  <2> QED
    BY ZenonT(30), <1>2, <1>4, <2>1, <2>2 DEF FlightInv, FlightAgrees
<1>6. sock' \in Nonces
  <2>1. CASE Accept
    <3>1. b.nonce \in Nonces /\ b.nonce <= MaxNonces
      BY ZenonT(30), <2>1, BridgeFields DEF Accept
    <3>2. b.nonce + 1 \in Nonces
      BY SMTT(30), <3>1, SessionAssumption DEF Nonces
    <3>3. b' = [b EXCEPT !.open = TRUE, !.nonce = b.nonce + 1, !.awaiting = TRUE] /\ sock' = b'.nonce
      BY ZenonT(30), <2>1 DEF Accept
    <3>4. b'.nonce = b.nonce + 1
      BY ZenonT(30), <3>3 DEF DaemonInv, DaemonTypeOK, Bridges
    <3> QED
      BY ZenonT(30), <3>2, <3>3, <3>4
  <2>2. CASE ~Accept
    <3>1. sock' = sock \/ sock' = 0
      BY ZenonT(30), <2>2 DEF Worker, Reload, Hangup, HistoryFull, Control, Event, Outcome, Uncertain, StepFails,
         Check, Fail, CloseEnd
    <3>2. 0 \in Nonces
      BY SessionAssumption DEF Nonces
    <3> QED
      BY ZenonT(30), <1>1, <3>1, <3>2
  <2> QED
    BY ZenonT(30), <2>1, <2>2
<1>7. reply' \in Decisions \cup {None}
  <2>1. CASE Event
    <3>1. Head(wire) \in Packets /\ Head(wire).op = "Event" /\ pc = "step"
      BY SMTT(30), <1>1, <2>1 DEF Event
    <3>2. Head(wire).arg \in KeyEvents
      BY ZenonT(30), <3>1 DEF Packets
    <3>3. PICK r \in Proposals(Head(wire).arg) : reply' = r.decision \/ reply' = None
      BY ZenonT(30), <2>1 DEF Event
    <3>4. r.decision \in Decisions
      BY ZenonT(30), <3>1, <3>2, <3>3, ProposalsMade
    <3> QED
      BY ZenonT(30), <3>3, <3>4
  <2>2. CASE ~Event
    <3>1. reply' = reply \/ reply' = None
      BY ZenonT(30), <2>2 DEF Worker, Reload, Hangup, Accept, HistoryFull, Control, Outcome, Uncertain, StepFails,
         Check, Fail, CloseEnd
    <3> QED
      BY ZenonT(30), <1>1, <3>1
  <2> QED
    BY ZenonT(30), <2>1, <2>2
<1> QED
  BY ZenonT(30), <1>1, <1>2, <1>4, <1>5, <1>6, <1>7 DEF FlightInv

\* The plugin's steps leave every variable of the worker alone.
LEMMA DaemonUnderPlugin ==
  ASSUME DaemonInv, UNCHANGED <<mode, daemon>>
  PROVE  DaemonInv'
<1>1. /\ mode' = mode /\ x' = x /\ health' = health /\ gap' = gap /\ b' = b /\ pc' = pc /\ cur' = cur
      /\ missed' = missed /\ tapped' = tapped
  BY ZenonT(30) DEF daemon
<1>2. DaemonTypeOK'
  BY ZenonT(30), <1>1 DEF DaemonInv, DaemonTypeOK
<1>3. PendingIsToken' /\ TapUnbroken'
  BY ZenonT(30), <1>1 DEF DaemonInv, PendingIsToken, TapUnbroken, TapRelease
<1>4. ProposalAgrees' /\ TapAgrees'
  BY ZenonT(30), <1>1 DEF DaemonInv, ProposalAgrees, TapAgrees, TapRelease
<1> QED
  BY ZenonT(30), <1>2, <1>3, <1>4 DEF DaemonInv

-----------------------------------------------------------------------------
(* The theorems.                                                           *)

\* SessionInv is its two parts.
LEMMA InvParts ==
  SessionInv <=> DaemonInv /\ FlightInv
BY ZenonT(30) DEF SessionInv, SessionTypeOK, DaemonInv, DaemonTypeOK, FlightInv, M, Healths, Bridges, Plugins

\* And so in the next state.
LEMMA InvPartsNext ==
  DaemonInv' /\ FlightInv' => SessionInv'
BY ZenonT(30) DEF SessionInv, SessionTypeOK, DaemonInv, DaemonTypeOK, FlightInv, M, Healths, Bridges, Plugins

\* The worker before its first connection and the plugin before its first key.
LEMMA SessionInvInit ==
  ASSUME Init
  PROVE  SessionInv
<1>1. 0 \in Nonces
  BY SessionAssumption DEF Nonces
<1>2. Quiesced(NewMatching) /\ Tracked(NewMatching)
  BY ZenonT(30), <1>1, NewQuiesces
<1>3. x = NewMatching /\ cur = None /\ pc = "accept" /\ tapped = None
  BY ZenonT(30) DEF Init
<1>4. DaemonTypeOK
  <2>1. health \in Healths /\ b \in Bridges
    BY ZenonT(30), <1>1 DEF Init, Healths, Bridges
  <2> QED
    BY ZenonT(30), <1>2, <2>1 DEF Init, DaemonTypeOK, Quiesced
<1>5. PendingIsToken /\ TapUnbroken /\ ProposalAgrees /\ TapAgrees
  BY ZenonT(30), <1>2, <1>3 DEF PendingIsToken, TapUnbroken, ProposalAgrees, TapAgrees, Quiesced, Tracked
<1>6. FlightInv
  <2>1. n \in Plugins /\ n.ask = None
    BY ZenonT(30), <1>1 DEF Init, Plugins
  <2>2. wire = <<>> /\ sock = 0 /\ reply = None
    BY ZenonT(30) DEF Init
  <2>3. wire \in Seq(Packets) /\ Len(wire) <= MaxQueued + 5
    BY SMTT(30), <2>2, SessionAssumption
  <2> QED
    BY ZenonT(30), <1>1, <2>1, <2>2, <2>3 DEF FlightInv, FlightAgrees
<1> QED
  BY ZenonT(30), <1>4, <1>5, <1>6, InvParts DEF DaemonInv

\* Every step of the worker, the reload thread and the plugin keeps SessionInv.
LEMMA SessionInvStep ==
  ASSUME SessionInv, [Next]_vars
  PROVE  SessionInv'
<1>1. DaemonInv /\ FlightInv
  BY ZenonT(30), InvParts
<1>2. wire \in Seq(Packets)
  BY ZenonT(30), <1>1 DEF FlightInv
<1>3. CASE Worker
  <2>1. DaemonInv'
    BY ZenonT(30), <1>1, <1>2, <1>3, AcceptStep, HistoryFullStep, ControlStep, EventStep, OutcomeStep,
       UncertainStep, StepFailsStep, CheckStep DEF Worker
  <2>2. FlightInv'
    BY ZenonT(30), <1>1, <1>3, FlightUnderWorker
  <2> QED
    BY ZenonT(30), <2>1, <2>2, InvPartsNext
<1>4. CASE Reload
  BY ZenonT(30), <1>1, <1>4, ReloadStep, FlightUnderWorker, InvPartsNext
<1>5. CASE Plugin
  <2>1. UNCHANGED <<mode, daemon>>
    BY ZenonT(30), <1>5 DEF Plugin, Key, Sends, Settle, Focus, Lock, Unlock, Reconcile, Hangup, Attach, Retire
  <2>2. DaemonInv'
    BY ZenonT(30), <1>1, <2>1, DaemonUnderPlugin
  <2>3. FlightInv'
    BY ZenonT(30), <1>1, <1>5, KeyStep, SettleStep, ChangeStep, FlightUnderWorker DEF Plugin
  <2> QED
    BY ZenonT(30), <2>2, <2>3, InvPartsNext
<1>6. CASE UNCHANGED vars
  <2>1. DaemonInv'
    BY ZenonT(30), <1>1, <1>6, DaemonUnderPlugin DEF vars, daemon
  <2>2. FlightInv'
    BY ZenonT(30), <1>1, <1>6 DEF FlightInv, FlightAgrees, vars
  <2> QED
    BY ZenonT(30), <2>1, <2>2, InvPartsNext
<1> QED
  BY ZenonT(30), <1>3, <1>4, <1>5, <1>6 DEF Next

\* However connections, resets, reloads, lost decisions and late outcomes interleave, the
\* matching state of the Hyprland worker has at most the proposal the worker waits for,
\* its token lives exactly as long, a tap in progress is the one key known to be down, and
\* the packets in flight, the nonces and the retired devices stay within their bounds.
THEOREM SessionSound ==
  Spec => []SessionInv
BY SessionInvInit, SessionInvStep, PTL DEF Spec

\* A replacement proposed on a release completes a tap that no other key, control, reload
\* or missed event has broken.
THEOREM TapsUnbroken ==
  Spec => []TapUnbroken
<1>1. SessionInv => TapUnbroken
  BY DEF SessionInv
<1> QED
  BY <1>1, SessionSound, PTL

=============================================================================
