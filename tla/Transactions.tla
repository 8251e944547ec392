---------------------------- MODULE Transactions ----------------------------
(***************************************************************************)
(* MatcherTransactions of the daemon's Hyprland worker (hyprland/matcher.rs) *)
(* on top of the matcher: the one outstanding proposal, whether matching is *)
(* enabled, and which connection's reconciliation is awaited.              *)
(*                                                                         *)
(* State and matcher are one record, x, and every method is an operator    *)
(* that returns the record it leaves behind.  Of the matcher (module       *)
(* Matcher) only what a delivery can change is kept: the owner of each     *)
(* press, the live token and the modifier tap in progress; which rule      *)
(* matches is a free choice.  A nonce is the number of its connection.     *)
(***************************************************************************)
EXTENDS Naturals, FiniteSets

CONSTANTS
    Gens,          \* generations of attached keyboards
    Keys,          \* their keys
    Modifiers,     \* the keys a tap rule can name
    None

Press == Gens \X Keys
Decisions == {"Pass", "Swallow", "Replace"}
Proposal == [press : Press, kind : {"Down", "Up"}, decision : Decisions]

ASSUME TransactionAssumption ==
    /\ Modifiers \subseteq Keys
    /\ None \notin Gens /\ None \notin Decisions /\ None \notin Press /\ None \notin Proposal

\* ResultKind; "Stock" is any result that leaves the original to the compositor's own
\* bindings or to another keyboard's press of the same key.
Codes == {"Replaced", "Rejected", "Partial", "Timeout", "Swallowed", "Stock", "Admitted",
          "Quarantined"}

Matching(MaxNonce) ==
    [pending : Proposal \cup {None},
     downs : SUBSET Press,                    \* physical_downs
     seen : Gens \cup {None},                 \* observation
     disabled : BOOLEAN,                      \* replacement_disabled
     recovery : 0..MaxNonce,                  \* recovery_nonce, 0 for none
     previous : 0..MaxNonce,                  \* previous_recovery_nonce
     owner : [Press -> {"none", "swallowed", "forwarded"}],
     token : Press \cup {None},               \* the token with a pending delivery
     tap : Press \cup {None}]                 \* the recogniser's candidate

NewMatching ==
    [pending |-> None, downs |-> {}, seen |-> None, disabled |-> FALSE, recovery |-> 0,
     previous |-> 0, owner |-> [p \in Press |-> "none"], token |-> None, tap |-> None]

-----------------------------------------------------------------------------
(* Recovery.                                                               *)

IsReconciled(x, nonce) ==
    nonce # 0 /\ ~x.disabled /\ x.recovery = 0 /\ x.previous = nonce

\* A plausible slip: only a session that was never reconciled asks again.
MutNeedsReconciliation(x) == x.disabled /\ x.recovery = 0 /\ x.previous = 0

NeedsReconciliation(x) == x.disabled /\ x.recovery = 0

\* A plausible slip: the proposal outlives its token.
MutInvalidateSpeculation(x) == [x EXCEPT !.seen = None, !.token = None, !.tap = None]

\* The matcher's part leaves every press with its owner.
InvalidateSpeculation(x) ==
    [x EXCEPT !.disabled = @ \/ x.pending # None, !.pending = None, !.seen = None,
              !.token = None, !.tap = None]

Disconnected(x) == [InvalidateSpeculation(x) EXCEPT !.recovery = 0, !.disabled = TRUE]

\* The caller's nonce is fresh: the bridge refuses one it has seen.
AwaitReconciliation(x, nonce) ==
    [InvalidateSpeculation(x) EXCEPT !.disabled = TRUE, !.recovery = nonce]

\* A focus or device change on a healthy connection waits for the next boundary.
AwaitLifecycle(x, nonce) ==
    IF x.disabled \/ x.pending # None \/ x.previous # nonce THEN x
    ELSE AwaitReconciliation(x, nonce)

\* The boundary: native holds nothing, so the matcher forgets everything.
Reconciled(x, nonce) ==
    [NewMatching EXCEPT !.previous = nonce]

RetireDevice(x, g) ==
    LET ours == x.pending # None /\ x.pending.press[1] = g
        lost == {p \in Press : p[1] = g}
    IN  [x EXCEPT !.pending = IF ours THEN None ELSE @,
                  !.disabled = @ \/ ours,
                  !.downs = @ \ lost,
                  !.owner = [p \in Press |-> IF p \in lost THEN "none" ELSE @[p]],
                  !.token = IF @ \in lost THEN None ELSE @,
                  !.tap = IF @ \in lost THEN None ELSE @]

\* A plausible slip: every lock keeps an enabled session.
MutObserveLockBoundary(x, nonce) == InvalidateSpeculation(x)

\* A lock keeps an armed wait and ends an enabled session.
ObserveLockBoundary(x, nonce) ==
    IF x.recovery = nonce /\ x.disabled /\ x.pending = None
    THEN InvalidateSpeculation(x) ELSE Disconnected(x)

\* An epoch that advanced while unlocked also keeps an enabled one.
ObserveUnlockedEpoch(x, nonce) ==
    IF IsReconciled(x, nonce) /\ x.pending = None
    THEN InvalidateSpeculation(x) ELSE ObserveLockBoundary(x, nonce)

-----------------------------------------------------------------------------
(* Proposals.                                                              *)

\* dispatch_device_with_delivery: the record and the verdict.
DispatchDown(x, p) ==
    LET other == x.tap \notin {None, p}
        seen == [x EXCEPT !.tap = IF p[2] \in Modifiers /\ ~other THEN p ELSE None]
    IN  CASE x.owner[p] = "forwarded" -> {[x |-> x, verdict |-> "Pass"]}
          [] x.owner[p] = "swallowed" -> {[x |-> x, verdict |-> "Swallow"]}
          [] x.owner[p] = "none" /\ p[2] \in Modifiers -> {[x |-> seen, verdict |-> "Pass"]}
          [] x.owner[p] = "none" /\ p[2] \notin Modifiers ->
                {[x |-> seen, verdict |-> "Pass"],
                 [x |-> [seen EXCEPT !.owner[p] = "swallowed", !.token = p], verdict |-> "Replace"]}

DispatchUp(x, p) ==
    LET up == [x EXCEPT !.owner[p] = "none", !.tap = IF @ = p THEN None ELSE @]
    IN  CASE x.owner[p] = "forwarded" -> {[x |-> up, verdict |-> "Pass"]}
          [] x.owner[p] = "swallowed" -> {[x |-> up, verdict |-> "Swallow"]}
          [] x.owner[p] = "none" ->
                {[x |-> up, verdict |-> "Pass"]} \cup
                (IF x.tap = p THEN {[x |-> [up EXCEPT !.token = p], verdict |-> "Replace"]} ELSE {})

\* observe_physical: input of another stream or keyboard breaks a tap.
ObservePhysical(x, p, kind) ==
    [x EXCEPT !.tap = IF x.seen = p[1] THEN @ ELSE None,
              !.seen = p[1],
              !.downs = IF kind = "Down" THEN @ \cup {p} ELSE @ \ {p}]

\* A key held beside a modifier disqualifies its tap.
Crowded(x, p) == p[2] \in Modifiers /\ x.downs \ {p} # {}

\* The decisions a verdict can become: an action the wire cannot express falls
\* back to Pass, an input source selection is swallowed once its queue took it.
DecisionFor(verdict, kind, sources) ==
    CASE verdict = "Pass" -> {"Pass"}
      [] verdict = "Swallow" -> {IF kind = "Up" THEN "Pass" ELSE "Swallow"}
      [] verdict = "Replace" -> {"Replace", "Pass"} \cup (IF sources THEN {"Swallow"} ELSE {})

\* propose_with_source: every record and decision it can end with.
Propose(x, p, kind, tapRelease, sources) ==
    LET o == IF tapRelease THEN ObservePhysical(x, p, kind) ELSE x
        same == [x |-> o, decision |-> "Pass"]
        dispatched == IF kind = "Down" THEN DispatchDown(o, p) ELSE DispatchUp(o, p)
    IN  IF x.pending # None \/ x.disabled THEN {[x |-> x, decision |-> "Pass"]}
        ELSE IF tapRelease /\ o.downs = x.downs THEN {same}
        ELSE UNION {
            LET alone == IF tapRelease /\ kind = "Down" /\ Crowded(o, p)
                         THEN [d.x EXCEPT !.tap = None] ELSE d.x
            IN  {[x |-> IF d.verdict = "Replace"
                        THEN [alone EXCEPT !.pending =
                                 [press |-> p, kind |-> kind, decision |-> decision]]
                        ELSE alone,
                  decision |-> decision] : decision \in DecisionFor(d.verdict, kind, sources)}
            : d \in dispatched}

-----------------------------------------------------------------------------
(* Deliveries.                                                             *)

\* report_delivery.
ReportDelivery(x, result) ==
    [x EXCEPT !.token = None,
              !.owner = IF result = "RejectedOriginalForwarded" /\ @[x.token] = "swallowed"
                        THEN [@ EXCEPT ![x.token] = "forwarded"] ELSE @]

\* What the outcome of a decision says of its token; no outcome is uncertain.
Delivered(decision, code) ==
    CASE decision = "Replace" /\ code = "Replaced" -> "Delivered"
      [] decision = "Swallow" /\ code = "Swallowed" -> "Delivered"
      [] code \in {"Rejected", "Timeout"} -> "RejectedOriginalForwarded"
      [] decision = "Pass" /\ code = "Admitted" -> "RejectedOriginalForwarded"
      [] OTHER -> "Uncertain"

OnDelivery(x, code) ==
    IF x.pending = None THEN x
    ELSE LET result == Delivered(x.pending.decision, code)
         IN  [ReportDelivery(x, result) EXCEPT !.pending = None,
                                               !.disabled = @ \/ result = "Uncertain"]

\* Repeats are inert; an acknowledged release clears the exact press.
SettleDeviceEvent(x, p, kind, code) ==
    IF kind = "Down" THEN x
    ELSE IF code \in {None, "Partial", "Replaced"} THEN [x EXCEPT !.disabled = TRUE]
    ELSE IF kind = "Repeat" THEN x
    ELSE [x EXCEPT !.pending = IF @ # None /\ x.pending.press = p THEN None ELSE @,
                   !.owner[p] = "none",
                   !.token = IF @ = p THEN None ELSE @,
                   !.tap = IF @ # None /\ x.tap[1] = p[1] THEN None ELSE @]

=============================================================================
