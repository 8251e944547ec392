------------------------------ MODULE Matcher ------------------------------
(***************************************************************************)
(* The stateful matcher of packages/core/src/rule.rs.  A backend calls it  *)
(* with physical key events; it answers with a verdict and keeps, for      *)
(* every physical press, who owns it until its release:                    *)
(*   swallowed  the matcher consumed the down (a replacement stands for it)*)
(*   forwarded  the replacement was rejected and the original forwarded    *)
(* A Replace verdict issues a one-shot delivery token; the backend settles *)
(* it with report_delivery, possibly late, twice, or after a reset.        *)
(*                                                                         *)
(* Every public operation is one action.  Callers are unconstrained: any   *)
(* event, any focus, any issued token, in any order.                       *)
(***************************************************************************)
EXTENDS TapFsm, Sequences

CONSTANTS
  Devices,        \* physical streams (DeviceId)
  Keys,           \* key codes, modifiers included
  Apps,           \* logical applications
  NoApp,          \* focused_app = None
  RuleSets,       \* the rule sets a reload may install
  EventMods,      \* the Modifiers values events carry
  NoFsms,         \* a device with no entry in tap_fsms
  MaxGeneration,  \* u64 token generations (checked_add panics past it)
  MaxNow          \* bound on the clock

VARIABLES
  rules,               \* the live RuleSet
  tap_fsms,            \* device -> one TapFsm per tap rule, or NoFsms
  modifier_state,      \* presses of modifier keys believed down
  swallowed_downs,
  forwarded_downs,
  pending_deliveries,  \* press -> generation of its unsettled token, 0 if none
  delivery_active,     \* cached: some token pending or some press forwarded
  delivery_generation,
  now,                 \* the Instant of the next call
  tokens,              \* auxiliary: every token issued
  settled,             \* auxiliary: the generations report_delivery accepted
  committed            \* auxiliary: presses whose replacement may have gone out

vars == <<rules, tap_fsms, modifier_state, swallowed_downs, forwarded_downs,
          pending_deliveries, delivery_active, delivery_generation, now,
          tokens, settled, committed>>

Press == Devices \X Keys
Kinds == {"KeyDown", "KeyUp", "ModifiersChanged"}
Deliveries == {"Delivered", "RejectedOriginalForwarded", "Uncertain"}
Event == [code : Keys, kind : Kinds, mods : EventMods]
Focus == Apps \cup {NoApp}    \* as a scope: when_app_in = None
Hotkey == [key : Keys, mods : SUBSET Bits, scope : SUBSET Apps \cup {Focus}]
TapRule == [tap : ModKeys, count : Nat, within : Nat, scope : SUBSET Apps \cup {Focus}]
RuleSet == [hotkeys : Seq(Hotkey), taps : Seq(TapRule)]
Token == [press : Press, generation : Nat]

ASSUME MatcherAssumption ==
  /\ ModKeys \subseteq Keys
  /\ NoApp \notin Apps
  /\ EventMods \subseteq SUBSET Bits
  /\ RuleSets \subseteq RuleSet
  /\ NoFsms \notin Seq(Fsm)
  /\ MaxGeneration \in Nat
  /\ MaxNow \in Nat

-----------------------------------------------------------------------------
(* Matching one event against the live rules. *)

\* RuleSet::scope_matches: unknown focus matches no scoped rule.
ScopeMatches(rule, app) == app \in rule.scope

\* RuleSet::hotkey_matches and the scan over hotkeys.
HotkeyHits(e, app) ==
  {i \in DOMAIN rules.hotkeys :
     /\ e.kind = "KeyDown"
     /\ e.code \notin ModKeys
     /\ e.code = rules.hotkeys[i].key
     /\ rules.hotkeys[i].mods \subseteq e.mods
     /\ ScopeMatches(rules.hotkeys[i], app)}

\* tap_fsms.entry(device).or_insert_with(...)
FsmsOf(d) ==
  IF tap_fsms[d] = NoFsms
  THEN [i \in 1..Len(rules.taps) |-> WithWindow(rules.taps[i].within)]
  ELSE tap_fsms[d]

IsDown(e) ==
  \/ e.kind = "KeyDown"
  \/ e.kind = "ModifiersChanged" /\ ModifierBit[e.code] \subseteq e.mods

\* Caps Lock flags carry no bit that could prove a transition.
Unproven(e) == e.kind = "ModifiersChanged" /\ ModifierBit[e.code] = {}

WasDown(d, e) == <<d, e.code>> \in modifier_state

\* A modifier goes down while another one of the device is down.
Overlaps(d, e) ==
  /\ IsDown(e)
  /\ ~WasDown(d, e)
  /\ \E k \in ModKeys \ {e.code} : <<d, k>> \in modifier_state

\* The tap rules a modifier event completes.
TapHits(d, e, app) ==
  {i \in DOMAIN rules.taps :
     /\ e.code \in ModKeys
     /\ ~Unproven(e)
     /\ ~Overlaps(d, e)
     /\ e.code = rules.taps[i].tap
     /\ Tapped(FsmsOf(d)[i], e.code, WasDown(d, e), IsDown(e), now) = rules.taps[i].count
     /\ ScopeMatches(rules.taps[i], app)}

First(S) == CHOOSE i \in S : \A j \in S : i <= j

-----------------------------------------------------------------------------
(* The verdict of dispatch_device, in the order of its early returns. *)

Transition(e) == e.kind # "ModifiersChanged"
OwnedForwarded(d, e) == delivery_active /\ Transition(e) /\ <<d, e.code>> \in forwarded_downs
OwnedSwallowed(d, e) == ~OwnedForwarded(d, e) /\ Transition(e) /\ <<d, e.code>> \in swallowed_downs
Matched(d, e) == ~OwnedForwarded(d, e) /\ ~OwnedSwallowed(d, e)

Verdict(d, e, app) ==
  CASE OwnedForwarded(d, e) -> <<"Pass">>
    [] OwnedSwallowed(d, e) -> <<"Swallow">>
    [] Matched(d, e) /\ TapHits(d, e, app) # {} -> <<"Replace", "tap", First(TapHits(d, e, app))>>
    [] Matched(d, e) /\ HotkeyHits(e, app) # {} -> <<"Replace", "hotkey", First(HotkeyHits(e, app))>>
    [] OTHER -> <<"Pass">>

Replaces(d, e, app) == Matched(d, e) /\ (TapHits(d, e, app) # {} \/ HotkeyHits(e, app) # {})

-----------------------------------------------------------------------------
(* reconcile_delivery_event and refresh_delivery_active. *)

ActiveFor(pending, forwarded) == forwarded # {} \/ \E p \in Press : pending[p] # 0

\* Only runs while delivery_active; a fresh down or any release retires the token.
PendingAfter(d, e) ==
  IF /\ delivery_active
     /\ e.kind # "KeyDown" \/ <<d, e.code>> \notin swallowed_downs \cup forwarded_downs
  THEN [pending_deliveries EXCEPT ![<<d, e.code>>] = 0]
  ELSE pending_deliveries

ForwardedAfter(d, e) ==
  IF delivery_active /\ e.kind = "KeyUp"
  THEN forwarded_downs \ {<<d, e.code>>}
  ELSE forwarded_downs

-----------------------------------------------------------------------------
(* dispatch_device: one disjunct per way out of it. *)

ForwardedEvent(d, e) ==
  /\ OwnedForwarded(d, e)
  /\ UNCHANGED <<tap_fsms, modifier_state, swallowed_downs>>

SwallowedEvent(d, e) ==
  /\ OwnedSwallowed(d, e)
  /\ swallowed_downs' = IF e.kind = "KeyUp" THEN swallowed_downs \ {<<d, e.code>>}
                                            ELSE swallowed_downs
  /\ UNCHANGED <<tap_fsms, modifier_state>>

\* Other input reaches every recogniser, or a modifier transition does.
Disqualified(fsms) == [i \in DOMAIN fsms |-> OnOtherKey(fsms[i])]

Advanced(d, e) ==
  [i \in DOMAIN FsmsOf(d) |->
     OnTransition(FsmsOf(d)[i], e.code, WasDown(d, e), IsDown(e), e.mods, now)]

ModifierEvent(d, e) ==
  /\ Matched(d, e)
  /\ e.code \in ModKeys
  /\ tap_fsms' = [tap_fsms EXCEPT ![d] =
                    IF Unproven(e) THEN FsmsOf(d)
                    ELSE IF Overlaps(d, e) THEN Disqualified(FsmsOf(d))
                    ELSE Advanced(d, e)]
  /\ modifier_state' = IF Unproven(e) THEN modifier_state
                       ELSE IF IsDown(e) THEN modifier_state \cup {<<d, e.code>>}
                       ELSE modifier_state \ {<<d, e.code>>}
  /\ UNCHANGED swallowed_downs

KeyEvent(d, e, app) ==
  /\ Matched(d, e)
  /\ e.code \notin ModKeys
  /\ tap_fsms' = [tap_fsms EXCEPT ![d] = IF e.kind = "KeyDown"
                                         THEN Disqualified(FsmsOf(d))
                                         ELSE FsmsOf(d)]
  /\ swallowed_downs' = IF HotkeyHits(e, app) # {}
                        THEN swallowed_downs \cup {<<d, e.code>>}
                        ELSE swallowed_downs
  /\ UNCHANGED modifier_state

\* A plausible slip: the cached flag is not raised with the token.
MutIssueToken(d, e) ==
  LET g == delivery_generation + 1
      p == <<d, e.code>>
  IN  /\ delivery_generation < MaxGeneration
      /\ delivery_generation' = g
      /\ pending_deliveries' = [PendingAfter(d, e) EXCEPT ![p] = g]
      /\ delivery_active' = delivery_active
      /\ tokens' = tokens \cup {[press |-> p, generation |-> g]}

\* dispatch_device_with_delivery attaches a token to a Replace verdict.
IssueToken(d, e) ==
  LET g == delivery_generation + 1
      p == <<d, e.code>>
  IN  /\ delivery_generation < MaxGeneration
      /\ delivery_generation' = g
      /\ pending_deliveries' = [PendingAfter(d, e) EXCEPT ![p] = g]
      /\ delivery_active' = TRUE
      /\ tokens' = tokens \cup {[press |-> p, generation |-> g]}

NoToken(d, e) ==
  /\ pending_deliveries' = PendingAfter(d, e)
  /\ delivery_active' = (delivery_active /\ ActiveFor(PendingAfter(d, e), ForwardedAfter(d, e)))
  /\ UNCHANGED <<delivery_generation, tokens>>

\* dispatch_device_with_delivery (tracked) and the legacy dispatch_device.
Dispatch(d, e, app, tracked) ==
  /\ \/ ForwardedEvent(d, e)
     \/ SwallowedEvent(d, e)
     \/ ModifierEvent(d, e)
     \/ KeyEvent(d, e, app)
  /\ forwarded_downs' = ForwardedAfter(d, e)
  /\ IF tracked /\ Replaces(d, e, app) THEN IssueToken(d, e) ELSE NoToken(d, e)
  /\ committed' = IF e.kind = "KeyUp" THEN committed \ {<<d, e.code>>} ELSE committed
  /\ UNCHANGED <<rules, now, settled>>

-----------------------------------------------------------------------------
(* The other operations. *)

Accepted(tok) == pending_deliveries[tok.press] = tok.generation

\* A rejected down goes back to the application; a release-triggered one owns nothing.
HandsBack(tok, delivery) ==
  delivery = "RejectedOriginalForwarded" /\ tok.press \in swallowed_downs

\* report_delivery: a stale, duplicate or reset token changes nothing.
ReportDelivery(tok, delivery) ==
  \/ ~Accepted(tok) /\ UNCHANGED vars
  \/ /\ Accepted(tok)
     /\ pending_deliveries' = [pending_deliveries EXCEPT ![tok.press] = 0]
     /\ IF HandsBack(tok, delivery)
        THEN /\ swallowed_downs' = swallowed_downs \ {tok.press}
             /\ forwarded_downs' = forwarded_downs \cup {tok.press}
        ELSE UNCHANGED <<swallowed_downs, forwarded_downs>>
     /\ delivery_active' = ActiveFor(pending_deliveries', forwarded_downs')
     /\ settled' = settled \cup {tok.generation}
     /\ committed' = IF delivery # "RejectedOriginalForwarded" /\ tok.press \in swallowed_downs
                     THEN committed \cup {tok.press} ELSE committed
     /\ UNCHANGED <<rules, tap_fsms, modifier_state, delivery_generation, now, tokens>>

MutSwapRulesForgets(rs) ==
  /\ rules' = rs
  /\ tap_fsms' = [d \in Devices |-> NoFsms]
  /\ swallowed_downs' = {}
  /\ UNCHANGED <<modifier_state, forwarded_downs, pending_deliveries, delivery_active,
                 delivery_generation, now, tokens, settled, committed>>

\* swap_rules: consumed presses stay owned across a reload.
SwapRules(rs) ==
  /\ rules' = rs
  /\ tap_fsms' = [d \in Devices |-> NoFsms]
  /\ UNCHANGED <<modifier_state, swallowed_downs, forwarded_downs, pending_deliveries,
                 delivery_active, delivery_generation, now, tokens, settled, committed>>

PendingPresses == {p \in Press : pending_deliveries[p] # 0}

\* invalidate_speculation: outstanding replacements become uncertain.
InvalidateSpeculation ==
  /\ tap_fsms' = [d \in Devices |-> NoFsms]
  /\ pending_deliveries' = [p \in Press |-> 0]
  /\ delivery_active' = ActiveFor(pending_deliveries', forwarded_downs)
  /\ committed' = committed \cup (PendingPresses \cap swallowed_downs)
  /\ UNCHANGED <<rules, modifier_state, swallowed_downs, forwarded_downs,
                 delivery_generation, now, tokens, settled>>

\* disqualify_taps
DisqualifyTaps ==
  /\ tap_fsms' = [d \in Devices |->
                    IF tap_fsms[d] = NoFsms THEN NoFsms ELSE Disqualified(tap_fsms[d])]
  /\ UNCHANGED <<rules, modifier_state, swallowed_downs, forwarded_downs, pending_deliveries,
                 delivery_active, delivery_generation, now, tokens, settled, committed>>

\* Every trace of the presses in gone is dropped.
Forget(gone) ==
  /\ modifier_state' = modifier_state \ gone
  /\ swallowed_downs' = swallowed_downs \ gone
  /\ forwarded_downs' = forwarded_downs \ gone
  /\ pending_deliveries' = [p \in Press |-> IF p \in gone THEN 0 ELSE pending_deliveries[p]]
  /\ delivery_active' = ActiveFor(pending_deliveries', forwarded_downs')
  /\ committed' = committed \ gone
  /\ UNCHANGED <<rules, delivery_generation, now, tokens, settled>>

\* settle_device_event: repeats change nothing, a release retires the exact press.
SettleDeviceEvent(d, e) ==
  \/ e.kind # "KeyUp" /\ UNCHANGED vars
  \/ /\ e.kind = "KeyUp"
     /\ Forget({<<d, e.code>>})
     /\ tap_fsms' = [tap_fsms EXCEPT ![d] = NoFsms]

\* A plausible slip: a lost stream takes the other streams' presses with it.
MutResetDevice(d) ==
  /\ Forget(Press)
  /\ tap_fsms' = [tap_fsms EXCEPT ![d] = NoFsms]

\* reset_device
ResetDevice(d) ==
  /\ Forget({d} \X Keys)
  /\ tap_fsms' = [tap_fsms EXCEPT ![d] = NoFsms]

\* reset: generations are never reused, even across a reset.
Reset ==
  /\ Forget(Press)
  /\ tap_fsms' = [d \in Devices |-> NoFsms]

\* Time passes between calls (Instant::now in the callers).
Tick ==
  /\ now < MaxNow
  /\ now' = now + 1
  /\ UNCHANGED <<rules, tap_fsms, modifier_state, swallowed_downs, forwarded_downs,
                 pending_deliveries, delivery_active, delivery_generation, tokens, settled, committed>>

-----------------------------------------------------------------------------
Init ==
  /\ rules \in RuleSets
  /\ tap_fsms = [d \in Devices |-> NoFsms]
  /\ modifier_state = {}
  /\ swallowed_downs = {}
  /\ forwarded_downs = {}
  /\ pending_deliveries = [p \in Press |-> 0]
  /\ delivery_active = FALSE
  /\ delivery_generation = 0
  /\ now = 0
  /\ tokens = {}
  /\ settled = {}
  /\ committed = {}

Next ==
  \/ \E d \in Devices, e \in Event, app \in Focus, tracked \in BOOLEAN :
       Dispatch(d, e, app, tracked)
  \/ \E tok \in tokens, delivery \in Deliveries : ReportDelivery(tok, delivery)
  \/ \E rs \in RuleSets : SwapRules(rs)
  \/ InvalidateSpeculation
  \/ DisqualifyTaps
  \/ \E d \in Devices, e \in Event : SettleDeviceEvent(d, e)
  \/ \E d \in Devices : ResetDevice(d)
  \/ Reset
  \/ Tick

Spec == Init /\ [][Next]_vars

-----------------------------------------------------------------------------
(* What the matcher promises. *)

\* Every variable keeps its type: recognisers are per device and per rule,
\* tap counts saturate, tokens and owned presses name real presses.
TypeOK ==
  /\ rules \in RuleSets
  /\ tap_fsms \in [Devices -> Seq(Fsm) \cup {NoFsms}]
  /\ modifier_state \subseteq Devices \X ModKeys
  /\ swallowed_downs \subseteq Devices \X (Keys \ ModKeys)
  /\ forwarded_downs \subseteq Devices \X (Keys \ ModKeys)
  /\ pending_deliveries \in [Press -> 0..MaxGeneration]
  /\ delivery_active \in BOOLEAN
  /\ delivery_generation \in 0..MaxGeneration
  /\ now \in 0..MaxNow
  /\ tokens \subseteq Token
  /\ settled \subseteq 1..MaxGeneration
  /\ committed \subseteq Press

\* The cached delivery_active flag, which decides whether dispatch looks at
\* forwarded and pending presses at all, is exact; and no press has two owners.
OwnershipInv ==
  /\ delivery_active <=> (forwarded_downs # {} \/ PendingPresses # {})
  /\ swallowed_downs \cap forwarded_downs = {}

\* Whatever the rules, focus and modifiers have become since the down, the
\* repeats and the release of a consumed press are swallowed and those of a
\* handed-back press pass: an application sees whole presses or nothing.
OwnedPressDecides ==
  \A p \in Press, e \in Event, app \in Focus :
    Transition(e) /\ e.code = p[2] =>
      /\ p \in swallowed_downs => Verdict(p[1], e, app) = <<"Swallow">>
      /\ p \in forwarded_downs => Verdict(p[1], e, app) = <<"Pass">>

\* Tokens are one-shot across releases, reloads and resets: once
\* report_delivery accepted a token's generation, that generation is pending nowhere.
SettledNeverPending ==
  \A p \in Press : pending_deliveries[p] \notin settled

\* "Delivered/uncertain results never permit original replay": a press whose
\* replacement was delivered, uncertain or invalidated while outstanding is
\* never handed back to the application, however late a rejection arrives.
NoReplayAfterCommit ==
  committed \cap forwarded_downs = {}

\* Each live recogniser list was built from the live rules: dispatch zips the
\* two lists, so a stale list would count one rule's taps with another's window.
FsmsMatchRules ==
  \A d \in Devices : tap_fsms[d] # NoFsms =>
    /\ Len(tap_fsms[d]) = Len(rules.taps)
    /\ \A i \in 1..Len(rules.taps) : tap_fsms[d][i].within = rules.taps[i].within

\* What may end the matcher's ownership of a consumed press.
Ends(p) ==
  \/ \E e \in Event, app \in Focus, tracked \in BOOLEAN :
       /\ e.kind = "KeyUp"
       /\ e.code = p[2]
       /\ Dispatch(p[1], e, app, tracked) \/ SettleDeviceEvent(p[1], e)
  \/ ResetDevice(p[1])
  \/ Reset

\* "A consumed physical press owns its repeats and release, including across
\* focus changes and config reload": it stops being consumed only at its own
\* release, at a reset of its stream, or by a rejection of its pending token.
ConsumedUntilRelease ==
  [][\A p \in swallowed_downs \ swallowed_downs' :
       (p \in PendingPresses /\ p \in forwarded_downs') \/ Ends(p)]_vars

\* What is in one set and not in the other.
Differ(S, T) == (S \ T) \cup (T \ S)

\* "Independent keyboards must not share press ownership": only the global
\* reset changes what two devices own or hold in one step.
DeviceIsolation ==
  [][LET moved == UNION {Differ(modifier_state, modifier_state'),
                         Differ(swallowed_downs, swallowed_downs'),
                         Differ(forwarded_downs, forwarded_downs')}
     IN  (\A p, q \in moved : p[1] = q[1]) \/ Reset]_vars

-----------------------------------------------------------------------------
(* The inductive invariant behind the properties above. *)

\* Generations grow: what is issued, pending or settled is at most the counter,
\* and a pending generation belongs to one press, the press of its token.
TokenInv ==
  /\ \A t \in tokens : t.generation \in 1..delivery_generation
  /\ \A p \in Press : pending_deliveries[p] <= delivery_generation
  /\ \A g \in settled : g <= delivery_generation
  /\ \A p, q \in PendingPresses : pending_deliveries[p] = pending_deliveries[q] => p = q
  /\ SettledNeverPending

\* A press whose replacement may have gone out is still consumed and has no
\* token left that a late rejection could use.
CommitInv ==
  \A p \in committed : p \in swallowed_downs /\ pending_deliveries[p] = 0

\* The matcher's bookkeeping of recognisers, owners, tokens and commitments
\* agrees after every operation; it implies the state properties above.
IInv == TypeOK /\ FsmsMatchRules /\ OwnershipInv /\ TokenInv /\ CommitInv

=============================================================================
