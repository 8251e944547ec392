--------------------------- MODULE MatchingProofs ---------------------------
(***************************************************************************)
(* Proofs about what decides a key event: the matcher, and the desktop     *)
(* integration whose focus and input source it is matched against.         *)
(*                                                                         *)
(* Matcher: for every set of keyboards, keys, applications, rules and      *)
(* bounds.                                                                 *)
(*                                                                         *)
(* Desktop: for every set of providers, of sources and of inventories,     *)
(* every FOCUS_TTL, every capacity of the source queue and every number of *)
(* restarts, the inductive invariant DesktopInv, one part of the state     *)
(* after the other, the freshness of the two caches, and that a selection  *)
(* which looks at the inventory again activates what was meant.            *)
(***************************************************************************)
EXTENDS Matcher, Desktop, TLAPS

-----------------------------------------------------------------------------
(* The recogniser's operators keep its type and its window. *)

\* A recogniser over the tap rules of the live rule set is well formed.
LEMMA WithWindowType ==
  ASSUME NEW w \in Nat
  PROVE  WithWindow(w) \in Fsm /\ WithWindow(w).within = w
BY CountAssumption DEF WithWindow, Fsm, NoTaps

\* on_other_key clears the counts and keeps the window.
LEMMA OnOtherKeyType ==
  ASSUME NEW f \in Fsm
  PROVE  OnOtherKey(f) \in Fsm /\ OnOtherKey(f).within = f.within
<1>1. NoTaps \in [ModKeys -> [count : 0..MaxCount, last_tap_at : Nat]]
  BY CountAssumption DEF NoTaps
<1>2. (f.tainted \/ f.active # NoKey) \in BOOLEAN
  OBVIOUS
<1>3. OnOtherKey(f) = [f EXCEPT !.states = NoTaps, !.tainted = f.tainted \/ f.active # NoKey]
  BY ZenonT(30) DEF OnOtherKey
<1> DEFINE b == f.tainted \/ f.active # NoKey
<1> HIDE DEF b
<1> QED BY ZenonT(30), <1>1, <1>2, <1>3 DEF Fsm, b

\* A press makes its key the candidate and keeps the window.
LEMMA OnPressType ==
  ASSUME NEW f \in Fsm, NEW key \in ModKeys, NEW mods
  PROVE  OnPress(f, key, mods) \in Fsm /\ OnPress(f, key, mods).within = f.within
<1> DEFINE g == IF f.active \in {NoKey, key} THEN f ELSE OnOtherKey(f)
<1>1. g \in Fsm /\ g.within = f.within
  BY ZenonT(30), OnOtherKeyType
<1>2. NoTaps \in [ModKeys -> [count : 0..MaxCount, last_tap_at : Nat]]
  BY CountAssumption DEF NoTaps
<1>3. [k \in ModKeys |-> IF k = key THEN g.states[k] ELSE NoTaps[k]]
         \in [ModKeys -> [count : 0..MaxCount, last_tap_at : Nat]]
  BY ZenonT(30), <1>1, <1>2 DEF Fsm
<1>4. CASE mods \ (ModifierBit[key] \cup GenericBit[key]) # {}
  BY ZenonT(30), <1>2, <1>4 DEF OnPress, Fsm
<1>5. CASE ~(mods \ (ModifierBit[key] \cup GenericBit[key]) # {})
  <2> HIDE DEF g
  <2>1. OnPress(f, key, mods) =
          [g EXCEPT !.states = [k \in ModKeys |-> IF k = key THEN g.states[k] ELSE NoTaps[k]],
                    !.active = key, !.tainted = FALSE]
    BY ZenonT(30), <1>5 DEF OnPress, g
  <2> QED BY ZenonT(30), <1>1, <1>3, <2>1 DEF Fsm
<1> QED BY ZenonT(30), <1>4, <1>5

\* A tap count is between one and the saturation bound.
LEMMA TapCountType ==
  ASSUME NEW f \in Fsm, NEW key \in ModKeys, NEW t \in Nat
  PROVE  TapCount(f, key, t) \in 1..MaxCount
<1>1. f.states[key].count \in 0..MaxCount
  BY ZenonT(30) DEF Fsm
<1> QED BY <1>1, CountAssumption DEF TapCount

\* A release counts at most one tap and keeps the window.
LEMMA OnReleaseType ==
  ASSUME NEW f \in Fsm, NEW key \in ModKeys, NEW t \in Nat
  PROVE  OnRelease(f, key, t) \in Fsm /\ OnRelease(f, key, t).within = f.within
<1>1. TapCount(f, key, t) \in 0..MaxCount
  BY TapCountType, CountAssumption
<1> DEFINE s == [count |-> TapCount(f, key, t), last_tap_at |-> t]
<1>2. [f.states EXCEPT ![key] = s] \in [ModKeys -> [count : 0..MaxCount, last_tap_at : Nat]]
  BY ZenonT(30), <1>1 DEF Fsm
<1>3. CASE IsTap(f, key)
  BY ZenonT(30), <1>2, <1>3 DEF OnRelease, Fsm
<1>4. CASE ~IsTap(f, key)
  BY ZenonT(30), <1>4 DEF OnRelease, Fsm
<1> QED BY ZenonT(30), <1>3, <1>4

\* Any transition keeps a recogniser well formed and its window unchanged.
LEMMA OnTransitionType ==
  ASSUME NEW f \in Fsm, NEW key \in ModKeys, NEW was, NEW is, NEW mods, NEW t \in Nat
  PROVE  /\ OnTransition(f, key, was, is, mods, t) \in Fsm
         /\ OnTransition(f, key, was, is, mods, t).within = f.within
BY ZenonT(30), OnPressType, OnReleaseType DEF OnTransition

-----------------------------------------------------------------------------
(* Lists of recognisers: one per tap rule, each with its rule's window. *)

Fits(fsms, taps) ==
  /\ fsms \in Seq(Fsm)
  /\ Len(fsms) = Len(taps)
  /\ \A i \in 1..Len(taps) : fsms[i].within = taps[i].within

\* A list built pointwise from a fitting list fits.
LEMMA FitsPointwise ==
  ASSUME NEW taps \in Seq(TapRule), NEW fsms, Fits(fsms, taps), NEW gs,
         gs = [i \in DOMAIN fsms |-> gs[i]],
         \A i \in DOMAIN fsms : gs[i] \in Fsm /\ gs[i].within = fsms[i].within
  PROVE  Fits(gs, taps)
BY DEF Fits

\* The live rules are a rule set.
LEMMA RulesType ==
  ASSUME TypeOK
  PROVE  rules \in RuleSet /\ rules.taps \in Seq(TapRule) /\ now \in Nat
BY MatcherAssumption DEF TypeOK, RuleSet

\* Every live list fits, and so does one created on demand.
LEMMA FsmsOfFits ==
  ASSUME TypeOK, FsmsMatchRules, NEW d \in Devices
  PROVE  Fits(FsmsOf(d), rules.taps)
<1>1. rules.taps \in Seq(TapRule)
  BY ZenonT(30), RulesType
<1>2. CASE tap_fsms[d] = NoFsms
  <2>1. \A i \in 1..Len(rules.taps) : rules.taps[i].within \in Nat
    <3>1. \A i \in 1..Len(rules.taps) : rules.taps[i] \in TapRule
      BY <1>1
    <3> QED BY ZenonT(30), <3>1 DEF TapRule
  <2>2. \A i \in 1..Len(rules.taps) : WithWindow(rules.taps[i].within) \in Fsm
                                   /\ WithWindow(rules.taps[i].within).within = rules.taps[i].within
    BY ZenonT(30), <2>1, WithWindowType
  <2>3. FsmsOf(d) = [i \in 1..Len(rules.taps) |-> WithWindow(rules.taps[i].within)]
    BY ZenonT(30), <1>2 DEF FsmsOf
  <2> QED BY <1>1, <2>2, <2>3 DEF Fits
<1>3. CASE tap_fsms[d] # NoFsms
  BY ZenonT(30), <1>3 DEF FsmsOf, TypeOK, FsmsMatchRules, Fits
<1> QED BY ZenonT(30), <1>2, <1>3

\* Other input keeps a list fitting.
LEMMA DisqualifiedFits ==
  ASSUME NEW taps \in Seq(TapRule), NEW fsms, Fits(fsms, taps)
  PROVE  Fits(Disqualified(fsms), taps)
<1>1. \A i \in DOMAIN fsms : fsms[i] \in Fsm
  BY DEF Fits
<1>2. \A i \in DOMAIN fsms : OnOtherKey(fsms[i]) \in Fsm
                            /\ OnOtherKey(fsms[i]).within = fsms[i].within
  BY ZenonT(30), <1>1, OnOtherKeyType
<1> QED BY ZenonT(30), <1>2, FitsPointwise DEF Disqualified

\* A modifier transition keeps a device's list fitting.
LEMMA AdvancedFits ==
  ASSUME TypeOK, FsmsMatchRules, NEW d \in Devices, NEW e \in Event, e.code \in ModKeys
  PROVE  Fits(Advanced(d, e), rules.taps)
<1>1. Fits(FsmsOf(d), rules.taps) /\ rules.taps \in Seq(TapRule) /\ now \in Nat
  BY ZenonT(30), FsmsOfFits, RulesType
<1>2. \A i \in DOMAIN FsmsOf(d) : FsmsOf(d)[i] \in Fsm
  BY <1>1 DEF Fits
<1>3. \A i \in DOMAIN FsmsOf(d) :
        /\ OnTransition(FsmsOf(d)[i], e.code, WasDown(d, e), IsDown(e), e.mods, now) \in Fsm
        /\ OnTransition(FsmsOf(d)[i], e.code, WasDown(d, e), IsDown(e), e.mods, now).within
             = FsmsOf(d)[i].within
  BY <1>1, <1>2, OnTransitionType
<1> QED BY ZenonT(30), <1>1, <1>3, FitsPointwise DEF Advanced

\* A device's list after a dispatched event, if the event reached it.
LEMMA DispatchFits ==
  ASSUME TypeOK, FsmsMatchRules, NEW d \in Devices, NEW e \in Event, NEW app \in Focus,
         NEW tracked \in BOOLEAN, Dispatch(d, e, app, tracked)
  PROVE  \/ tap_fsms' = tap_fsms
         \/ \E fs : tap_fsms' = [tap_fsms EXCEPT ![d] = fs] /\ Fits(fs, rules.taps)
<1>1. Fits(FsmsOf(d), rules.taps) /\ rules.taps \in Seq(TapRule)
  BY ZenonT(30), FsmsOfFits, RulesType
<1>2. Fits(Disqualified(FsmsOf(d)), rules.taps)
  BY ZenonT(30), <1>1, DisqualifiedFits
<1>3. CASE ForwardedEvent(d, e) \/ SwallowedEvent(d, e)
  BY ZenonT(30), <1>3 DEF ForwardedEvent, SwallowedEvent
<1>4. CASE ModifierEvent(d, e)
  <2>1. Fits(Advanced(d, e), rules.taps)
    BY ZenonT(30), <1>4, AdvancedFits DEF ModifierEvent
  <2> QED BY ZenonT(30), <1>1, <1>2, <1>4, <2>1 DEF ModifierEvent
<1>5. CASE KeyEvent(d, e, app)
  BY ZenonT(30), <1>1, <1>2, <1>5 DEF KeyEvent
<1> QED BY ZenonT(30), <1>3, <1>4, <1>5 DEF Dispatch

-----------------------------------------------------------------------------
(* Each part of the inductive invariant is preserved, action by action. *)

\* Types and recogniser lists.
LEMMA TypeStep ==
  ASSUME TypeOK, FsmsMatchRules, TokenInv, [Next]_vars
  PROVE  TypeOK' /\ FsmsMatchRules'
<1> USE MatcherAssumption
<1>1. ASSUME NEW d \in Devices, NEW e \in Event, NEW app \in Focus, NEW tracked \in BOOLEAN,
             Dispatch(d, e, app, tracked)
      PROVE  TypeOK' /\ FsmsMatchRules'
  <2>1. e.code \in Keys /\ <<d, e.code>> \in Press
    BY ZenonT(30) DEF Event, Press
  <2>2. rules' = rules /\ now' = now /\ settled' = settled
    BY ZenonT(30), <1>1 DEF Dispatch
  <2>3. tap_fsms' \in [Devices -> Seq(Fsm) \cup {NoFsms}] /\ FsmsMatchRules'
    <3>1. CASE tap_fsms' = tap_fsms
      BY ZenonT(30), <2>2, <3>1 DEF TypeOK, FsmsMatchRules
    <3>2. ASSUME NEW fs, tap_fsms' = [tap_fsms EXCEPT ![d] = fs], Fits(fs, rules.taps)
          PROVE  tap_fsms' \in [Devices -> Seq(Fsm) \cup {NoFsms}] /\ FsmsMatchRules'
      <4>1. tap_fsms' \in [Devices -> Seq(Fsm) \cup {NoFsms}]
        BY ZenonT(30), <3>2 DEF TypeOK, Fits
      <4>2. tap_fsms'[d] = fs /\ \A x \in Devices : x # d => tap_fsms'[x] = tap_fsms[x]
        BY ZenonT(30), <3>2 DEF TypeOK
      <4> QED BY ZenonT(30), <2>2, <3>2, <4>1, <4>2 DEF FsmsMatchRules, Fits
    <3> QED BY SMTT(30), <1>1, <3>1, <3>2, DispatchFits
  <2>4. modifier_state' \subseteq Devices \X ModKeys
    BY SMTT(30), <1>1 DEF Dispatch, ForwardedEvent, SwallowedEvent, ModifierEvent, KeyEvent, TypeOK
  <2>5. swallowed_downs' \subseteq Devices \X (Keys \ ModKeys)
    BY SMTT(30), <1>1, <2>1 DEF Dispatch, ForwardedEvent, SwallowedEvent, ModifierEvent, KeyEvent, TypeOK
  <2>6. forwarded_downs' \subseteq Devices \X (Keys \ ModKeys)
    BY ZenonT(30), <1>1 DEF Dispatch, ForwardedAfter, TypeOK
  <2>7. PendingAfter(d, e) \in [Press -> 0..MaxGeneration]
    BY <2>1 DEF PendingAfter, TypeOK
  <2>8. /\ pending_deliveries' \in [Press -> 0..MaxGeneration]
        /\ delivery_active' \in BOOLEAN
        /\ delivery_generation' \in 0..MaxGeneration
        /\ tokens' \subseteq Token
    <3>1. CASE IssueToken(d, e)
      <4>1. delivery_generation + 1 \in 0..MaxGeneration
        BY <3>1 DEF IssueToken, TypeOK
      <4>2. pending_deliveries' \in [Press -> 0..MaxGeneration] /\ delivery_active' = TRUE
        BY ZenonT(30), <2>7, <3>1, <4>1 DEF IssueToken
      <4>3. tokens' \subseteq Token
        <5>1. [press |-> <<d, e.code>>, generation |-> delivery_generation + 1] \in Token
          BY <2>1, <4>1 DEF Token
        <5>2. tokens' = tokens \cup {[press |-> <<d, e.code>>, generation |-> delivery_generation + 1]}
          BY ZenonT(30), <3>1 DEF IssueToken
        <5> QED BY ZenonT(30), <5>1, <5>2 DEF TypeOK
      <4> QED BY ZenonT(30), <3>1, <4>1, <4>2, <4>3 DEF IssueToken
    <3>2. CASE NoToken(d, e)
      BY ZenonT(30), <2>7, <3>2 DEF NoToken, TypeOK
    <3> QED BY ZenonT(30), <1>1, <3>1, <3>2 DEF Dispatch
  <2>9. committed' \subseteq Press
    BY ZenonT(30), <1>1 DEF Dispatch, TypeOK
  <2> QED BY ZenonT(30), <2>2, <2>3, <2>4, <2>5, <2>6, <2>8, <2>9 DEF TypeOK
<1>2. ASSUME NEW tok \in tokens, NEW delivery \in Deliveries, ReportDelivery(tok, delivery)
      PROVE  TypeOK' /\ FsmsMatchRules'
  <2>1. CASE UNCHANGED vars
    BY ZenonT(30), <2>1 DEF vars, TypeOK, FsmsMatchRules
  <2>2. CASE ~UNCHANGED vars
    <3>1. tok.generation \in 1..MaxGeneration /\ tok.press \in Press
      BY DEF TokenInv, TypeOK, Token
    <3>2. tap_fsms' = tap_fsms /\ rules' = rules
      BY ZenonT(30), <1>2, <2>2 DEF ReportDelivery
    <3>3. FsmsMatchRules'
      BY ZenonT(30), <3>2 DEF FsmsMatchRules
    <3>4. /\ settled' \subseteq 1..MaxGeneration
          /\ committed' \subseteq Press
          /\ pending_deliveries' \in [Press -> 0..MaxGeneration]
      <4>1. pending_deliveries' = [pending_deliveries EXCEPT ![tok.press] = 0]
        BY ZenonT(30), <1>2, <2>2 DEF ReportDelivery
      <4>2. settled' = settled \cup {tok.generation}
        BY ZenonT(30), <1>2, <2>2 DEF ReportDelivery
      <4>3. committed' \subseteq committed \cup {tok.press}
        BY ZenonT(30), <1>2, <2>2 DEF ReportDelivery
      <4>4. pending_deliveries' \in [Press -> 0..MaxGeneration]
        BY <3>1, <4>1 DEF TypeOK
      <4>5. settled' \subseteq 1..MaxGeneration
        BY ZenonT(30), <3>1, <4>2 DEF TypeOK
      <4>6. committed' \subseteq Press
        BY ZenonT(30), <3>1, <4>3 DEF TypeOK
      <4> QED BY ZenonT(30), <4>4, <4>5, <4>6
    <3>6. delivery_active' \in BOOLEAN
      BY ZenonT(30), <1>2, <2>2, Zenon DEF ReportDelivery, ActiveFor
    <3>5. /\ swallowed_downs' \subseteq Devices \X (Keys \ ModKeys)
          /\ forwarded_downs' \subseteq Devices \X (Keys \ ModKeys)
      BY SMTT(30), <1>2, <2>2 DEF ReportDelivery, HandsBack, TypeOK
    <3> QED BY ZenonT(30), <1>2, <2>2, <3>2, <3>3, <3>4, <3>5, <3>6 DEF ReportDelivery, TypeOK
  <2> QED BY ZenonT(30), <2>1, <2>2
<1>3. ASSUME NEW rs \in RuleSets, SwapRules(rs)
      PROVE  TypeOK' /\ FsmsMatchRules'
  BY ZenonT(30), <1>3 DEF SwapRules, TypeOK, FsmsMatchRules
<1>4. CASE InvalidateSpeculation
  BY SMTT(30), <1>4 DEF InvalidateSpeculation, TypeOK, FsmsMatchRules, PendingPresses, ActiveFor
<1>5. CASE DisqualifyTaps
  <2>1. rules' = rules /\ rules.taps \in Seq(TapRule)
    BY ZenonT(30), <1>5, RulesType DEF DisqualifyTaps
  <2>2. \A d \in Devices : tap_fsms[d] # NoFsms => Fits(tap_fsms[d], rules.taps)
    BY ZenonT(30) DEF TypeOK, FsmsMatchRules, Fits
  <2>3. \A d \in Devices : tap_fsms[d] # NoFsms => Fits(Disqualified(tap_fsms[d]), rules.taps)
    BY ZenonT(30), <2>1, <2>2, DisqualifiedFits
  <2>4. tap_fsms' \in [Devices -> Seq(Fsm) \cup {NoFsms}] /\ FsmsMatchRules'
    BY ZenonT(30), <1>5, <2>1, <2>3 DEF DisqualifyTaps, FsmsMatchRules, Fits
  <2> QED BY ZenonT(30), <1>5, <2>4 DEF DisqualifyTaps, TypeOK
<1>6. ASSUME NEW gone, Forget(gone),
             tap_fsms' \in [Devices -> Seq(Fsm) \cup {NoFsms}],
             \A d \in Devices : tap_fsms'[d] \in {NoFsms, tap_fsms[d]}
      PROVE  TypeOK' /\ FsmsMatchRules'
  BY SMTT(30), <1>6 DEF Forget, TypeOK, FsmsMatchRules, ActiveFor
<1>7. ASSUME NEW d \in Devices, NEW e \in Event, SettleDeviceEvent(d, e)
      PROVE  TypeOK' /\ FsmsMatchRules'
  <2>1. CASE UNCHANGED vars
    BY ZenonT(30), <2>1 DEF vars, TypeOK, FsmsMatchRules
  <2>2. CASE ~UNCHANGED vars
    BY ZenonT(30), <1>6, <1>7, <2>2 DEF SettleDeviceEvent, TypeOK
  <2> QED BY ZenonT(30), <2>1, <2>2
<1>8. ASSUME NEW d \in Devices, ResetDevice(d)
      PROVE  TypeOK' /\ FsmsMatchRules'
  BY ZenonT(30), <1>6, <1>8 DEF ResetDevice, TypeOK
<1>9. CASE Reset
  BY ZenonT(30), <1>6, <1>9 DEF Reset, TypeOK
<1>10. CASE Tick
  BY SMTT(30), <1>10 DEF Tick, TypeOK, FsmsMatchRules
<1>11. CASE UNCHANGED vars
  BY ZenonT(30), <1>11 DEF vars, TypeOK, FsmsMatchRules
<1> QED BY ZenonT(30), <1>1, <1>2, <1>3, <1>4, <1>5, <1>7, <1>8, <1>9, <1>10, <1>11 DEF Next

\* The cached flag is exact and no press has two owners.
LEMMA OwnershipStep ==
  ASSUME TypeOK, OwnershipInv, TokenInv, [Next]_vars
  PROVE  OwnershipInv'
<1>1. ASSUME NEW d \in Devices, NEW e \in Event, NEW app \in Focus, NEW tracked \in BOOLEAN,
             Dispatch(d, e, app, tracked)
      PROVE  OwnershipInv'
  <2> DEFINE p == <<d, e.code>>
  <2>1. p \in Press /\ pending_deliveries \in [Press -> Nat] /\ delivery_generation \in Nat
    BY MatcherAssumption DEF Event, Press, TypeOK
  <2>2. PendingAfter(d, e) \in [Press -> Nat]
    BY ZenonT(30), <2>1 DEF PendingAfter
  <2>3. forwarded_downs' = ForwardedAfter(d, e) /\ ForwardedAfter(d, e) \subseteq forwarded_downs
    BY ZenonT(30), <1>1 DEF Dispatch, ForwardedAfter
  <2>4. delivery_active' <=> (forwarded_downs' # {} \/ PendingPresses' # {})
    <3>1. CASE IssueToken(d, e)
      <4>1. pending_deliveries'[p] = delivery_generation + 1
        BY ZenonT(30), <2>1, <2>2, <3>1 DEF IssueToken
      <4>2. p \in PendingPresses'
        BY <2>1, <4>1 DEF PendingPresses
      <4> QED BY ZenonT(30), <3>1, <4>2 DEF IssueToken
    <3>2. CASE NoToken(d, e)
      <4>1. CASE delivery_active
        BY ZenonT(30), <2>3, <3>2, <4>1 DEF NoToken, ActiveFor, PendingPresses
      <4>2. CASE ~delivery_active
        BY ZenonT(30), <2>3, <3>2, <4>2 DEF NoToken, PendingAfter, PendingPresses, OwnershipInv
      <4> QED BY ZenonT(30), <4>1, <4>2
    <3> QED BY ZenonT(30), <1>1, <3>1, <3>2 DEF Dispatch
  <2>5. swallowed_downs' \cap forwarded_downs' = {}
    <3>1. CASE swallowed_downs' \subseteq swallowed_downs
      BY ZenonT(30), <2>3, <3>1 DEF OwnershipInv
    <3>2. CASE KeyEvent(d, e, app) /\ HotkeyHits(e, app) # {}
      <4>1. e.kind = "KeyDown" /\ p \notin forwarded_downs
        BY ZenonT(30), <3>2 DEF KeyEvent, HotkeyHits, Matched, OwnedForwarded, OwnedSwallowed, Transition, OwnershipInv
      <4> QED BY ZenonT(30), <2>3, <3>2, <4>1 DEF KeyEvent, OwnershipInv
    <3> QED BY ZenonT(30), <1>1, <3>1, <3>2 DEF Dispatch, ForwardedEvent, SwallowedEvent, ModifierEvent, KeyEvent
  <2> QED BY ZenonT(30), <2>4, <2>5 DEF OwnershipInv
<1>2. ASSUME NEW tok \in tokens, NEW delivery \in Deliveries, ReportDelivery(tok, delivery)
      PROVE  OwnershipInv'
  BY ZenonT(30), <1>2 DEF ReportDelivery, HandsBack, ActiveFor, PendingPresses, OwnershipInv, vars
<1>3. ASSUME NEW rs \in RuleSets, SwapRules(rs)
      PROVE  OwnershipInv'
  BY ZenonT(30), <1>3 DEF SwapRules, OwnershipInv, PendingPresses
<1>4. CASE InvalidateSpeculation
  BY ZenonT(30), <1>4 DEF InvalidateSpeculation, OwnershipInv, PendingPresses, ActiveFor
<1>5. CASE DisqualifyTaps
  BY ZenonT(30), <1>5 DEF DisqualifyTaps, OwnershipInv, PendingPresses
<1>6. ASSUME NEW gone, Forget(gone)
      PROVE  OwnershipInv'
  BY ZenonT(30), <1>6 DEF Forget, OwnershipInv, PendingPresses, ActiveFor
<1>7. ASSUME NEW d \in Devices, NEW e \in Event, SettleDeviceEvent(d, e)
      PROVE  OwnershipInv'
  BY ZenonT(30), <1>6, <1>7 DEF SettleDeviceEvent, vars, OwnershipInv, PendingPresses
<1>8. CASE Tick \/ UNCHANGED vars
  BY ZenonT(30), <1>8 DEF Tick, vars, OwnershipInv, PendingPresses
<1> QED BY ZenonT(30), <1>1, <1>2, <1>3, <1>4, <1>5, <1>6, <1>7, <1>8 DEF Next, ResetDevice, Reset

\* Tokens stay one-shot.
LEMMA TokenStep ==
  ASSUME TypeOK, TokenInv, [Next]_vars
  PROVE  TokenInv'
<1> USE DEF SettledNeverPending
<1>0. /\ pending_deliveries \in [Press -> Nat]
      /\ delivery_generation \in Nat
      /\ \A g \in settled : g \in Nat /\ g # 0
      /\ \A t \in tokens : t.press \in Press /\ t.generation \in Nat
  BY MatcherAssumption DEF TypeOK, Token
\* Dropping tokens is harmless.
<1>1. ASSUME /\ delivery_generation' = delivery_generation
             /\ tokens' = tokens
             /\ settled' = settled
             /\ pending_deliveries' \in [Press -> Nat]
             /\ \A p \in Press : pending_deliveries'[p] \in {0, pending_deliveries[p]}
      PROVE  TokenInv'
  BY <1>0, <1>1 DEF TokenInv, PendingPresses
<1>2. ASSUME NEW d \in Devices, NEW e \in Event, NEW app \in Focus, NEW tracked \in BOOLEAN,
             Dispatch(d, e, app, tracked)
      PROVE  TokenInv'
  <2> DEFINE p == <<d, e.code>>
  <2>1. p \in Press
    BY ZenonT(30) DEF Event, Press
  <2>2. /\ PendingAfter(d, e) \in [Press -> Nat]
        /\ \A q \in Press : PendingAfter(d, e)[q] \in {0, pending_deliveries[q]}
    BY ZenonT(30), <1>0, <2>1 DEF PendingAfter
  <2>3. CASE IssueToken(d, e)
    <3> DEFINE g == delivery_generation + 1
    <3>1. /\ delivery_generation' = g
          /\ tokens' = tokens \cup {[press |-> p, generation |-> g]}
          /\ settled' = settled
          /\ pending_deliveries' = [PendingAfter(d, e) EXCEPT ![p] = g]
      BY ZenonT(30), <1>2, <2>3 DEF IssueToken, Dispatch
    <3>2. /\ pending_deliveries'[p] = g
          /\ \A q \in Press : q # p => pending_deliveries'[q] \in {0, pending_deliveries[q]}
      BY ZenonT(30), <2>1, <2>2, <3>1
    <3>3. \A t \in tokens' : t.generation \in 1..delivery_generation'
      BY SMTT(30), <1>0, <3>1 DEF TokenInv
    <3>4. \A q \in Press : pending_deliveries'[q] <= delivery_generation'
      BY SMTT(30), <1>0, <3>1, <3>2 DEF TokenInv
    <3>5. \A q, r \in PendingPresses' : pending_deliveries'[q] = pending_deliveries'[r] => q = r
      BY SMTT(30), <1>0, <3>1, <3>2 DEF TokenInv, PendingPresses
    <3>6. \A h \in settled' : h <= delivery_generation'
      BY SMTT(30), <1>0, <3>1 DEF TokenInv
    <3>7. SettledNeverPending'
      BY SMTT(30), <1>0, <3>1, <3>2 DEF TokenInv
    <3> QED BY ZenonT(30), <3>3, <3>4, <3>5, <3>6, <3>7 DEF TokenInv
  <2>4. CASE NoToken(d, e)
    BY ZenonT(30), <1>1, <1>2, <2>2, <2>4 DEF NoToken, Dispatch
  <2> QED BY ZenonT(30), <1>2, <2>3, <2>4 DEF Dispatch
<1>3. ASSUME NEW tok \in tokens, NEW delivery \in Deliveries, ReportDelivery(tok, delivery)
      PROVE  TokenInv'
  <2>1. CASE UNCHANGED vars
    BY ZenonT(30), <1>0, <1>1, <2>1 DEF vars
  <2>2. CASE ~UNCHANGED vars
    <3>1. /\ pending_deliveries[tok.press] = tok.generation
          /\ pending_deliveries' = [pending_deliveries EXCEPT ![tok.press] = 0]
          /\ settled' = settled \cup {tok.generation}
          /\ delivery_generation' = delivery_generation
          /\ tokens' = tokens
      BY ZenonT(30), <1>3, <2>2 DEF ReportDelivery, Accepted
    <3>2. tok.press \in PendingPresses /\ tok.generation # 0 /\ tok.generation <= delivery_generation
      BY <1>0, <3>1 DEF TokenInv, PendingPresses
    <3>3. \A q \in Press : pending_deliveries'[q] = IF q = tok.press THEN 0 ELSE pending_deliveries[q]
      BY ZenonT(30), <1>0, <3>1
    <3>4. SettledNeverPending'
      BY ZenonT(30), <1>0, <3>1, <3>2, <3>3 DEF TokenInv, PendingPresses
    <3> QED BY SMTT(30), <1>0, <3>1, <3>2, <3>3, <3>4 DEF TokenInv, PendingPresses
  <2> QED BY ZenonT(30), <2>1, <2>2
<1>4. ASSUME NEW rs \in RuleSets, SwapRules(rs)
      PROVE  TokenInv'
  BY ZenonT(30), <1>0, <1>1, <1>4 DEF SwapRules
<1>5. CASE InvalidateSpeculation
  BY ZenonT(30), <1>1, <1>5 DEF InvalidateSpeculation
<1>6. ASSUME NEW gone, Forget(gone)
      PROVE  TokenInv'
  BY ZenonT(30), <1>0, <1>1, <1>6 DEF Forget
<1>7. ASSUME NEW d \in Devices, NEW e \in Event, SettleDeviceEvent(d, e)
      PROVE  TokenInv'
  BY ZenonT(30), <1>0, <1>1, <1>6, <1>7 DEF SettleDeviceEvent, vars
<1>8. CASE DisqualifyTaps \/ Tick \/ UNCHANGED vars
  BY ZenonT(30), <1>0, <1>1, <1>8 DEF DisqualifyTaps, Tick, vars
<1> QED BY ZenonT(30), <1>2, <1>3, <1>4, <1>5, <1>6, <1>7, <1>8 DEF Next, ResetDevice, Reset

\* A replacement that may have gone out keeps its press consumed and tokenless.
LEMMA CommitStep ==
  ASSUME TypeOK, OwnershipInv, TokenInv, CommitInv, [Next]_vars
  PROVE  CommitInv'
<1>1. ASSUME NEW d \in Devices, NEW e \in Event, NEW app \in Focus, NEW tracked \in BOOLEAN,
             Dispatch(d, e, app, tracked)
      PROVE  CommitInv'
  <2> DEFINE p == <<d, e.code>>
  <2>1. p \in Press /\ committed \subseteq Press /\ pending_deliveries \in [Press -> Nat]
    BY SMTT(30), MatcherAssumption DEF Event, Press, TypeOK
  <2>2. committed' \subseteq committed /\ (e.kind = "KeyUp" => p \notin committed')
    BY ZenonT(30), <1>1 DEF Dispatch
  <2>3. \A q \in committed' : q \in swallowed_downs'
    BY ZenonT(30), <1>1, <2>2 DEF Dispatch, ForwardedEvent, SwallowedEvent, ModifierEvent, KeyEvent, CommitInv
  <2>4. \A q \in Press : PendingAfter(d, e)[q] \in {0, pending_deliveries[q]}
    BY ZenonT(30), <2>1 DEF PendingAfter
  <2>5. CASE NoToken(d, e)
    BY ZenonT(30), <2>1, <2>2, <2>3, <2>4, <2>5 DEF NoToken, CommitInv
  <2>6. CASE IssueToken(d, e) /\ Replaces(d, e, app)
    <3>1. p \notin committed'
      <4>1. CASE TapHits(d, e, app) # {}
        BY ZenonT(30), <2>2, <4>1 DEF TapHits, CommitInv, TypeOK
      <4>2. CASE HotkeyHits(e, app) # {}
        BY ZenonT(30), <2>2, <2>6, <4>2 DEF HotkeyHits, CommitInv, OwnershipInv,
           Replaces, Matched, OwnedSwallowed, OwnedForwarded, Transition
      <4> QED BY ZenonT(30), <2>6, <4>1, <4>2 DEF Replaces
    <3>2. PendingAfter(d, e) \in [Press -> Nat]
      BY ZenonT(30), <2>1 DEF PendingAfter
    <3>3. \A q \in Press : q # p => pending_deliveries'[q] \in {0, pending_deliveries[q]}
      BY ZenonT(30), <2>1, <2>4, <2>6, <3>2 DEF IssueToken
    <3> QED BY ZenonT(30), <2>1, <2>2, <2>3, <3>1, <3>3 DEF CommitInv
  <2> QED BY ZenonT(30), <1>1, <2>5, <2>6 DEF Dispatch
<1>2. ASSUME NEW tok \in tokens, NEW delivery \in Deliveries, ReportDelivery(tok, delivery)
      PROVE  CommitInv'
  <2>1. CASE UNCHANGED vars
    BY ZenonT(30), <2>1 DEF vars, CommitInv
  <2>2. CASE ~UNCHANGED vars
    <3>1. /\ pending_deliveries[tok.press] = tok.generation
          /\ pending_deliveries' = [pending_deliveries EXCEPT ![tok.press] = 0]
      BY ZenonT(30), <1>2, <2>2 DEF ReportDelivery, Accepted
    <3>2. tok.press \in Press /\ tok.generation \in Nat /\ pending_deliveries \in [Press -> Nat]
      BY SMTT(30), MatcherAssumption DEF TypeOK, Token
    <3>3. \A q \in Press : pending_deliveries'[q] \in {0, pending_deliveries[q]}
                          /\ pending_deliveries'[tok.press] = 0
      BY ZenonT(30), <3>1, <3>2
    <3>4. CASE HandsBack(tok, delivery)
      <4>1. tok.press \notin committed
        BY SMTT(30), <3>1, <3>2 DEF TokenInv, CommitInv, TypeOK
      <4>2. committed' = committed /\ swallowed_downs' = swallowed_downs \ {tok.press}
        BY ZenonT(30), <1>2, <2>2, <3>4 DEF ReportDelivery, HandsBack
      <4> QED BY ZenonT(30), <3>3, <4>1, <4>2 DEF CommitInv, TypeOK
    <3>5. CASE ~HandsBack(tok, delivery)
      BY ZenonT(30), <1>2, <2>2, <3>2, <3>3, <3>5 DEF ReportDelivery, HandsBack, CommitInv, TypeOK
    <3> QED BY ZenonT(30), <3>4, <3>5
  <2> QED BY ZenonT(30), <2>1, <2>2
<1>3. ASSUME NEW rs \in RuleSets, SwapRules(rs)
      PROVE  CommitInv'
  BY ZenonT(30), <1>3 DEF SwapRules, CommitInv
<1>4. CASE InvalidateSpeculation
  BY ZenonT(30), <1>4 DEF InvalidateSpeculation, PendingPresses, CommitInv, TypeOK
<1>5. ASSUME NEW gone, Forget(gone)
      PROVE  CommitInv'
  BY ZenonT(30), <1>5 DEF Forget, CommitInv, TypeOK
<1>6. ASSUME NEW d \in Devices, NEW e \in Event, SettleDeviceEvent(d, e)
      PROVE  CommitInv'
  BY ZenonT(30), <1>5, <1>6 DEF SettleDeviceEvent, vars, CommitInv
<1>7. CASE DisqualifyTaps \/ Tick \/ UNCHANGED vars
  BY ZenonT(30), <1>7 DEF DisqualifyTaps, Tick, vars, CommitInv
<1> QED BY ZenonT(30), <1>1, <1>2, <1>3, <1>4, <1>5, <1>6, <1>7 DEF Next, ResetDevice, Reset

-----------------------------------------------------------------------------
(* The theorems. *)

\* The initial state satisfies the invariant.
LEMMA IInvInit == Init => IInv
<1> SUFFICES ASSUME Init PROVE IInv
  OBVIOUS
<1>1. TypeOK /\ FsmsMatchRules
  <2>1. pending_deliveries \in [Press -> 0..MaxGeneration] /\ 0 \in 0..MaxGeneration /\ 0 \in 0..MaxNow
    BY SMTT(30), MatcherAssumption DEF Init
  <2>2. tap_fsms \in [Devices -> Seq(Fsm) \cup {NoFsms}] /\ FsmsMatchRules
    BY ZenonT(30) DEF Init, FsmsMatchRules
  <2> QED BY ZenonT(30), <2>1, <2>2 DEF Init, TypeOK
<1>2. OwnershipInv /\ CommitInv
  BY ZenonT(30) DEF Init, OwnershipInv, PendingPresses, CommitInv
<1>3. TokenInv
  BY DEF Init, TokenInv, PendingPresses, SettledNeverPending
<1> QED BY ZenonT(30), <1>1, <1>2, <1>3 DEF IInv

\* Every operation preserves it.
LEMMA IInvStep == IInv /\ [Next]_vars => IInv'
BY ZenonT(30), TypeStep, OwnershipStep, TokenStep, CommitStep DEF IInv

\* The matcher's bookkeeping agrees after every operation (Matcher::*, rule.rs):
\* recognisers fit the live rules, the cached delivery flag is exact, presses
\* have one owner, tokens are one-shot, commitments have no live token.
THEOREM BookkeepingAgrees == Spec => []IInv
BY IInvInit, IInvStep, PTL DEF Spec

\* Type correctness.
THEOREM TypeCorrect == Spec => []TypeOK
<1>1. IInv => TypeOK
  BY DEF IInv
<1> QED BY <1>1, BookkeepingAgrees, PTL

\* A recogniser list never outlives the rules it was built from (swap_rules).
THEOREM RecognisersFollowRules == Spec => []FsmsMatchRules
<1>1. IInv => FsmsMatchRules
  BY DEF IInv
<1> QED BY <1>1, BookkeepingAgrees, PTL

\* The rest of an owned press is decided by its owner alone (dispatch_device).
THEOREM OwnerDecides == Spec => []OwnedPressDecides
<1>1. ASSUME IInv PROVE OwnedPressDecides
  <2> SUFFICES ASSUME NEW p \in Press, NEW e \in Event, NEW app \in Focus,
                      Transition(e), e.code = p[2]
               PROVE  /\ p \in swallowed_downs => Verdict(p[1], e, app) = <<"Swallow">>
                      /\ p \in forwarded_downs => Verdict(p[1], e, app) = <<"Pass">>
    BY ZenonT(30) DEF OwnedPressDecides
  <2>1. p = <<p[1], e.code>>
    BY DEF Press
  <2>2. ASSUME p \in swallowed_downs
        PROVE  ~OwnedForwarded(p[1], e) /\ OwnedSwallowed(p[1], e)
    BY ZenonT(30), <1>1, <2>1, <2>2 DEF OwnedForwarded, OwnedSwallowed, IInv, OwnershipInv
  <2>3. ASSUME p \in forwarded_downs
        PROVE  OwnedForwarded(p[1], e) /\ ~OwnedSwallowed(p[1], e)
    BY <1>1, <2>1, <2>3 DEF OwnedForwarded, OwnedSwallowed, IInv, OwnershipInv
  <2> QED BY SMTT(30), <2>2, <2>3 DEF Verdict, Matched
<1> QED BY <1>1, BookkeepingAgrees, PTL

\* report_delivery accepts each generation at most once.
THEOREM TokensOneShot == Spec => []SettledNeverPending
<1>1. IInv => SettledNeverPending
  BY DEF IInv, TokenInv
<1> QED BY <1>1, BookkeepingAgrees, PTL

\* Delivered or uncertain replacements never permit original replay.
THEOREM NeverReplayed == Spec => []NoReplayAfterCommit
<1>1. IInv => NoReplayAfterCommit
  BY DEF IInv, CommitInv, OwnershipInv, NoReplayAfterCommit
<1> QED BY <1>1, BookkeepingAgrees, PTL

\* A consumed press stays consumed until its release, its stream's reset, or
\* the rejection of its pending token (swap_rules, invalidate_speculation and
\* every event of another press leave it alone).
THEOREM ConsumedStays == Spec => ConsumedUntilRelease
<1> DEFINE Kept == \A p \in swallowed_downs \ swallowed_downs' :
                     (p \in PendingPresses /\ p \in forwarded_downs') \/ Ends(p)
<1>1. ASSUME IInv, [Next]_vars PROVE [Kept]_vars
  <2> SUFFICES ASSUME NEW p \in swallowed_downs, p \notin swallowed_downs'
               PROVE  (p \in PendingPresses /\ p \in forwarded_downs') \/ Ends(p)
    BY ZenonT(30)
  <2>0. p \in Press /\ p = <<p[1], p[2]>> /\ p[1] \in Devices
    BY SMTT(30), <1>1 DEF IInv, TypeOK, Press
  <2>1. ASSUME NEW d \in Devices, NEW e \in Event, NEW app \in Focus, NEW tracked \in BOOLEAN,
               Dispatch(d, e, app, tracked)
        PROVE  Ends(p)
    <3>1. e.kind = "KeyUp" /\ p = <<d, e.code>>
      BY ZenonT(30), <2>1 DEF Dispatch, ForwardedEvent, SwallowedEvent, ModifierEvent, KeyEvent
    <3>2. p[1] = d /\ p[2] = e.code
      BY ZenonT(30), <3>1
    <3> QED BY ZenonT(30), <2>1, <3>1, <3>2 DEF Ends
  <2>2. ASSUME NEW tok \in tokens, NEW delivery \in Deliveries, ReportDelivery(tok, delivery)
        PROVE  p \in PendingPresses /\ p \in forwarded_downs'
    <3>1. p = tok.press /\ p \in forwarded_downs' /\ Accepted(tok)
      BY ZenonT(30), <2>2 DEF ReportDelivery, vars
    <3>2. tok.generation # 0
      BY <1>1 DEF IInv, TokenInv
    <3> QED BY ZenonT(30), <2>0, <3>1, <3>2 DEF Accepted, PendingPresses
  <2>3. ASSUME NEW d \in Devices, NEW e \in Event, SettleDeviceEvent(d, e)
        PROVE  Ends(p)
    <3>1. e.kind = "KeyUp" /\ p = <<d, e.code>>
      BY ZenonT(30), <2>3 DEF SettleDeviceEvent, Forget, vars
    <3>2. p[1] = d /\ p[2] = e.code
      BY ZenonT(30), <3>1
    <3> QED BY ZenonT(30), <2>3, <3>1, <3>2 DEF Ends, Focus
  <2>4. ASSUME NEW d \in Devices, ResetDevice(d)
        PROVE  Ends(p)
    <3>1. p[1] = d
      BY ZenonT(30), <2>0, <2>4 DEF ResetDevice, Forget
    <3> QED BY ZenonT(30), <2>4, <3>1 DEF Ends
  <2>5. ASSUME \/ \E rs \in RuleSets : SwapRules(rs)
               \/ InvalidateSpeculation \/ DisqualifyTaps \/ Tick \/ UNCHANGED vars
        PROVE  FALSE
    BY ZenonT(30), <2>5 DEF SwapRules, InvalidateSpeculation, DisqualifyTaps, Tick, vars
  <2>6. CASE Reset
    BY ZenonT(30), <2>6 DEF Ends
  <2> QED BY ZenonT(30), <1>1, <2>1, <2>2, <2>3, <2>4, <2>5, <2>6 DEF Next
<1> QED BY <1>1, BookkeepingAgrees, PTL DEF Spec, ConsumedUntilRelease

\* An operation on one keyboard leaves alone what the others own or hold; only the
\* global reset concerns them all.
THEOREM KeyboardsIsolated == Spec => DeviceIsolation
<1> DEFINE moved == UNION {Differ(modifier_state, modifier_state'),
                           Differ(swallowed_downs, swallowed_downs'),
                           Differ(forwarded_downs, forwarded_downs')}
           Isolated == (\A p, q \in moved : p[1] = q[1]) \/ Reset
<1>1. ASSUME IInv, [Next]_vars PROVE [Isolated]_vars
  <2>0. \A p : p \in moved <=> \/ p \in modifier_state /\ p \notin modifier_state'
                               \/ p \notin modifier_state /\ p \in modifier_state'
                               \/ p \in swallowed_downs /\ p \notin swallowed_downs'
                               \/ p \notin swallowed_downs /\ p \in swallowed_downs'
                               \/ p \in forwarded_downs /\ p \notin forwarded_downs'
                               \/ p \notin forwarded_downs /\ p \in forwarded_downs'
    BY ZenonT(30) DEF Differ
  <2> HIDE DEF moved
  <2>1. ASSUME NEW d \in Devices, NEW e \in Event, NEW app \in Focus, NEW tracked \in BOOLEAN,
               Dispatch(d, e, app, tracked)
        PROVE  Isolated
    <3>1. \A p \in moved : p = <<d, e.code>>
      <4> DEFINE o == <<d, e.code>>
      <4>1. \A p : p # o => (p \in modifier_state <=> p \in modifier_state')
        <5>1. \/ modifier_state' = modifier_state
              \/ modifier_state' = modifier_state \cup {o}
              \/ modifier_state' = modifier_state \ {o}
          BY ZenonT(30), <2>1 DEF Dispatch, ForwardedEvent, SwallowedEvent, ModifierEvent, KeyEvent
        <5> HIDE DEF o
        <5> QED BY ZenonT(30), <5>1
      <4>2. \A p : p # o => (p \in swallowed_downs <=> p \in swallowed_downs')
        <5>1. \/ swallowed_downs' = swallowed_downs
              \/ swallowed_downs' = swallowed_downs \cup {o}
              \/ swallowed_downs' = swallowed_downs \ {o}
          BY ZenonT(30), <2>1 DEF Dispatch, ForwardedEvent, SwallowedEvent, ModifierEvent, KeyEvent
        <5> HIDE DEF o
        <5> QED BY ZenonT(30), <5>1
      <4>3. \A p : p # o => (p \in forwarded_downs <=> p \in forwarded_downs')
        <5>1. forwarded_downs' = forwarded_downs \/ forwarded_downs' = forwarded_downs \ {o}
          BY ZenonT(30), <2>1 DEF Dispatch, ForwardedAfter
        <5> HIDE DEF o
        <5> QED BY ZenonT(30), <5>1
      <4> HIDE DEF o
      <4>4. \A p \in moved : p = o
        BY ZenonT(30), <2>0, <4>1, <4>2, <4>3
      <4> QED BY ZenonT(30), <4>4 DEF o
    <3> QED BY ZenonT(30), <3>1
  <2>2. ASSUME NEW tok \in tokens, NEW delivery \in Deliveries, ReportDelivery(tok, delivery)
        PROVE  Isolated
    <3>1. \A p \in moved : p = tok.press
      BY ZenonT(30), <2>0, <2>2 DEF ReportDelivery, vars
    <3> QED BY ZenonT(30), <3>1
  <2>3. ASSUME NEW d \in Devices, NEW e \in Event, SettleDeviceEvent(d, e)
        PROVE  Isolated
    <3>1. \A p \in moved : p = <<d, e.code>>
      BY ZenonT(30), <2>0, <2>3 DEF SettleDeviceEvent, Forget, vars
    <3> QED BY ZenonT(30), <3>1
  <2>4. ASSUME NEW d \in Devices, ResetDevice(d)
        PROVE  Isolated
    <3>1. \A p \in moved : p \in {d} \X Keys
      BY ZenonT(30), <2>0, <2>4 DEF ResetDevice, Forget
    <3>2. \A p \in {d} \X Keys : p[1] = d
      BY ZenonT(30)
    <3> QED BY ZenonT(30), <3>1, <3>2
  <2>5. ASSUME \/ \E rs \in RuleSets : SwapRules(rs)
               \/ InvalidateSpeculation \/ DisqualifyTaps \/ Tick \/ UNCHANGED vars
        PROVE  Isolated
    <3>1. \A p : p \notin moved
      BY ZenonT(30), <2>0, <2>5 DEF SwapRules, InvalidateSpeculation, DisqualifyTaps, Tick, vars
    <3> QED BY ZenonT(30), <3>1
  <2> QED BY SMTT(30), <1>1, <2>1, <2>2, <2>3, <2>4, <2>5 DEF Next
<1> QED BY <1>1, BookkeepingAgrees, PTL DEF Spec, DeviceIsolation

-----------------------------------------------------------------------------
(* Desktop.                                                                *)

USE DesktopAssumption

\* The parts of DesktopInv.
WorldType == [inv : Inventories, current : Ids \cup {None}, epoch : Epochs]
PollerType == [pc : PollerPcs, stamp : Ages, read : Ages, kept : BOOLEAN, epoch : Epochs, catalog : Catalogs \cup {None}]
SelectorType == [pc : SelectorPcs, id : Ids \cup {None}, captured : Catalogs \cup {None}, epoch : Epochs,
                 catalog : Catalogs \cup {None}, active : BOOLEAN, meant : Ids \cup Layouts \cup {None}]
Actions == [catalog : Catalogs, id : Ids]

WorldOK == world \in WorldType /\ world.current \in DOMAIN world.inv \cup {None}
CachesOK ==
    /\ focus \in {None} \cup [stamp : Ages, read : Ages]
    /\ sources \in {None} \cup [catalog : Catalogs, stamp : Ages, read : Ages]
    /\ pushed \in {None} \cup [stamp : 0..FocusTTL, read : Ages]
    /\ \A entry \in {focus, sources, pushed} : entry # None => entry.read <= entry.stamp
QueueOK == queue \in Seq(Actions) /\ Len(queue) <= Capacity
PollerOK ==
    /\ poller \in PollerType /\ (poller.pc = "sourced" => poller.catalog # None)
    /\ poller.pc \in {"poll_again", "polled", "sourced"} => poller.read <= poller.stamp
SelectorOK ==
    /\ selector \in SelectorType /\ (selector.pc \notin {"off", "recv", "end"} => selector.id # None /\ selector.captured # None)
    /\ selector.pc \in {"check", "confirmed"} => selector.catalog # None
    /\ ReadBackTogether
OthersOK ==
    /\ provider \in Providers /\ dead \subseteq Both /\ bridge \in {"off", "starting", "serving", "ended"}
    /\ owner \in {None, "poller", "selector"} /\ down \in {"connecting", "running", "sources", "desktop", "bridge", "done"}

\* DesktopInv under a name of its own: what lemmas state is not expanded where it is.
Parts == WorldOK /\ CachesOK /\ QueueOK /\ PollerOK /\ SelectorOK /\ OthersOK /\ ProviderSerialized

\* They are all of it.
LEMMA InvParts == Parts <=> DesktopInv
BY ZenonT(30) DEF Parts, WorldOK, CachesOK, QueueOK, PollerOK, SelectorOK, OthersOK, WorldType, PollerType, SelectorType, Actions,
   DesktopInv, DesktopTypeOK, ReadSinceStamped

-----------------------------------------------------------------------------
(* The operators.                                                          *)

\* The sources of an inventory are ids, and stand for layouts.
LEMMA InventoryType ==
    ASSUME NEW inv \in Inventories
    PROVE  DOMAIN inv \subseteq Ids /\ \A id \in DOMAIN inv : inv[id] \in Layouts
BY SMTT(30), InventoriesAssumption

\* What every provider reports is a catalogue of the inventory that the desktop has.
LEMMA CatalogType ==
    ASSUME WorldOK, provider \in Providers, NEW epoch \in Epochs
    PROVE  Catalog(epoch) \in Catalogs /\ Catalog(epoch).inv = world.inv /\ Catalog(epoch) # None
<1>1. world.inv \in Inventories /\ world.epoch \in Epochs /\ 0 \in Epochs
  BY SMTT(30) DEF WorldOK, WorldType, Epochs
<1>2. \E e \in Epochs : Catalog(epoch) = [epoch |-> e, inv |-> world.inv]
  BY ZenonT(30), <1>1, InventoriesAssumption DEF Catalog, SwayCatalog, HyprlandCatalog, X11Catalog, GnomeCatalog, KwinCatalog, InputMethodCatalog
<1>3. None \notin Catalogs
  BY ZenonT(30), InventoriesAssumption DEF Catalogs, Epochs
<1> QED
  BY SMTT(30), <1>1, <1>2, <1>3 DEF Catalogs

\* Time passes: an age is an age, and what was read after its stamp stays so.
LEMMA OlderType ==
    ASSUME NEW a \in Ages, NEW b \in Ages, a <= b
    PROVE  Older(a) \in Ages /\ Older(b) \in Ages /\ Older(a) <= Older(b) /\ 0 \in Ages /\ 0 <= b /\ a <= a
BY SMTT(30) DEF Ages, Older

-----------------------------------------------------------------------------
(* The desktop.                                                            *)

\* Only the user, a restart and a selection change it.
LEMMA WorldStep ==
    ASSUME Parts, [DesktopNext]_desktopVars
    PROVE  WorldOK'
<1>1. WorldOK /\ SelectorOK
  BY ZenonT(30) DEF Parts
<1>2. CASE UNCHANGED world
  BY ZenonT(30), <1>1, <1>2 DEF WorldOK
<1>3. CASE LayoutsChange
  <2>0. PICK i \in Inventories : \E c \in DOMAIN i \cup {None} : world' = [world EXCEPT !.inv = i, !.current = c]
    BY ZenonT(30), <1>3 DEF LayoutsChange
  <2>1. PICK c \in DOMAIN i \cup {None} : world' = [world EXCEPT !.inv = i, !.current = c]
    BY ZenonT(30), <2>0
  <2>2. c \in Ids \cup {None}
    BY ZenonT(30), InventoryType
  <2>3. world' = [inv |-> i, current |-> c, epoch |-> world.epoch] /\ world.epoch \in Epochs
    BY ZenonT(30), <1>1, <2>1 DEF WorldOK, WorldType
  <2>4. world' \in WorldType /\ world'.inv = i /\ world'.current = c
    BY ZenonT(30), <2>2, <2>3 DEF WorldType
  <2> QED
    BY ZenonT(30), <2>1, <2>4 DEF WorldOK
<1>4. CASE Restart
  BY SMTT(30), <1>1, <1>4 DEF Restart, WorldOK, WorldType, Epochs
<1>5. CASE SwitchReply
  <2>1. selector.id \in DOMAIN world.inv /\ world' = [world EXCEPT !.current = selector.id]
    BY ZenonT(30), <1>5 DEF SwitchReply
  <2>2. selector.id \in Ids \cup {None}
    BY ZenonT(30), <1>1 DEF SelectorOK, SelectorType
  <2> QED
    BY ZenonT(30), <1>1, <2>1, <2>2 DEF WorldOK, WorldType
<1> QED
  BY ZenonT(30), <1>2, <1>3, <1>4, <1>5
  DEF DesktopNext, desktopVars, TimePasses, Stop, Submit, PollRound, PollerEnds, BeginPoll, FocusReply, SecondReply, StoreFocus, BeginSources,
      SourcesReply, StoreSources, PollFails, Selection, Receive, BeginSelect, FreshReply, Check, ConfirmReply, Selected,
      SelectFails, DropSources, DropDesktop, Connect, ConnectFails, Joined, BridgeServes, BridgeEnds, Publish

-----------------------------------------------------------------------------
(* The caches and what KWin pushed.                                        *)

\* An entry that grows older.
LEMMA AgedType ==
    ASSUME CachesOK
    PROVE  /\ Aged(focus) \in {None} \cup [stamp : Ages, read : Ages]
           /\ Aged(sources) \in {None} \cup [catalog : Catalogs, stamp : Ages, read : Ages]
           /\ Aged(pushed) \in {None} \cup [stamp : 0..FocusTTL, read : Ages]
           /\ \A entry \in {Aged(focus), Aged(sources), Aged(pushed)} : entry # None => entry.read <= entry.stamp
<1>1. /\ Aged(focus) = None \/ Aged(focus) = [stamp |-> Older(focus.stamp), read |-> Older(focus.read)]
      /\ Aged(sources) = None \/ Aged(sources) = [catalog |-> sources.catalog, stamp |-> Older(sources.stamp), read |-> Older(sources.read)]
      /\ Aged(pushed) = None \/ Aged(pushed) = [stamp |-> Older(pushed.stamp), read |-> Older(pushed.read)]
  BY ZenonT(30) DEF CachesOK, Aged
<1>2. /\ focus # None => focus.stamp \in Ages /\ focus.read \in Ages /\ focus.read <= focus.stamp
      /\ sources # None => sources.catalog \in Catalogs /\ sources.stamp \in Ages /\ sources.read \in Ages /\ sources.read <= sources.stamp
      /\ pushed # None => pushed.stamp \in 0..FocusTTL /\ pushed.read \in Ages /\ pushed.read <= pushed.stamp
  BY ZenonT(30) DEF CachesOK
<1>3. Aged(focus) \in {None} \cup [stamp : Ages, read : Ages] /\ (Aged(focus) # None => Aged(focus).read <= Aged(focus).stamp)
  <2> DEFINE e == [stamp |-> Older(focus.stamp), read |-> Older(focus.read)]
  <2>1. CASE focus = None \/ focus.stamp >= FocusTTL
    BY ZenonT(30), <2>1 DEF Aged
  <2>2. CASE ~(focus = None \/ focus.stamp >= FocusTTL)
    <3>1. /\ Older(focus.stamp) \in Ages /\ Older(focus.read) \in Ages
          /\ Older(focus.read) <= Older(focus.stamp)
      BY SMTT(30), <1>2, <2>2 DEF Older, Ages
    <3>2. e \in [stamp : Ages, read : Ages] /\ e.read <= e.stamp
      BY ZenonT(30), <1>2, <2>2, <3>1
    <3> QED
      BY ZenonT(30), <1>1, <3>2
  <2> QED
    BY ZenonT(30), <2>1, <2>2
<1>4. Aged(sources) \in {None} \cup [catalog : Catalogs, stamp : Ages, read : Ages] /\ (Aged(sources) # None => Aged(sources).read <= Aged(sources).stamp)
  <2> DEFINE e == [catalog |-> sources.catalog, stamp |-> Older(sources.stamp), read |-> Older(sources.read)]
  <2>1. CASE sources = None \/ sources.stamp >= FocusTTL
    BY ZenonT(30), <2>1 DEF Aged
  <2>2. CASE ~(sources = None \/ sources.stamp >= FocusTTL)
    <3>1. /\ Older(sources.stamp) \in Ages /\ Older(sources.read) \in Ages
          /\ Older(sources.read) <= Older(sources.stamp)
      BY SMTT(30), <1>2, <2>2 DEF Older, Ages
    <3>2. e \in [catalog : Catalogs, stamp : Ages, read : Ages] /\ e.read <= e.stamp
      BY ZenonT(30), <1>2, <2>2, <3>1
    <3> QED
      BY ZenonT(30), <1>1, <3>2
  <2> QED
    BY ZenonT(30), <2>1, <2>2
<1>5. Aged(pushed) \in {None} \cup [stamp : 0..FocusTTL, read : Ages] /\ (Aged(pushed) # None => Aged(pushed).read <= Aged(pushed).stamp)
  <2> DEFINE e == [stamp |-> Older(pushed.stamp), read |-> Older(pushed.read)]
  <2>1. CASE pushed = None \/ pushed.stamp >= FocusTTL
    BY ZenonT(30), <2>1 DEF Aged
  <2>2. CASE ~(pushed = None \/ pushed.stamp >= FocusTTL)
    <3>1. /\ Older(pushed.stamp) \in 0..FocusTTL /\ Older(pushed.read) \in Ages
          /\ Older(pushed.read) <= Older(pushed.stamp)
      BY SMTT(30), <1>2, <2>2 DEF Older, Ages
    <3>2. e \in [stamp : 0..FocusTTL, read : Ages] /\ e.read <= e.stamp
      BY ZenonT(30), <1>2, <2>2, <3>1
    <3> QED
      BY ZenonT(30), <1>1, <3>2
  <2> QED
    BY ZenonT(30), <2>1, <2>2
<1> QED
  BY ZenonT(30), <1>3, <1>4, <1>5

\* What is stored was read after its stamp was taken, and a push is stamped as it is received.
LEMMA CachesStep ==
    ASSUME Parts, [DesktopNext]_desktopVars
    PROVE  CachesOK'
<1>1. CachesOK /\ PollerOK
  BY ZenonT(30) DEF Parts
<1>2. CASE UNCHANGED <<focus, sources, pushed>>
  BY ZenonT(30), <1>1, <1>2 DEF CachesOK
<1>3. CASE TimePasses
  BY ZenonT(30), <1>1, <1>3, AgedType DEF TimePasses, CachesOK
<1>4. CASE /\ focus' \in {focus, None} /\ sources' \in {sources, None} /\ pushed' \in {pushed, None}
  BY ZenonT(30), <1>1, <1>4 DEF CachesOK
<1>5. CASE StoreFocus
  <2>1. /\ UNCHANGED <<sources, pushed>> /\ poller.stamp \in Ages /\ poller.read \in Ages /\ poller.read <= poller.stamp
        /\ focus' = None \/ focus' = [stamp |-> poller.stamp, read |-> poller.read]
    BY ZenonT(30), <1>1, <1>5 DEF StoreFocus, Observation, PollerOK, PollerType, kwin
  <2>2. focus' \in {None} \cup [stamp : Ages, read : Ages] /\ (focus' # None => focus'.read <= focus'.stamp)
    BY SMTT(30), <2>1
  <2> QED
    BY ZenonT(30), <1>1, <2>1, <2>2 DEF CachesOK
<1>6. CASE StoreSources
  <2>1. /\ UNCHANGED <<focus, pushed>> /\ poller.stamp \in Ages /\ poller.read \in Ages /\ poller.read <= poller.stamp
        /\ poller.catalog \in Catalogs /\ sources' = [catalog |-> poller.catalog, stamp |-> poller.stamp, read |-> poller.read]
    BY ZenonT(30), <1>1, <1>6 DEF StoreSources, PollerOK, PollerType, kwin
  <2>2. sources' \in {None} \cup [catalog : Catalogs, stamp : Ages, read : Ages] /\ (sources' # None => sources'.read <= sources'.stamp)
    BY ZenonT(30), <2>1
  <2> QED
    BY ZenonT(30), <1>1, <2>1, <2>2 DEF CachesOK
<1>7. ASSUME NEW new \in BOOLEAN, Publish(new)
      PROVE  CachesOK'
  <2>1. UNCHANGED <<focus, sources>> /\ pushed' \in {pushed, [stamp |-> 0, read |-> 0]}
    BY ZenonT(30), <1>7 DEF Publish
  <2>2. [stamp |-> 0, read |-> 0] \in [stamp : 0..FocusTTL, read : Ages] /\ [stamp |-> 0, read |-> 0].read <= [stamp |-> 0, read |-> 0].stamp
    BY SMTT(30) DEF Ages
  <2> QED
    BY ZenonT(30), <1>1, <2>1, <2>2 DEF CachesOK
<1>8. CASE PollerEnds \/ PollFails \/ BridgeEnds \/ DropDesktop
  BY ZenonT(30), <1>4, <1>8 DEF PollerEnds, PollFails, BridgeEnds, DropDesktop, kwin
<1> QED
  BY ZenonT(30), <1>2, <1>3, <1>5, <1>6, <1>7, <1>8
  DEF DesktopNext, desktopVars, kwin, LayoutsChange, Restart, Stop, Submit, PollRound, BeginPoll, FocusReply, SecondReply, BeginSources,
      SourcesReply, Selection, Receive, BeginSelect, FreshReply, Check, SwitchReply, ConfirmReply, Selected,
      SelectFails, DropSources, Connect, ConnectFails, Joined, BridgeServes

-----------------------------------------------------------------------------
(* The queue of selections.                                                *)

\* It takes no more than its capacity.
LEMMA QueueStep ==
    ASSUME Parts, [DesktopNext]_desktopVars
    PROVE  QueueOK'
<1>1. QueueOK /\ CachesOK
  BY ZenonT(30) DEF Parts
<1>2. CASE UNCHANGED queue
  BY ZenonT(30), <1>1, <1>2 DEF QueueOK
<1>3. ASSUME NEW id \in Ids, Submit(id)
      PROVE  QueueOK'
  <2>1. sources.catalog \in Catalogs
    BY ZenonT(30), <1>1, <1>3 DEF Submit, CachesOK
  <2>2. [catalog |-> sources.catalog, id |-> id] \in Actions
    BY ZenonT(30), <2>1 DEF Actions
  <2>3. PICK action \in Actions : queue' = Append(queue, action) /\ Len(queue) < Capacity
    BY ZenonT(30), <1>3, <2>2 DEF Submit
  <2> QED
    BY SMTT(30), <1>1, <2>3 DEF QueueOK
<1>4. CASE Receive
  <2>1. queue' = queue \/ (queue # <<>> /\ queue' = Tail(queue))
    BY ZenonT(30), <1>4 DEF Receive
  <2> QED
    BY SMTT(30), <1>1, <2>1 DEF QueueOK
<1>5. CASE DropSources
  BY SMTT(30), <1>5 DEF DropSources, QueueOK
<1> QED
  BY ZenonT(30), <1>2, <1>3, <1>4, <1>5
  DEF DesktopNext, desktopVars, LayoutsChange, Restart, TimePasses, Stop, PollRound, PollerEnds, BeginPoll, FocusReply, SecondReply, StoreFocus, BeginSources,
      SourcesReply, StoreSources, PollFails, Selection, BeginSelect, FreshReply, Check, SwitchReply, ConfirmReply, Selected,
      SelectFails, DropDesktop, Connect, ConnectFails, Joined, BridgeServes, BridgeEnds, Publish

-----------------------------------------------------------------------------
(* The polling worker.                                                     *)

\* What a round of it may be.
LEMMA PollerRecord ==
    ASSUME NEW p \in PollerPcs, NEW s \in Ages, NEW r \in Ages, NEW k \in BOOLEAN, NEW e \in Epochs, NEW c \in Catalogs \cup {None},
           p = "sourced" => c # None, p \in {"poll_again", "polled", "sourced"} => r <= s,
           poller' = [pc |-> p, stamp |-> s, read |-> r, kept |-> k, epoch |-> e, catalog |-> c]
    PROVE  PollerOK'
<1>1. poller' \in PollerType
  BY ZenonT(30) DEF PollerType
<1>2. poller'.pc = p /\ poller'.stamp = s /\ poller'.read = r /\ poller'.catalog = c
  BY ZenonT(30)
<1> QED
  BY ZenonT(30), <1>1, <1>2 DEF PollerOK

\* Its fields.
LEMMA PollerFields ==
    ASSUME PollerOK
    PROVE  /\ poller.pc \in PollerPcs /\ poller.stamp \in Ages /\ poller.read \in Ages /\ poller.kept \in BOOLEAN
           /\ poller.epoch \in Epochs /\ poller.catalog \in Catalogs \cup {None}
BY ZenonT(30) DEF PollerOK, PollerType

\* A round resets it, and ends with the answers in.
LEMMA PollerStep ==
    ASSUME Parts, [DesktopNext]_desktopVars
    PROVE  PollerOK'
<1>1. PollerOK /\ WorldOK /\ CachesOK /\ provider \in Providers
  BY ZenonT(30) DEF Parts, OthersOK
<1>0. /\ poller.stamp \in Ages /\ poller.read \in Ages /\ poller.kept \in BOOLEAN
      /\ poller.epoch \in Epochs /\ poller.catalog \in Catalogs \cup {None}
  BY ZenonT(30), <1>1, PollerFields
<1>2. /\ world.epoch \in Epochs /\ SocketEpoch \in Epochs /\ 0 \in Ages /\ 0 \in Epochs
      /\ {"want_poll", "poll", "poll_again", "polled", "want_sources", "sources", "sourced", "end"} \subseteq PollerPcs
  BY SMTT(30), <1>1 DEF WorldOK, WorldType, SocketEpoch, Epochs, Ages, PollerPcs
<1>3. CASE UNCHANGED poller
  BY ZenonT(30), <1>1, <1>3 DEF PollerOK
<1>4. CASE poller' = Resting \/ poller' = [Resting EXCEPT !.pc = "want_sources"]
  <2>1. PICK pc \in {"want_poll", "want_sources"} :
           poller' = [pc |-> pc, stamp |-> 0, read |-> 0, kept |-> TRUE, epoch |-> 0, catalog |-> None]
    BY ZenonT(30), <1>4 DEF Resting
  <2> QED
    BY ZenonT(30), <1>2, <2>1, PollerRecord
<1>5. CASE TimePasses
  <2> DEFINE s == IF poller.pc \in {"off", "want_poll", "end"} THEN 0 ELSE Older(poller.stamp)
             r == IF poller.pc \in {"poll_again", "polled", "sourced"} THEN Older(poller.read) ELSE 0
  <2>1. poller' = [pc |-> poller.pc, stamp |-> s, read |-> r, kept |-> poller.kept, epoch |-> poller.epoch, catalog |-> poller.catalog]
    BY ZenonT(30), <1>1, <1>5 DEF TimePasses, PollerOK, PollerType
  <2>2. s \in Ages /\ r \in Ages /\ (poller.pc \in {"poll_again", "polled", "sourced"} => r <= s)
    BY SMTT(30), <1>1, PollerFields DEF PollerOK, Older, Ages
  <2> HIDE DEF s, r
  <2> QED
    BY ZenonT(30), <1>1, <2>1, <2>2, PollerFields, PollerRecord DEF PollerOK
<1>6. CASE PollerEnds
  <2>1. poller' = [pc |-> "end", stamp |-> poller.stamp, read |-> poller.read, kept |-> poller.kept,
                   epoch |-> poller.epoch, catalog |-> poller.catalog]
    BY ZenonT(30), <1>1, <1>6 DEF PollerEnds, PollerOK, PollerType
  <2> QED
    BY ZenonT(30), <1>0, <1>2, <2>1, PollerRecord
<1>7. CASE BeginPoll
  <2>1. poller' = [pc |-> "poll", stamp |-> 0, read |-> poller.read, kept |-> poller.kept,
                   epoch |-> world.epoch, catalog |-> poller.catalog]
    BY ZenonT(30), <1>1, <1>7 DEF BeginPoll, PollerOK, PollerType
  <2> QED
    BY ZenonT(30), <1>0, <1>2, <2>1, PollerRecord
<1>8. CASE FocusReply
  <2>1. PICK entry \in {pushed, [stamp |-> poller.stamp, read |-> 0]}, pc \in {"poll_again", "polled"} :
           /\ provider = "kwin" => entry = pushed /\ pushed # None
           /\ provider # "kwin" => entry = [stamp |-> poller.stamp, read |-> 0]
           /\ poller' = [poller EXCEPT !.pc = pc, !.stamp = entry.stamp, !.read = entry.read]
    BY ZenonT(30), <1>8 DEF FocusReply
  <2>2. entry.stamp \in Ages /\ entry.read \in Ages /\ entry.read <= entry.stamp
    <3>1. CASE provider = "kwin"
      BY SMTT(30), <1>1, <2>1, <3>1 DEF CachesOK, Ages
    <3>2. CASE provider # "kwin"
      BY SMTT(30), <1>1, <1>2, <2>1, <3>2, PollerFields DEF Ages
    <3> QED
      BY ZenonT(30), <3>1, <3>2
  <2>3. poller' = [pc |-> pc, stamp |-> entry.stamp, read |-> entry.read, kept |-> poller.kept,
                   epoch |-> poller.epoch, catalog |-> poller.catalog]
    BY ZenonT(30), <1>1, <2>1 DEF PollerOK, PollerType
  <2>4. pc \in PollerPcs /\ pc # "sourced"
    BY ZenonT(30) DEF PollerPcs
  <2> QED
    BY ZenonT(30), <1>0, <1>2, <2>2, <2>3, <2>4, PollerRecord
<1>9. CASE SecondReply
  <2>1. PICK kept \in BOOLEAN : poller' = [poller EXCEPT !.pc = "polled", !.kept = kept]
    BY ZenonT(30), <1>9 DEF SecondReply
  <2>2. poller' = [pc |-> "polled", stamp |-> poller.stamp, read |-> poller.read, kept |-> kept,
                   epoch |-> poller.epoch, catalog |-> poller.catalog]
    BY ZenonT(30), <1>1, <2>1 DEF PollerOK, PollerType
  <2>3. poller.read <= poller.stamp
    BY ZenonT(30), <1>1, <1>9 DEF SecondReply, PollerOK
  <2> QED
    BY ZenonT(30), <1>0, <1>2, <2>2, <2>3, PollerRecord
<1>10. CASE BeginSources
  <2>1. poller' = [pc |-> "sources", stamp |-> poller.stamp, read |-> poller.read, kept |-> poller.kept,
                   epoch |-> SocketEpoch, catalog |-> poller.catalog]
    BY ZenonT(30), <1>1, <1>10 DEF BeginSources, PollerOK, PollerType
  <2> QED
    BY ZenonT(30), <1>0, <1>2, <2>1, PollerRecord
<1>11. CASE SourcesReply
  <2>1. poller' = [pc |-> "sourced", stamp |-> poller.stamp, read |-> 0, kept |-> poller.kept,
                   epoch |-> poller.epoch, catalog |-> Catalog(poller.epoch)]
    BY ZenonT(30), <1>1, <1>11 DEF SourcesReply, PollerOK, PollerType
  <2>2. Catalog(poller.epoch) \in Catalogs /\ Catalog(poller.epoch) # None
    BY ZenonT(30), <1>1, PollerFields, CatalogType
  <2>3. 0 <= poller.stamp
    BY SMTT(30), <1>1, PollerFields DEF Ages
  <2> QED
    BY ZenonT(30), <1>0, <1>2, <2>1, <2>2, <2>3, PollerRecord
<1>12. CASE StoreFocus \/ StoreSources \/ PollFails \/ Connect
  BY ZenonT(30), <1>4, <1>12 DEF StoreFocus, StoreSources, PollFails, Connect
<1> QED
  BY ZenonT(30), <1>3, <1>5, <1>6, <1>7, <1>8, <1>9, <1>10, <1>11, <1>12
  DEF DesktopNext, desktopVars, LayoutsChange, Restart, Stop, Submit, PollRound, Selection, Receive, BeginSelect, FreshReply, Check,
      SwitchReply, ConfirmReply, Selected, SelectFails, DropSources, DropDesktop, ConnectFails, Joined, BridgeServes,
      BridgeEnds, Publish

-----------------------------------------------------------------------------
(* The thread that selects sources.                                        *)

\* What a selection may be.
LEMMA SelectorRecord ==
    ASSUME NEW p \in SelectorPcs, NEW i \in Ids \cup {None}, NEW x \in Catalogs \cup {None}, NEW e \in Epochs,
           NEW c \in Catalogs \cup {None}, NEW a \in BOOLEAN, NEW m \in Ids \cup Layouts \cup {None},
           p \notin {"off", "recv", "end"} => i # None /\ x # None, p \in {"check", "confirmed"} => c # None,
           (p = "confirmed" /\ a) => m = Meaning(c.inv, i), UNCHANGED provider,
           selector' = [pc |-> p, id |-> i, captured |-> x, epoch |-> e, catalog |-> c, active |-> a, meant |-> m]
    PROVE  SelectorOK'
<1>1. selector' \in SelectorType
  BY ZenonT(30) DEF SelectorType
<1>2. /\ selector'.pc = p /\ selector'.id = i /\ selector'.captured = x /\ selector'.catalog = c
      /\ selector'.active = a /\ selector'.meant = m
  BY ZenonT(30)
<1>3. ReadBackTogether'
  BY ZenonT(30), <1>2 DEF ReadBackTogether, Meaning
<1> QED
  BY ZenonT(30), <1>1, <1>2, <1>3 DEF SelectorOK

\* Its fields.
LEMMA SelectorFields ==
    ASSUME SelectorOK
    PROVE  /\ selector.pc \in SelectorPcs /\ selector.id \in Ids \cup {None} /\ selector.captured \in Catalogs \cup {None}
           /\ selector.epoch \in Epochs /\ selector.catalog \in Catalogs \cup {None} /\ selector.active \in BOOLEAN
           /\ selector.meant \in Ids \cup Layouts \cup {None}
           /\ selector.pc \notin {"off", "recv", "end"} => selector.id # None /\ selector.captured # None
BY ZenonT(30) DEF SelectorOK, SelectorType

\* A selection goes on, or is dropped.
LEMMA SelectorMoves ==
    ASSUME SelectorOK, NEW p \in SelectorPcs \ {"confirmed"}, NEW e \in Epochs, NEW c \in Catalogs \cup {None},
           p # "end" => selector.pc \notin {"off", "recv", "end"}, p = "check" => c # None, UNCHANGED provider,
           selector' = [pc |-> p, id |-> selector.id, captured |-> selector.captured, epoch |-> e, catalog |-> c,
                        active |-> selector.active, meant |-> selector.meant]
    PROVE  SelectorOK'
<1>1. /\ selector.id \in Ids \cup {None} /\ selector.captured \in Catalogs \cup {None}
      /\ selector.active \in BOOLEAN /\ selector.meant \in Ids \cup Layouts \cup {None}
      /\ p \notin {"off", "recv", "end"} => selector.id # None /\ selector.captured # None
  BY ZenonT(30) DEF SelectorOK, SelectorType
<1>2. selector' \in SelectorType
  BY ZenonT(30), <1>1 DEF SelectorType
<1>3. selector'.pc = p /\ selector'.id = selector.id /\ selector'.captured = selector.captured /\ selector'.catalog = c
  BY ZenonT(30)
<1> QED
  BY ZenonT(30), <1>1, <1>2, <1>3 DEF SelectorOK, ReadBackTogether

\* The state read back is one state of the desktop.
LEMMA SelectorStep ==
    ASSUME Parts, [DesktopNext]_desktopVars
    PROVE  SelectorOK'
<1>1. SelectorOK /\ WorldOK /\ QueueOK /\ provider \in Providers
  BY ZenonT(30) DEF Parts, OthersOK
<1>2. /\ SocketEpoch \in Epochs /\ 0 \in Epochs
      /\ {"recv", "want", "fresh", "check", "switch", "confirm", "confirmed", "end"} \subseteq SelectorPcs
  BY SMTT(30), <1>1 DEF WorldOK, WorldType, SocketEpoch, Epochs, SelectorPcs
<1>0. selector.epoch \in Epochs /\ selector.catalog \in Catalogs \cup {None}
  BY ZenonT(30), <1>1, SelectorFields
<1>3. UNCHANGED provider
  BY ZenonT(30) DEF DesktopNext, desktopVars, LayoutsChange, Restart, TimePasses, Stop, Submit, PollRound, PollerEnds, BeginPoll, FocusReply, SecondReply,
      StoreFocus, BeginSources, SourcesReply, StoreSources, PollFails, Selection, Receive, BeginSelect, FreshReply, Check,
      SwitchReply, ConfirmReply, Selected, SelectFails, DropSources, DropDesktop, Connect, ConnectFails, Joined, BridgeServes,
      BridgeEnds, Publish
<1>4. CASE UNCHANGED selector
  BY ZenonT(30), <1>1, <1>3, <1>4 DEF SelectorOK, ReadBackTogether, Meaning
<1>5. CASE selector' = Receiving
  BY ZenonT(30), <1>2, <1>3, <1>5, SelectorRecord DEF Receiving
<1>6. CASE Receive
  <2>1. CASE down # "running"
    <3>1. selector' = [pc |-> "end", id |-> selector.id, captured |-> selector.captured, epoch |-> selector.epoch,
                       catalog |-> selector.catalog, active |-> selector.active, meant |-> selector.meant]
      BY ZenonT(30), <1>1, <1>6, <2>1 DEF Receive, SelectorOK, SelectorType
    <3> QED
      BY ZenonT(30), <1>1, <1>2, <1>3, <3>1, SelectorFields, SelectorMoves
  <2>2. CASE down = "running"
    <3>1. /\ queue # <<>>
          /\ selector' = [pc |-> "want", id |-> Head(queue).id, captured |-> Head(queue).catalog, epoch |-> 0, catalog |-> None,
                          active |-> FALSE, meant |-> None]
      BY ZenonT(30), <1>6, <2>2 DEF Receive, Receiving
    <3>2. Head(queue) \in Actions
      BY SMTT(30), <1>1, <3>1 DEF QueueOK
    <3>3. Head(queue).id \in Ids /\ Head(queue).catalog \in Catalogs
      BY ZenonT(30), <3>2 DEF Actions
    <3>4. Head(queue).id # None /\ Head(queue).catalog # None
      BY ZenonT(30), <3>3, InventoriesAssumption DEF Catalogs, Epochs
    <3> QED
      BY ZenonT(30), <1>2, <1>3, <3>1, <3>3, <3>4, SelectorRecord
  <2> QED
    BY ZenonT(30), <2>1, <2>2
<1>7. CASE BeginSelect
  <2>1. /\ selector.pc = "want"
        /\ selector' = [pc |-> "fresh", id |-> selector.id, captured |-> selector.captured, epoch |-> SocketEpoch,
                        catalog |-> selector.catalog, active |-> selector.active, meant |-> selector.meant]
    BY ZenonT(30), <1>1, <1>7 DEF BeginSelect, SelectorOK, SelectorType
  <2>2. "fresh" \in SelectorPcs \ {"confirmed"} /\ selector.pc \notin {"off", "recv", "end"}
    BY ZenonT(30), <2>1 DEF SelectorPcs
  <2> QED
    BY ZenonT(30), <1>0, <1>1, <1>2, <1>3, <2>1, <2>2, SelectorMoves
<1>8. CASE FreshReply
  <2>1. /\ selector.pc = "fresh"
        /\ selector' = [pc |-> "check", id |-> selector.id, captured |-> selector.captured, epoch |-> selector.epoch,
                        catalog |-> Catalog(selector.epoch), active |-> selector.active, meant |-> selector.meant]
    BY ZenonT(30), <1>1, <1>8 DEF FreshReply, SelectorOK, SelectorType
  <2>2. Catalog(selector.epoch) \in Catalogs /\ Catalog(selector.epoch) # None
    BY ZenonT(30), <1>1, SelectorFields, CatalogType
  <2>3. "check" \in SelectorPcs \ {"confirmed"} /\ selector.pc \notin {"off", "recv", "end"}
    BY ZenonT(30), <2>1 DEF SelectorPcs
  <2> QED
    BY ZenonT(30), <1>0, <1>1, <1>2, <1>3, <2>1, <2>2, <2>3, SelectorMoves
<1>9. CASE Check
  <2>1. /\ selector.pc = "check"
        /\ selector' = [pc |-> "switch", id |-> selector.id, captured |-> selector.captured, epoch |-> selector.epoch,
                        catalog |-> None, active |-> selector.active, meant |-> selector.meant]
    BY ZenonT(30), <1>1, <1>9 DEF Check, SelectorOK, SelectorType
  <2>2. "switch" \in SelectorPcs \ {"confirmed"} /\ selector.pc \notin {"off", "recv", "end"}
    BY ZenonT(30), <2>1 DEF SelectorPcs
  <2> QED
    BY ZenonT(30), <1>0, <1>1, <1>2, <1>3, <2>1, <2>2, SelectorMoves
<1>10. CASE SwitchReply
  <2>1. /\ selector.pc = "switch"
        /\ selector' = [pc |-> "confirm", id |-> selector.id, captured |-> selector.captured, epoch |-> selector.epoch,
                        catalog |-> selector.catalog, active |-> selector.active, meant |-> selector.meant]
    BY ZenonT(30), <1>1, <1>10 DEF SwitchReply, SelectorOK, SelectorType
  <2>2. "confirm" \in SelectorPcs \ {"confirmed"} /\ selector.pc \notin {"off", "recv", "end"}
    BY ZenonT(30), <2>1 DEF SelectorPcs
  <2> QED
    BY ZenonT(30), <1>0, <1>1, <1>2, <1>3, <2>1, <2>2, SelectorMoves
<1>11. CASE ConfirmReply
  <2> DEFINE m == IF world.current = None THEN None ELSE Meaning(world.inv, world.current)
             a == world.current = selector.id
  <2>1. /\ selector.pc = "confirm"
        /\ selector' = [pc |-> "confirmed", id |-> selector.id, captured |-> selector.captured, epoch |-> selector.epoch,
                        catalog |-> Catalog(selector.epoch), active |-> a, meant |-> m]
    BY ZenonT(30), <1>1, <1>11 DEF ConfirmReply, SelectorOK, SelectorType
  <2>2. Catalog(selector.epoch) \in Catalogs /\ Catalog(selector.epoch) # None /\ Catalog(selector.epoch).inv = world.inv
    BY ZenonT(30), <1>1, SelectorFields, CatalogType
  <2>3. m \in Ids \cup Layouts \cup {None}
    <3>1. world.inv \in Inventories /\ world.current \in DOMAIN world.inv \cup {None}
      BY ZenonT(30), <1>1 DEF WorldOK, WorldType
    <3>2. world.current = None \/ (world.current \in Ids /\ world.inv[world.current] \in Layouts)
      BY ZenonT(30), <3>1, InventoryType
    <3> QED
      BY ZenonT(30), <3>2 DEF Meaning
  <2>4. selector.id # None /\ selector.captured # None
    BY ZenonT(30), <1>1, <2>1, SelectorFields
  <2>5. a \in BOOLEAN /\ (a => m = Meaning(Catalog(selector.epoch).inv, selector.id))
    BY ZenonT(30), <2>2, <2>4
  <2>6. "confirmed" \in SelectorPcs /\ selector.id \in Ids \cup {None} /\ selector.captured \in Catalogs \cup {None} /\ selector.epoch \in Epochs
    BY ZenonT(30), <1>1, <1>2, SelectorFields
  <2> HIDE DEF m
  <2>7. selector' \in SelectorType
    BY ZenonT(30), <2>1, <2>2, <2>3, <2>5, <2>6 DEF SelectorType
  <2>8. /\ selector'.pc = "confirmed" /\ selector'.id = selector.id /\ selector'.captured = selector.captured
        /\ selector'.catalog = Catalog(selector.epoch) /\ selector'.active = a /\ selector'.meant = m
    BY ZenonT(30), <2>1
  <2>9. ReadBackTogether'
    BY ZenonT(30), <1>3, <2>5, <2>8 DEF ReadBackTogether, Meaning
  <2> QED
    BY ZenonT(30), <2>2, <2>4, <2>7, <2>8, <2>9 DEF SelectorOK
<1>12. CASE Selected \/ SelectFails \/ Connect
  BY ZenonT(30), <1>5, <1>12 DEF Selected, SelectFails, Report, Connect
<1> QED
  BY ZenonT(30), <1>4, <1>6, <1>7, <1>8, <1>9, <1>10, <1>11, <1>12
  DEF DesktopNext, desktopVars, LayoutsChange, Restart, TimePasses, Stop, Submit, PollRound, PollerEnds, BeginPoll, FocusReply, SecondReply, StoreFocus,
      BeginSources, SourcesReply, StoreSources, PollFails, Selection, DropSources, DropDesktop, ConnectFails, Joined,
      BridgeServes, BridgeEnds, Publish

-----------------------------------------------------------------------------
(* The provider, its mutex and its connections, start-up and shutdown.     *)

\* Their types.
LEMMA OthersStep ==
    ASSUME Parts, [DesktopNext]_desktopVars
    PROVE  OthersOK'
<1>1. OthersOK
  BY ZenonT(30) DEF Parts
<1>2. UNCHANGED provider
  BY ZenonT(30) DEF DesktopNext, desktopVars, LayoutsChange, Restart, TimePasses, Stop, Submit, PollRound, PollerEnds, BeginPoll, FocusReply, SecondReply,
      StoreFocus, BeginSources, SourcesReply, StoreSources, PollFails, Selection, Receive, BeginSelect, FreshReply, Check,
      SwitchReply, ConfirmReply, Selected, SelectFails, DropSources, DropDesktop, Connect, ConnectFails, Joined, BridgeServes,
      BridgeEnds, Publish
<1>3. dead' \subseteq Both
  <2>1. CASE UNCHANGED dead
    BY ZenonT(30), <1>1, <2>1 DEF OthersOK
  <2>2. CASE Restart
    <3>1. PICK gone \in Restarting : dead' = dead \cup gone
      BY ZenonT(30), <2>2 DEF Restart
    <3>2. gone \subseteq Both
      BY ZenonT(30), <3>1 DEF Restarting, Both
    <3> QED
      BY ZenonT(30), <1>1, <3>1, <3>2 DEF OthersOK
  <2>3. CASE PollFails \/ SelectFails
    <3>1. \A request \in BOOLEAN : \A broken \in SourcesBreak(request) : broken \subseteq Both
      BY ZenonT(30) DEF SourcesBreak, Both
    <3>2. \A broken \in PollBreaks : broken \subseteq Both
      BY ZenonT(30) DEF PollBreaks, Both
    <3>3. TRUE \in BOOLEAN /\ (selector.pc \in {"fresh", "switch", "confirm"}) \in BOOLEAN
      OBVIOUS
    <3>4. PICK broken \in {{}} \cup SourcesBreak(TRUE) \cup PollBreaks \cup SourcesBreak(selector.pc \in {"fresh", "switch", "confirm"}) :
             dead' = dead \cup broken
      BY ZenonT(30), <2>3 DEF PollFails, SelectFails
    <3>5. broken \subseteq Both
      BY ZenonT(30), <3>1, <3>2, <3>3, <3>4
    <3> QED
      BY ZenonT(30), <1>1, <3>4, <3>5 DEF OthersOK
  <2> QED
    BY ZenonT(30), <2>1, <2>2, <2>3 DEF DesktopNext, desktopVars, LayoutsChange, TimePasses, Stop, Submit, PollRound, PollerEnds, BeginPoll, FocusReply,
      SecondReply, StoreFocus, BeginSources, SourcesReply, StoreSources, Selection, Receive, BeginSelect, FreshReply, Check,
      SwitchReply, ConfirmReply, Selected, DropSources, DropDesktop, Connect, ConnectFails, Joined, BridgeServes, BridgeEnds,
      Publish
<1>4. bridge' \in {"off", "starting", "serving", "ended"}
  BY ZenonT(30), <1>1 DEF OthersOK, kwin,
      DesktopNext, desktopVars, LayoutsChange, Restart, TimePasses, Stop, Submit, PollRound, PollerEnds, BeginPoll, FocusReply, SecondReply,
      StoreFocus, BeginSources, SourcesReply, StoreSources, PollFails, Selection, Receive, BeginSelect, FreshReply, Check,
      SwitchReply, ConfirmReply, Selected, SelectFails, DropSources, DropDesktop, Connect, ConnectFails, Joined, BridgeServes,
      BridgeEnds, Publish
<1>5. down' \in {"connecting", "running", "sources", "desktop", "bridge", "done"}
  BY ZenonT(30), <1>1 DEF OthersOK,
      DesktopNext, desktopVars, LayoutsChange, Restart, TimePasses, Stop, Submit, PollRound, PollerEnds, BeginPoll, FocusReply, SecondReply,
      StoreFocus, BeginSources, SourcesReply, StoreSources, PollFails, Selection, Receive, BeginSelect, FreshReply, Check,
      SwitchReply, ConfirmReply, Selected, SelectFails, DropSources, DropDesktop, Connect, ConnectFails, Joined, BridgeServes,
      BridgeEnds, Publish
<1>6. owner' \in {None, "poller", "selector"}
  BY ZenonT(30), <1>1 DEF OthersOK, Report, Release,
      DesktopNext, desktopVars, LayoutsChange, Restart, TimePasses, Stop, Submit, PollRound, PollerEnds, BeginPoll, FocusReply, SecondReply,
      StoreFocus, BeginSources, SourcesReply, StoreSources, PollFails, Selection, Receive, BeginSelect, FreshReply, Check,
      SwitchReply, ConfirmReply, Selected, SelectFails, DropSources, DropDesktop, Connect, ConnectFails, Joined, BridgeServes,
      BridgeEnds, Publish
<1> QED
  BY ZenonT(30), <1>1, <1>2, <1>3, <1>4, <1>5, <1>6 DEF OthersOK

\* The mutex: a thread in the provider holds it, and only that thread gives it back, also
\* when its operation is cut off.
LEMMA SerializedStep ==
    ASSUME Parts, [DesktopNext]_desktopVars
    PROVE  ProviderSerialized'
<1>1. ProviderSerialized /\ poller \in PollerType /\ selector \in SelectorType
  BY ZenonT(30) DEF Parts, PollerOK, SelectorOK
<1>2. ASSUME UNCHANGED selector, Using(poller)' => (Using(poller) \/ owner = None) /\ owner' = "poller",
             owner' = owner \/ (owner \in {None, "poller"} /\ owner' \in {None, "poller"})
      PROVE  ProviderSerialized'
  BY ZenonT(30), <1>1, <1>2 DEF ProviderSerialized, Using
<1>3. ASSUME UNCHANGED poller, Using(selector)' => (Using(selector) \/ owner = None) /\ owner' = "selector",
             owner' = owner \/ (owner \in {None, "selector"} /\ owner' \in {None, "selector"})
      PROVE  ProviderSerialized'
  BY ZenonT(30), <1>1, <1>3 DEF ProviderSerialized, Using
<1>4. CASE UNCHANGED <<poller, selector, owner>>
  BY ZenonT(30), <1>1, <1>4 DEF ProviderSerialized, Using
<1>5. CASE TimePasses
  <2>1. poller'.pc = poller.pc
    BY ZenonT(30), <1>1, <1>5 DEF TimePasses, PollerType
  <2> QED
    BY ZenonT(30), <1>1, <1>5, <2>1 DEF TimePasses, ProviderSerialized, Using
<1>6. CASE Connect
  BY ZenonT(30), <1>6 DEF Connect, ProviderSerialized, Using, Resting, Receiving
<1>7. CASE PollRound
  <2>1. CASE PollerEnds \/ StoreFocus \/ StoreSources \/ PollFails
    <3>1. poller'.pc \in {"end", "want_sources", "want_poll"} /\ UNCHANGED selector
      <4>1. poller' \in {Resting, [Resting EXCEPT !.pc = "want_sources"], [poller EXCEPT !.pc = "end"]} /\ UNCHANGED selector
        BY ZenonT(30), <2>1 DEF PollerEnds, StoreFocus, StoreSources, PollFails
      <4>2. /\ Resting.pc = "want_poll" /\ [Resting EXCEPT !.pc = "want_sources"].pc = "want_sources"
            /\ [poller EXCEPT !.pc = "end"].pc = "end"
        BY ZenonT(30), <1>1 DEF Resting, PollerType
      <4> QED
        BY ZenonT(30), <4>1, <4>2
    <3>2. owner' = owner \/ (owner = "poller" /\ owner' = None)
      BY ZenonT(30), <1>1, <2>1 DEF PollerEnds, StoreFocus, StoreSources, PollFails, Release, ProviderSerialized, Using
    <3>3. ~Using(poller)'
      BY ZenonT(30), <3>1 DEF Using
    <3> QED
      BY ZenonT(30), <1>2, <3>1, <3>2, <3>3
  <2>2. CASE BeginPoll \/ BeginSources
    BY ZenonT(30), <1>2, <2>2 DEF BeginPoll, BeginSources
  <2>3. CASE FocusReply \/ SecondReply \/ SourcesReply
    <3>1. Using(poller) /\ UNCHANGED <<selector, owner>>
      BY ZenonT(30), <2>3 DEF FocusReply, SecondReply, SourcesReply, Using
    <3> QED
      BY ZenonT(30), <1>1, <1>2, <3>1 DEF ProviderSerialized
  <2> QED
    BY ZenonT(30), <1>7, <2>1, <2>2, <2>3 DEF PollRound
<1>8. CASE Selection
  <2>1. CASE Receive \/ Selected \/ SelectFails
    <3>1. selector'.pc \in {"end", "want", "recv"} /\ UNCHANGED poller
      <4>1. UNCHANGED poller /\ (Receive \/ selector' = Receiving)
        BY ZenonT(30), <2>1 DEF Receive, Selected, SelectFails, Report
      <4>2. Receiving.pc = "recv"
        BY ZenonT(30) DEF Receiving
      <4>3. ASSUME Receive PROVE selector'.pc \in {"end", "want"}
        <5>1. \/ selector' = [selector EXCEPT !.pc = "end"]
              \/ selector' = [Receiving EXCEPT !.pc = "want", !.id = Head(queue).id, !.captured = Head(queue).catalog]
          BY ZenonT(30), <4>3 DEF Receive
        <5>2. [selector EXCEPT !.pc = "end"].pc = "end"
          BY ZenonT(30), <1>1 DEF SelectorType
        <5>3. [Receiving EXCEPT !.pc = "want", !.id = Head(queue).id, !.captured = Head(queue).catalog].pc = "want"
          BY ZenonT(30) DEF Receiving
        <5> QED
          BY ZenonT(30), <5>1, <5>2, <5>3
      <4> QED
        BY ZenonT(30), <4>1, <4>2, <4>3
    <3>2. owner' = owner \/ (owner = "selector" /\ owner' = None)
      BY ZenonT(30), <2>1 DEF Receive, Selected, SelectFails, Report, Release
    <3>3. ~Using(selector)'
      BY ZenonT(30), <3>1 DEF Using
    <3> QED
      BY ZenonT(30), <1>3, <3>1, <3>2, <3>3
  <2>2. CASE BeginSelect
    BY ZenonT(30), <1>3, <2>2 DEF BeginSelect
  <2>3. CASE FreshReply \/ Check \/ SwitchReply \/ ConfirmReply
    <3>1. Using(selector) /\ UNCHANGED <<poller, owner>>
      BY ZenonT(30), <2>3 DEF FreshReply, Check, SwitchReply, ConfirmReply, Using
    <3> QED
      BY ZenonT(30), <1>1, <1>3, <3>1 DEF ProviderSerialized
  <2> QED
    BY ZenonT(30), <1>8, <2>1, <2>2, <2>3 DEF Selection
<1> QED
  BY ZenonT(30), <1>4, <1>5, <1>6, <1>7, <1>8
  DEF DesktopNext, desktopVars, LayoutsChange, Restart, Stop, Submit, DropSources, DropDesktop, ConnectFails, Joined, BridgeServes,
      BridgeEnds, Publish

-----------------------------------------------------------------------------
(* The theorems.                                                           *)

\* It holds when the provider is being connected.
LEMMA InitInv == DesktopInit => Parts
<1> SUFFICES ASSUME DesktopInit PROVE Parts
  OBVIOUS
<1>1. WorldOK
  <2>0. PICK i \in Inventories : \E c \in DOMAIN i \cup {None} : world = [inv |-> i, current |-> c, epoch |-> 0]
    BY ZenonT(30) DEF DesktopInit
  <2>1. PICK c \in DOMAIN i \cup {None} : world = [inv |-> i, current |-> c, epoch |-> 0]
    BY ZenonT(30), <2>0
  <2>2. c \in Ids \cup {None} /\ 0 \in Epochs
    BY SMTT(30), InventoryType DEF Epochs
  <2> QED
    BY ZenonT(30), <2>1, <2>2 DEF WorldOK, WorldType
<1>2. CachesOK /\ QueueOK
  BY SMTT(30) DEF DesktopInit, CachesOK, QueueOK
<1>3. PollerOK
  <2>1. poller = [pc |-> "off", stamp |-> 0, read |-> 0, kept |-> TRUE, epoch |-> 0, catalog |-> None]
    BY ZenonT(30) DEF DesktopInit, Resting
  <2>2. 0 \in Ages /\ 0 \in Epochs /\ "off" \in PollerPcs
    BY SMTT(30) DEF Ages, Epochs, PollerPcs
  <2> QED
    BY ZenonT(30), <2>1, <2>2 DEF PollerOK, PollerType
<1>4. SelectorOK
  <2>1. selector = [pc |-> "off", id |-> None, captured |-> None, epoch |-> 0, catalog |-> None, active |-> FALSE, meant |-> None]
    BY ZenonT(30) DEF DesktopInit, Receiving
  <2>2. 0 \in Epochs /\ "off" \in SelectorPcs
    BY SMTT(30) DEF Epochs, SelectorPcs
  <2> QED
    BY ZenonT(30), <2>1, <2>2 DEF SelectorOK, SelectorType, ReadBackTogether
<1>5. OthersOK /\ ProviderSerialized
  BY ZenonT(30) DEF DesktopInit, OthersOK, Resting, Receiving, ProviderSerialized, Using
<1> QED
  BY ZenonT(30), <1>1, <1>2, <1>3, <1>4, <1>5 DEF Parts

\* Every step preserves it.
LEMMA NextInv == Parts /\ [DesktopNext]_desktopVars => Parts'
<1> SUFFICES ASSUME Parts, [DesktopNext]_desktopVars PROVE Parts'
  BY ZenonT(30)
<1> QED
  BY ZenonT(30), WorldStep, CachesStep, QueueStep, PollerStep, SelectorStep, OthersStep, SerializedStep DEF Parts

\* Whatever the providers, inventories and bounds: the two threads never use the provider at
\* once, the queue of selections stays within its capacity, stamps precede what they stamp.
THEOREM DesktopInductive == DesktopSpec => []DesktopInv
<1>1. DesktopSpec => []Parts
  BY InitInv, NextInv, PTL DEF DesktopSpec
<1> QED
  BY <1>1, InvParts, PTL

\* However long the second query, the mutex and the caller take, what the caches hand out
\* was the desktop's answer at most FOCUS_TTL ago.
THEOREM CachesStayFresh == DesktopSpec => []CachesFresh
<1>1. Parts => CachesFresh
  <2> SUFFICES ASSUME Parts, NEW cache \in {focus, sources}, cache # None, cache.stamp <= FocusTTL
               PROVE  cache.read <= FocusTTL
    BY ZenonT(30) DEF CachesFresh
  <2>1. cache.read <= cache.stamp /\ cache.read \in Ages /\ cache.stamp \in Ages
    BY SMTT(30) DEF Parts, CachesOK
  <2> QED
    BY SMTT(30), <2>1 DEF Ages
<1>2. DesktopSpec => []Parts
  BY InitInv, NextInv, PTL DEF DesktopSpec
<1> QED
  BY <1>1, <1>2, PTL

\* A selection reported successful activated the source that was meant at the press, of the
\* providers that look at the inventory again or whose ids are names, whatever edits of the
\* layouts and restarts come between check and switch.
THEOREM NeverReinterprets == DesktopSpec => RecheckedNeverReinterprets
<1>1. Parts /\ [DesktopNext]_desktopVars =>
         [(Selected /\ provider \in {"hyprland"} \cup Named) => selector.meant = Meaning(selector.captured.inv, selector.id)]_desktopVars
  <2> SUFFICES ASSUME Parts, Selected, provider \in {"hyprland"} \cup Named
               PROVE  selector.meant = Meaning(selector.captured.inv, selector.id)
    BY ZenonT(30)
  <2>1. selector.pc = "confirmed" /\ Confirmed
    BY ZenonT(30) DEF Selected
  <2>2. selector.active /\ (provider = "hyprland" => Same(selector.captured, [selector.catalog EXCEPT !.epoch = world.epoch], selector.id))
    BY ZenonT(30), <2>1 DEF Confirmed, HyprlandConfirms, GnomeConfirms, InputMethodConfirms, Named
  <2>3. selector.meant = Meaning(selector.catalog.inv, selector.id) /\ selector.catalog \in Catalogs
    BY ZenonT(30), <2>1, <2>2 DEF Parts, SelectorOK, SelectorType, ReadBackTogether
  <2>4. provider = "hyprland" => selector.captured.inv = selector.catalog.inv
    BY ZenonT(30), <2>2, <2>3 DEF Same, Catalogs
  <2> QED
    BY ZenonT(30), <2>3, <2>4 DEF Meaning
<1>2. DesktopSpec => []Parts
  BY InitInv, NextInv, PTL DEF DesktopSpec
<1> QED
  BY <1>1, <1>2, PTL DEF DesktopSpec, RecheckedNeverReinterprets

=============================================================================
