------------------------------- MODULE TapFsm -------------------------------
(***************************************************************************)
(* The modifier-tap recogniser of packages/core/src/tap_fsm.rs as pure     *)
(* operators on one recogniser's state.  A recogniser counts consecutive   *)
(* taps of one modifier key; the matcher keeps one per tap rule and device.*)
(*                                                                         *)
(* states (a HashMap from key to TapState) is a total function in which    *)
(* count 0 stands for "no entry": the code never stores an entry with      *)
(* count 0.  active_down_at is written and never read, so it is left out.  *)
(***************************************************************************)
EXTENDS Naturals

CONSTANTS
  ModKeys,      \* modifier key codes (KeyCode::is_modifier)
  Bits,         \* bits of the Modifiers bitflags
  ModifierBit,  \* KeyCode::modifier_bit: side-specific bit, {} for Caps Lock
  GenericBit,   \* KeyCodeGenericBit::generic_bit
  NoKey,        \* active_key = None
  MaxCount      \* where u32::saturating_add stops counting

ASSUME KeyAssumption ==
  /\ ModifierBit \in [ModKeys -> SUBSET Bits]
  /\ GenericBit \in [ModKeys -> SUBSET Bits]
  /\ NoKey \notin ModKeys

ASSUME CountAssumption == MaxCount \in Nat \ {0}

Fsm ==
  [within  : Nat,
   states  : [ModKeys -> [count : 0..MaxCount, last_tap_at : Nat]],
   active  : ModKeys \cup {NoKey},
   tainted : BOOLEAN]

NoTaps == [k \in ModKeys |-> [count |-> 0, last_tap_at |-> 0]]

\* TapFsm::with_window
WithWindow(within) ==
  [within |-> within, states |-> NoTaps, active |-> NoKey, tainted |-> FALSE]

\* TapFsm::on_other_key
OnOtherKey(f) ==
  [f EXCEPT !.states = NoTaps, !.tainted = @ \/ f.active # NoKey]

-----------------------------------------------------------------------------
\* The (false, true) arm of on_transition: key goes down.
OnPress(f, key, mods) ==
  IF mods \ (ModifierBit[key] \cup GenericBit[key]) # {}
  THEN [f EXCEPT !.states = NoTaps, !.active = NoKey]
  ELSE LET g == IF f.active \in {NoKey, key} THEN f ELSE OnOtherKey(f)
       IN  [g EXCEPT !.states = [k \in ModKeys |-> IF k = key THEN @[k] ELSE NoTaps[k]],
                     !.active = key,
                     !.tainted = FALSE]

\* The release of an untainted candidate is a tap.
IsTap(f, key) == f.active = key /\ ~f.tainted

\* A plausible slip: the window is exclusive.
MutTapCount(f, key, now) ==
  LET s == f.states[key]
  IN  IF s.count > 0 /\ s.last_tap_at <= now /\ now - s.last_tap_at < f.within
      THEN IF s.count < MaxCount THEN s.count + 1 ELSE MaxCount
      ELSE 1

\* How many taps in a row the tap at time now completes.
TapCount(f, key, now) ==
  LET s == f.states[key]
  IN  IF s.count > 0 /\ s.last_tap_at <= now /\ now - s.last_tap_at <= f.within
      THEN IF s.count < MaxCount THEN s.count + 1 ELSE MaxCount
      ELSE 1

\* The (true, false) arm of on_transition: key goes up.
OnRelease(f, key, now) ==
  IF IsTap(f, key)
  THEN [f EXCEPT !.active = NoKey,
                 !.states[key] = [count |-> TapCount(f, key, now), last_tap_at |-> now]]
  ELSE IF f.active = key
  THEN [f EXCEPT !.active = NoKey, !.tainted = FALSE]
  ELSE f

\* TapFsm::on_transition; a repeat (was = is) changes nothing.
OnTransition(f, key, was, is, mods, now) ==
  IF ~was /\ is THEN OnPress(f, key, mods)
  ELSE IF was /\ ~is THEN OnRelease(f, key, now)
  ELSE f

\* The count of TapResult::Tapped, 0 for TapResult::None.
Tapped(f, key, was, is, now) ==
  IF was /\ ~is /\ IsTap(f, key) THEN TapCount(f, key, now) ELSE 0

=============================================================================
