---------------------------- MODULE MCMatcherTaps ----------------------------
(***************************************************************************)
(* One keyboard, a modifier with a bit (right alt), one without (caps) and *)
(* an ordinary key; two rules on the same modifier with different windows. *)
(***************************************************************************)
EXTENDS MatcherTaps, TLC

CONSTANTS d1, k, ralt, caps, appA, RALT, ALT, SHIFT

MCModifierBit == (ralt :> {RALT}) @@ (caps :> {})
MCGenericBit == (ralt :> {ALT}) @@ (caps :> {})
MCEventMods == SUBSET {RALT, ALT, SHIFT}

MCRuleSets ==
  {[hotkeys |-> <<>>,
    taps |-> <<[tap |-> ralt, count |-> 2, within |-> 0, scope |-> {appA}],
               [tap |-> ralt, count |-> 2, within |-> 1, scope |-> Focus],
               [tap |-> caps, count |-> 2, within |-> 0, scope |-> Focus]>>]}

=============================================================================
