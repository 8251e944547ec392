------------------------------ MODULE MCMatcher ------------------------------
(***************************************************************************)
(* The matcher on two keyboards with one modifier and one ordinary key, a  *)
(* rule set that replaces both a hotkey and a modifier tap, and an empty one *)
(* for reload to alternate with.                                           *)
(***************************************************************************)
EXTENDS Matcher, TLC

CONSTANTS d1, d2, k, alt, appA, RALT, ALT

MCModifierBit == [m \in {alt} |-> {RALT}]
MCGenericBit == [m \in {alt} |-> {ALT}]
MCEventMods == {{}}

\* Hotkey k (only in appA) and a tap of alt.
Scoped ==
  [hotkeys |-> <<[key |-> k, mods |-> {}, scope |-> {appA}]>>,
   taps |-> <<[tap |-> alt, count |-> 1, within |-> 0, scope |-> Focus]>>]

Empty == [hotkeys |-> <<>>, taps |-> <<>>]

\* The keyboards are interchangeable: no rule names one.
Symmetric == Permutations(Devices)

MCRuleSets == {Scoped, Empty}

=============================================================================
