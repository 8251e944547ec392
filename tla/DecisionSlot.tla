---------------------------- MODULE DecisionSlot ----------------------------
(***************************************************************************)
(* What the compositor callback may rely on: it asks about one event at a  *)
(* time and gets back either the daemon's decision on that event or        *)
(* nothing, exactly once.                                                  *)
(***************************************************************************)
CONSTANTS Events, NoEvent

\* A decision packet is identified with the event it answers.
VARIABLES
  asked,    \* the event the callback waits for, or NoEvent
  result    \* <<event, decision>> of the latest return; NoEvent is no decision

slotVars == <<asked, result>>

SlotInit == asked = NoEvent /\ result = <<NoEvent, NoEvent>>

Ask(e) == asked = NoEvent /\ asked' = e /\ UNCHANGED result

Answer == asked # NoEvent /\ result' = <<asked, asked>> /\ asked' = NoEvent

GiveUp == asked # NoEvent /\ result' = <<asked, NoEvent>> /\ asked' = NoEvent

SlotNext == (\E e \in Events : Ask(e)) \/ Answer \/ GiveUp

SlotSpec == SlotInit /\ [][SlotNext]_slotVars /\ WF_slotVars(Answer \/ GiveUp)

\* Without the promise that the callback returns.
SlotSafety == SlotInit /\ [][SlotNext]_slotVars

=============================================================================
