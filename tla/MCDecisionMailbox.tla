-------------------------- MODULE MCDecisionMailbox --------------------------
(***************************************************************************)
(* Three events, so that a stale request or reply can be told from the     *)
(* current one.                                                            *)
(***************************************************************************)
EXTENDS DecisionMailbox

CONSTANTS e1, e2, e3

=============================================================================
