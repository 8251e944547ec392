----------------------------- MODULE MCSession ------------------------------
(***************************************************************************)
(* Small instances of Session for TLC.                                     *)
(***************************************************************************)
EXTENDS Session

MCGens == {1}
MCKeys == {"a", "ctrl"}
MCModifiers == {"ctrl"}

=============================================================================
