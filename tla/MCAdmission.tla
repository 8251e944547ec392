----------------------------- MODULE MCAdmission ----------------------------
(* Two keyboards with one keymap, and connections that come and go.        *)
EXTENDS Admission

CONSTANTS k1, k2, m1

MCKeyboards == {k1, k2}
MCMaps == {m1}

=============================================================================
