----------------------------- MODULE MCDesktop -----------------------------
(***************************************************************************)
(* A small instance of Desktop for TLC: one source id, which stands for    *)
(* one layout or, once the user has edited them, for another.              *)
(***************************************************************************)
EXTENDS Desktop, TLC

MCInventories == {("0" :> "us"), ("0" :> "de")}

=============================================================================
