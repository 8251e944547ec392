------------------------------ MODULE MCRouting -----------------------------
(* Two keyboards, a modifier and a letter, two clients.                    *)
EXTENDS Routing, TLC

CONSTANTS d1, d2, shift, a, c1, c2

MCKeyboards == {d1, d2}
MCKeys == {shift}
MCTargets == {shift, a}
MCModifiers == {shift}
MCClients == {c1, c2}

\* Epoch and focus numbers are only ever compared with those of the live ticket.
Live == IF cur = None THEN FALSE ELSE cur.ticket # None
MCView ==
    <<[router EXCEPT !.epoch = Live /\ @ = cur.ticket.epoch,
                     !.focus = Live /\ @ = cur.ticket.focus,
                     !.released = @ # None],
      IF Live THEN [cur EXCEPT !.ticket = TRUE] ELSE cur,
      held, phase, bootstrap, seat, ledger, fresh, locking, stock>>

MCSymmetry == Permutations(MCKeyboards) \cup Permutations(MCClients)

=============================================================================
