------------------------------- MODULE Router -------------------------------
(***************************************************************************)
(* The ownership ledger of the native Hyprland plugin (class Router of     *)
(* routing.hpp), as operators on a record: every method of the class is an *)
(* operator that takes the router and returns the router it leaves behind. *)
(*                                                                         *)
(* A keyboard stands for its attachment: generations are never reused and  *)
(* every ticket dies with the device it names, so identity is enough.  The *)
(* deadline of a ticket is the caller's choice of a late answer, and its   *)
(* sequence number is dropped: at most one ticket is alive at a time.      *)
(***************************************************************************)
EXTENDS Naturals, FiniteSets

CONSTANTS
    Keyboards,     \* identities a physical keyboard can be attached under
    Keys,          \* the key codes the keyboards have
    Targets,       \* the key codes a replacement can name
    Modifiers,     \* the keys modifier() knows
    DeviceCount,   \* slots of the device table
    None           \* no ticket, no reply, no client

ASSUME RouterAssumption ==
    /\ Modifiers \subseteq Keys
    /\ DeviceCount \in Nat

Owners == {"None", "Forwarded", "Consumed", "Quarantined", "StockConsumed", "LockerOwned"}
Kinds == {"Down", "Up", "Repeat"}
Event == [dev : Keyboards, key : Keys, kind : Kinds]
Ticket == [dev : Keyboards, key : Keys, epoch : Nat, focus : Nat]
Decision == [verdict : {"Pass", "Swallow"}, target : {None}] \cup
            [verdict : {"Replace"}, target : Targets]
Deliveries == {"Accepted", "RejectedNoOutput", "PartialFatal"}
Outcomes == {"Forwarded", "Merged", "Swallowed", "Replaced", "Rejected",
             "PartialFatal", "StockConsumed", "LockerOwned", "Quarantined"}

Free == [k \in Keys |-> "None"]

NewRouter ==
    [devices |-> {}, owner |-> [d \in Keyboards |-> Free], epoch |-> 1, focus |-> 1,
     locked |-> TRUE, fatal |-> FALSE, pending |-> None, released |-> None]

Routers ==
    [devices : SUBSET Keyboards, owner : [Keyboards -> [Keys -> Owners]],
     epoch : Nat, focus : Nat, locked : BOOLEAN, fatal : BOOLEAN,
     pending : Ticket \cup {None}, released : Ticket \cup {None}]

Result(outcome, stock, client) == [outcome |-> outcome, stock |-> stock, client |-> client]

-----------------------------------------------------------------------------
(* What the ledger says.                                                   *)

OtherForwarded(r, d, k) == \E e \in r.devices \ {d} : r.owner[e][k] = "Forwarded"

TargetHeld(r, k) == k \in Keys /\ \E d \in r.devices : r.owner[d][k] # "None"

OwnershipEmpty(r) == r.pending = None /\ \A k \in Keys : ~TargetHeld(r, k)

Quiescent(r) == OwnershipEmpty(r) /\ ~r.fatal

\* The keys some device owns as o: focusEnterKeys for "Forwarded",
\* lockerEnterKeys for "LockerOwned".
HeldAs(r, o) == {k \in Keys : \E d \in r.devices : r.owner[d][k] = o}

-----------------------------------------------------------------------------
(* Tickets.                                                                *)

TicketFor(r, e) == [dev |-> e.dev, key |-> e.key, epoch |-> r.epoch, focus |-> r.focus]

\* A press of a free key, or the last forwarded release of a modifier.
MayBegin(r, e) ==
    /\ e.dev \in r.devices
    /\ r.pending = None
    /\ ~r.locked
    /\ ~r.fatal
    /\ \/ e.kind = "Down" /\ r.owner[e.dev][e.key] = "None"
       \/ /\ e.kind = "Up"
          /\ e.key \in Modifiers
          /\ r.owner[e.dev][e.key] = "Forwarded"
          /\ ~OtherForwarded(r, e.dev, e.key)

\* Correlation for a release or a repeat; never pending, granted even when fatal.
MaySettle(r, e) == e.dev \in r.devices /\ ~r.locked /\ e.kind # "Down"

\* The tickets a callback can end up with: none at all, a begun one, a begun one
\* whose epoch announcement could not be queued (pending stays), a settlement.
Proposals(r, e) ==
    LET t == TicketFor(r, e)
        begun == [r EXCEPT !.pending = t]
    IN  IF MayBegin(r, e)
        THEN {[router |-> begun, ticket |-> t], [router |-> begun, ticket |-> None]}
        ELSE {[router |-> r, ticket |-> None]} \cup
             (IF MaySettle(r, e) THEN {[router |-> r, ticket |-> t]} ELSE {})

-----------------------------------------------------------------------------
(* Routing one event.                                                      *)

MutMerged(r, e) == FALSE

\* Another keyboard still holds the key down for the client.
Merged(r, e) == e.kind = "Up" /\ OtherForwarded(r, e.dev, e.key)

MutReleaseOwned(r, e, ticket) ==
    IF e.kind # "Up" \/ r.owner[e.dev][e.key] = "Quarantined" THEN r
    ELSE [r EXCEPT !.owner[e.dev][e.key] = "None", !.pending = None]

\* A release gives the key back and settles the ticket of a modifier's action.
ReleaseOwned(r, e, ticket) ==
    IF e.kind # "Up" THEN r
    ELSE [r EXCEPT !.owner[e.dev][e.key] = "None",
                   !.pending = None,
                   !.released = IF /\ r.owner[e.dev][e.key] = "Forwarded"
                                   /\ e.key \in Modifiers
                                   /\ ~OtherForwarded(r, e.dev, e.key)
                                   /\ ticket # None /\ r.pending = ticket
                                THEN ticket ELSE None]

\* An owned key follows its owner, whatever the decision says.
RouteOwned(r, e, ticket) ==
    LET was == r.owner[e.dev][e.key]
    IN  [router |-> ReleaseOwned(r, e, ticket), result |->
            CASE was = "StockConsumed" -> Result("StockConsumed", TRUE, FALSE)
              [] was = "LockerOwned" -> Result("LockerOwned", r.locked, r.locked)
              [] was = "Quarantined" -> Result("Quarantined", FALSE, FALSE)
              [] was = "Consumed" -> Result("Swallowed", FALSE, FALSE)
              [] was = "Forwarded" /\ Merged(r, e) -> Result("Merged", TRUE, FALSE)
              [] was = "Forwarded" /\ ~Merged(r, e) -> Result("Forwarded", TRUE, TRUE)]

\* The decision counts only for the ticket still pending, in the epoch and the
\* focus it was taken in, and in time.
Admits(r, ticket, reply, late) ==
    /\ ticket # None /\ reply # None
    /\ r.pending = ticket
    /\ ~r.fatal /\ ~late
    /\ ticket.epoch = r.epoch /\ ticket.focus = r.focus

\* A fresh press: what becomes of it, and of the replacement the output tried.
RouteFresh(r, e, ticket, reply, late, delivery) ==
    LET asked == IF Admits(r, ticket, reply, late) THEN reply.verdict ELSE "Pass"
        refused == /\ asked = "Replace"
                   /\ \/ reply.target = e.key
                      \/ TargetHeld(r, reply.target)
                      \/ delivery = "RejectedNoOutput"
        verdict == IF refused THEN "Pass" ELSE asked
        partial == verdict = "Replace" /\ delivery = "PartialFatal"
        merged == verdict = "Pass" /\ OtherForwarded(r, e.dev, e.key)
        outcome == CASE refused -> "Rejected"
                     [] verdict = "Swallow" -> "Swallowed"
                     [] partial -> "PartialFatal"
                     [] verdict = "Replace" /\ ~partial -> "Replaced"
                     [] OTHER -> IF merged THEN "Merged" ELSE "Forwarded"
    IN  [router |-> [r EXCEPT
            !.owner[e.dev][e.key] = IF verdict = "Pass" THEN "Forwarded" ELSE "Consumed",
            !.pending = None,
            !.fatal = @ \/ partial],
         result |-> Result(outcome, verdict = "Pass", verdict = "Pass" /\ ~merged)]

Route(r, e, ticket, reply, late, delivery) ==
    IF r.owner[e.dev][e.key] # "None" THEN RouteOwned(r, e, ticket)
    ELSE IF e.kind # "Down" THEN [router |-> r, result |-> Result("Forwarded", TRUE, TRUE)]
    ELSE IF r.locked
         THEN [router |-> [r EXCEPT !.owner[e.dev][e.key] = "LockerOwned"],
               result |-> Result("LockerOwned", TRUE, TRUE)]
    ELSE RouteFresh(r, e, ticket, reply, late, delivery)

\* Stock's keybinding took the press: the key owns its release, no client saw it.
OriginalOutcome(r, e, result, admitted) ==
    IF /\ e.kind = "Down"
       /\ result.client \/ result.outcome = "Merged"
       /\ r.owner[e.dev][e.key] \in {"Forwarded", "LockerOwned"}
       /\ ~admitted
    THEN [router |-> [r EXCEPT !.owner[e.dev][e.key] = "StockConsumed"],
          result |-> Result("StockConsumed", TRUE, FALSE)]
    ELSE [router |-> r, result |-> result]

\* The action of a modifier release, after the release itself went through stock.
FinishRelease(r, ticket, reply, delivered, late, delivery, original) ==
    LET eligible == /\ r.released = ticket /\ delivered
                    /\ ~r.locked /\ ~r.fatal /\ ~late
                    /\ ticket.epoch = r.epoch /\ ticket.focus = r.focus
                    /\ reply.target # ticket.key /\ ~TargetHeld(r, reply.target)
        outcome == IF reply = None \/ reply.verdict # "Replace" THEN original
                   ELSE IF ~eligible \/ delivery = "RejectedNoOutput" THEN "Rejected"
                   ELSE IF delivery = "PartialFatal" THEN "PartialFatal"
                   ELSE "Replaced"
    IN  [router |-> [r EXCEPT !.released = None, !.fatal = @ \/ outcome = "PartialFatal"],
         outcome |-> outcome]

-----------------------------------------------------------------------------
(* Lifecycle.                                                              *)

FocusChanged(r) == [r EXCEPT !.pending = None, !.focus = @ + 1, !.epoch = @ + 1]

UnlockConfirmed(r) == [r EXCEPT !.epoch = @ + 1, !.focus = @ + 1, !.locked = FALSE]

\* Every forwarded key is released once on the old route, whose writes cannot be
\* confirmed, and every owned key is quarantined.
MutRevoke(r) ==
    [r EXCEPT !.pending = None, !.epoch = @ + 1,
              !.fatal = @ \/ HeldAs(r, "Forwarded") # {},
              !.owner = [d \in Keyboards |-> [k \in Keys |->
                  IF r.owner[d][k] = "Forwarded" THEN "Quarantined" ELSE r.owner[d][k]]]]

Revoke(r) ==
    [r EXCEPT !.pending = None, !.epoch = @ + 1,
              !.fatal = @ \/ HeldAs(r, "Forwarded") # {},
              !.owner = [d \in Keyboards |-> [k \in Keys |->
                  IF r.owner[d][k] = "None" THEN "None" ELSE "Quarantined"]]]

Lock(r) == Revoke([r EXCEPT !.locked = TRUE])

\* The keys that retiring d releases: forwarded here and nowhere else.
OnlyForwardedBy(r, d) ==
    {k \in Keys : r.owner[d][k] = "Forwarded" /\ ~OtherForwarded(r, d, k)}

Retire(r, d) ==
    [r EXCEPT !.epoch = @ + 1, !.pending = None,
              !.fatal = @ \/ OnlyForwardedBy(r, d) # {},
              !.owner[d] = Free, !.devices = @ \ {d}]

MayAdd(r, d) == d \notin r.devices /\ Cardinality(r.devices) < DeviceCount

Add(r, d) == [r EXCEPT !.devices = @ \cup {d}]

MayRecover(r) == r.fatal /\ OwnershipEmpty(r) /\ ~r.locked

RecoverRetiredOutput(r) == [r EXCEPT !.fatal = FALSE, !.epoch = @ + 1, !.focus = @ + 1]

=============================================================================
