---------------------------- MODULE RoutingProofs ---------------------------
(***************************************************************************)
(* Proofs about Routing, for every set of keyboards, keys, replacement     *)
(* targets and clients: the inductive invariant RoutingInv, and what it    *)
(* gives of the focused client, of stock's ledger, of the Outcome packets, *)
(* of the lock and of quarantined keys.                                    *)
(***************************************************************************)
EXTENDS Routing, TLAPS

OwnerTable == [Keyboards -> [Keys -> Owners]]
MaybeTicket == Ticket \cup {None}
Results == [outcome : Outcomes, stock : BOOLEAN, client : BOOLEAN]

-----------------------------------------------------------------------------
(* The Router's operators, field by field.                                 *)

\* What the fields of a router are.
LEMMA RouterFields ==
    ASSUME NEW r \in Routers
    PROVE  /\ r.devices \in SUBSET Keyboards /\ r.owner \in OwnerTable
           /\ r.epoch \in Nat /\ r.focus \in Nat /\ r.locked \in BOOLEAN /\ r.fatal \in BOOLEAN
           /\ r.pending \in MaybeTicket /\ r.released \in MaybeTicket
BY ZenonT(30) DEF Routers, OwnerTable, MaybeTicket

\* A focus change drops the proposal and moves the focus number on.
LEMMA FocusChangedFields ==
    ASSUME NEW r \in Routers, NEW n, n = FocusChanged(r)
    PROVE  /\ n \in Routers /\ n.devices = r.devices /\ n.owner = r.owner
           /\ n.locked = r.locked /\ n.fatal = r.fatal
           /\ n.pending = None /\ n.released = r.released
           /\ n.focus = r.focus + 1
<1>1. r.epoch + 1 \in Nat /\ r.focus + 1 \in Nat
  BY SMTT(30), RouterFields
<1>2. \A e \in Nat, f \in Nat : [r EXCEPT !.pending = None, !.focus = f, !.epoch = e] \in Routers
  BY ZenonT(30) DEF Routers
<1>3. n = [r EXCEPT !.pending = None, !.focus = r.focus + 1, !.epoch = r.epoch + 1]
  BY ZenonT(30) DEF FocusChanged
<1>4. n \in Routers
  BY ZenonT(30), <1>1, <1>2, <1>3
<1> QED
  BY ZenonT(30), <1>3, <1>4 DEF Routers

\* A confirmed unlock opens the router.
LEMMA UnlockConfirmedFields ==
    ASSUME NEW r \in Routers, NEW n, n = UnlockConfirmed(r)
    PROVE  /\ n \in Routers /\ n.devices = r.devices /\ n.owner = r.owner
           /\ ~n.locked /\ n.fatal = r.fatal
           /\ n.pending = r.pending /\ n.released = r.released
           /\ n.focus = r.focus + 1
<1>1. r.epoch + 1 \in Nat /\ r.focus + 1 \in Nat
  BY SMTT(30), RouterFields
<1>2. \A e \in Nat, f \in Nat : [r EXCEPT !.epoch = e, !.focus = f, !.locked = FALSE] \in Routers
  BY ZenonT(30) DEF Routers
<1>3. n = [r EXCEPT !.epoch = r.epoch + 1, !.focus = r.focus + 1, !.locked = FALSE]
  BY ZenonT(30) DEF UnlockConfirmed
<1>4. n \in Routers
  BY ZenonT(30), <1>1, <1>2, <1>3
<1> QED
  BY ZenonT(30), <1>3, <1>4 DEF Routers

\* A recovery forgives the uncertain output and nothing else.
LEMMA RecoverFields ==
    ASSUME NEW r \in Routers, NEW n, n = RecoverRetiredOutput(r)
    PROVE  /\ n \in Routers /\ n.devices = r.devices /\ n.owner = r.owner
           /\ n.locked = r.locked /\ ~n.fatal
           /\ n.pending = r.pending /\ n.released = r.released
           /\ n.focus = r.focus + 1
<1>1. r.epoch + 1 \in Nat /\ r.focus + 1 \in Nat
  BY SMTT(30), RouterFields
<1>2. \A e \in Nat, f \in Nat : [r EXCEPT !.fatal = FALSE, !.epoch = e, !.focus = f] \in Routers
  BY ZenonT(30) DEF Routers
<1>3. n = [r EXCEPT !.fatal = FALSE, !.epoch = r.epoch + 1, !.focus = r.focus + 1]
  BY ZenonT(30) DEF RecoverRetiredOutput
<1>4. n \in Routers
  BY ZenonT(30), <1>1, <1>2, <1>3
<1> QED
  BY ZenonT(30), <1>3, <1>4 DEF Routers

\* A lock quarantines whatever is owned; what was forwarded is released unconfirmed.
LEMMA LockFields ==
    ASSUME NEW r \in Routers, NEW n, n = Lock(r)
    PROVE  /\ n \in Routers /\ n.devices = r.devices /\ n.locked
           /\ n.pending = None /\ n.released = r.released /\ n.focus = r.focus
           /\ \A d \in Keyboards, k \in Keys :
                n.owner[d][k] = IF r.owner[d][k] = "None" THEN "None" ELSE "Quarantined"
<1> DEFINE o == [d \in Keyboards |-> [k \in Keys |-> IF r.owner[d][k] = "None" THEN "None" ELSE "Quarantined"]]
           l == [r EXCEPT !.locked = TRUE]
           f == l.fatal \/ HeldAs(l, "Forwarded") # {}
<1>1. r.epoch + 1 \in Nat /\ o \in OwnerTable /\ f \in BOOLEAN
  BY SMTT(30), RouterFields DEF OwnerTable, Owners
<1>2. l \in Routers
  BY ZenonT(30) DEF Routers
<1>3. /\ l.devices = r.devices /\ l.owner = r.owner /\ l.epoch = r.epoch /\ l.locked
      /\ l.released = r.released /\ l.focus = r.focus
  BY ZenonT(30) DEF Routers
<1>b. PICK b \in BOOLEAN : b = f
  <2> HIDE DEF f
  <2> QED BY ZenonT(30), <1>1
<1>4. \A e \in Nat, t \in OwnerTable :
         [l EXCEPT !.pending = None, !.epoch = e, !.fatal = b, !.owner = t] \in Routers
  <2> HIDE DEF l, f
  <2> QED BY ZenonT(30), <1>2 DEF Routers, OwnerTable
<1>5. n = [l EXCEPT !.pending = None, !.epoch = r.epoch + 1, !.fatal = f, !.owner = o]
  BY ZenonT(30), <1>3 DEF Lock, Revoke
<1> HIDE DEF l, f
<1>6. n \in Routers
  <2> HIDE DEF o
  <2>1. n = [l EXCEPT !.pending = None, !.epoch = r.epoch + 1, !.fatal = b, !.owner = o]
    BY ZenonT(30), <1>5, <1>b
  <2> QED BY ZenonT(30), <1>1, <1>4, <2>1
<1>7. n.devices = r.devices /\ n.locked /\ n.pending = None /\ n.released = r.released /\ n.focus = r.focus /\ n.owner = o
  <2> HIDE DEF o
  <2> QED BY ZenonT(30), <1>2, <1>3, <1>5 DEF Routers
<1> QED
  BY SMTT(30), <1>6, <1>7

Retired(r, d, n) ==
    /\ n \in Routers /\ n.devices = r.devices \ {d}
    /\ n.locked = r.locked /\ (n.fatal <=> r.fatal \/ OnlyForwardedBy(r, d) # {})
    /\ n.pending = None /\ n.released = r.released /\ n.focus = r.focus
    /\ \A x \in Keyboards, k \in Keys : n.owner[x][k] = IF x = d THEN "None" ELSE r.owner[x][k]
    /\ n.owner[d] = Free
    /\ \A x \in Keyboards \ {d} : n.owner[x] = r.owner[x]

\* A keyboard that is retired owns nothing, and is gone.
LEMMA RetireFields ==
    ASSUME NEW r \in Routers, NEW d \in Keyboards
    PROVE  Retired(r, d, Retire(r, d))
<1> DEFINE n == Retire(r, d)
<1> DEFINE o == [r.owner EXCEPT ![d] = Free]
           f == r.fatal \/ OnlyForwardedBy(r, d) # {}
           D == r.devices \ {d}
<1>1. r.epoch + 1 \in Nat /\ D \in SUBSET Keyboards /\ f \in BOOLEAN
  BY SMTT(30), RouterFields
<1>2. o \in OwnerTable /\ o[d] = Free /\ \A x \in Keyboards \ {d} : o[x] = r.owner[x]
  BY ZenonT(30), RouterFields DEF OwnerTable, Owners, Free
<1>b. PICK b \in BOOLEAN : b = f
  <2> HIDE DEF f
  <2> QED BY ZenonT(30), <1>1
<1>3. \A e \in Nat, t \in OwnerTable :
         [r EXCEPT !.epoch = e, !.pending = None, !.fatal = b, !.owner = t, !.devices = D] \in Routers
  <2> HIDE DEF D, f
  <2> QED BY ZenonT(30), <1>1 DEF Routers, OwnerTable
<1>4. n = [r EXCEPT !.epoch = r.epoch + 1, !.pending = None, !.fatal = f, !.owner = o, !.devices = D]
  BY ZenonT(30) DEF Retire
<1> HIDE DEF o, f, D, n
<1>5. n \in Routers
  <2>1. n = [r EXCEPT !.epoch = r.epoch + 1, !.pending = None, !.fatal = b, !.owner = o, !.devices = D]
    BY ZenonT(30), <1>4, <1>b
  <2> QED BY ZenonT(30), <1>1, <1>2, <1>3, <2>1
<1>6. n.devices = D /\ n.owner = o /\ n.fatal = f /\ n.locked = r.locked /\ n.pending = None /\ n.released = r.released /\ n.focus = r.focus
  BY ZenonT(30), <1>4 DEF Routers
<1>7. n.fatal <=> f
  BY ZenonT(30), <1>1, <1>6
<1>8. \A x \in Keyboards, k \in Keys : n.owner[x][k] = IF x = d THEN "None" ELSE r.owner[x][k]
  BY ZenonT(30), <1>2, <1>6 DEF Free
<1>9. Retired(r, d, n)
  BY ZenonT(30), <1>2, <1>5, <1>6, <1>7, <1>8 DEF Retired, D, f
<1> QED
  BY ZenonT(30), <1>9 DEF n

-----------------------------------------------------------------------------
(* route().                                                                *)

\* Only the owner of one key changes, to v.
Moves(r, n, d, k, v) ==
    /\ n \in Routers /\ n.devices = r.devices /\ n.locked = r.locked /\ n.focus = r.focus
    /\ n.owner[d][k] = v
    /\ \A x \in Keyboards, y \in Keys : x # d \/ y # k => n.owner[x][y] = r.owner[x][y]
    /\ \A x \in Keyboards : x # d => n.owner[x] = r.owner[x]

\* The owner that an event leaves an owned key with, and a press a free one.
OwnedAfter(r, e) == IF e.kind = "Up" THEN "None" ELSE r.owner[e.dev][e.key]
TakenAs(res) == IF res.stock THEN "Forwarded" ELSE "Consumed"

Releases(r, e, ticket, n) ==
    /\ Moves(r, n, e.dev, e.key, OwnedAfter(r, e))
    /\ n.fatal <=> r.fatal
    /\ e.kind # "Up" => n = r
    /\ e.kind = "Up" => n.pending = None /\ (n.released # None => ticket # None)

\* A release gives the key back; anything else leaves an owned key alone.
LEMMA ReleaseOwnedMoves ==
    ASSUME NEW r \in Routers, NEW e \in Event, NEW ticket \in MaybeTicket
    PROVE  Releases(r, e, ticket, ReleaseOwned(r, e, ticket))
<1> DEFINE n == ReleaseOwned(r, e, ticket)
<1>0. e.dev \in Keyboards /\ e.key \in Keys
  BY ZenonT(30) DEF Event
<1>1. CASE e.kind # "Up"
  BY ZenonT(30), <1>0, <1>1 DEF ReleaseOwned, Moves, OwnedAfter, Releases
<1>2. CASE e.kind = "Up"
  <2> DEFINE o == [r.owner EXCEPT ![e.dev][e.key] = "None"]
             q == IF /\ r.owner[e.dev][e.key] = "Forwarded" /\ e.key \in Modifiers
                     /\ ~OtherForwarded(r, e.dev, e.key) /\ ticket # None /\ r.pending = ticket
                  THEN ticket ELSE None
  <2>1. o \in OwnerTable /\ o[e.dev][e.key] = "None"
        /\ \A x \in Keyboards, y \in Keys : x # e.dev \/ y # e.key => o[x][y] = r.owner[x][y]
    BY ZenonT(30), <1>0, RouterFields DEF OwnerTable, Owners
  <2>2. \A x \in Keyboards : x # e.dev => o[x] = r.owner[x]
    BY ZenonT(30), <1>0, RouterFields DEF OwnerTable
  <2>3. q \in MaybeTicket /\ (q # None => ticket # None)
    BY ZenonT(30) DEF MaybeTicket
  <2>4. [r EXCEPT !.owner = o, !.pending = None, !.released = q] \in Routers
    <3> HIDE DEF o, q
    <3> QED BY ZenonT(30), <2>1, <2>3 DEF Routers, OwnerTable, MaybeTicket
  <2>5. n = [r EXCEPT !.owner = o, !.pending = None, !.released = q]
    BY ZenonT(30), <1>2 DEF ReleaseOwned
  <2> HIDE DEF o, q, n
  <2>6. n \in Routers
    BY ZenonT(30), <2>4, <2>5
  <2>7. /\ n.devices = r.devices /\ n.locked = r.locked /\ n.focus = r.focus /\ n.fatal = r.fatal
        /\ n.owner = o /\ n.pending = None /\ n.released = q
    BY ZenonT(30), <2>5 DEF Routers
  <2>8. Releases(r, e, ticket, n)
    BY ZenonT(30), <1>2, <2>1, <2>2, <2>3, <2>6, <2>7 DEF Moves, OwnedAfter, Releases
  <2> QED
    BY ZenonT(30), <2>8 DEF n
<1> QED
  BY ZenonT(30), <1>1, <1>2

\* The fields of a result.
LEMMA ResultFields ==
    ASSUME NEW o \in Outcomes
    PROVE  /\ Result(o, TRUE, TRUE) \in Results /\ Result(o, TRUE, TRUE).outcome = o
           /\ Result(o, TRUE, TRUE).stock /\ Result(o, TRUE, TRUE).client
           /\ Result(o, TRUE, FALSE) \in Results /\ Result(o, TRUE, FALSE).outcome = o
           /\ Result(o, TRUE, FALSE).stock /\ ~Result(o, TRUE, FALSE).client
           /\ Result(o, FALSE, FALSE) \in Results /\ Result(o, FALSE, FALSE).outcome = o
           /\ ~Result(o, FALSE, FALSE).stock /\ ~Result(o, FALSE, FALSE).client
BY ZenonT(30) DEF Result, Results

\* What an owned key's event comes to.
Follows(r, e, was, res) ==
    /\ res \in Results
    /\ was = OwnerOf(res.outcome) /\ res.outcome \notin {"Replaced", "PartialFatal", "Rejected"}
    /\ res.outcome = "Merged" <=> was = "Forwarded" /\ e.kind = "Up" /\ OtherForwarded(r, e.dev, e.key)
    /\ res.stock <=> (was \in {"Forwarded", "StockConsumed"} \/ (was = "LockerOwned" /\ r.locked))
    /\ res.client <=> (res.outcome = "Forwarded" \/ (was = "LockerOwned" /\ r.locked))

\* An owned key follows its owner.
LEMMA RouteOwnedResult ==
    ASSUME NEW r \in Routers, NEW e \in Event, NEW ticket, r.owner[e.dev][e.key] # "None"
    PROVE  Follows(r, e, r.owner[e.dev][e.key], RouteOwned(r, e, ticket).result)
<1> DEFINE was == r.owner[e.dev][e.key]
           other == OtherForwarded(r, e.dev, e.key)
           res == RouteOwned(r, e, ticket).result
<1>0. was \in Owners /\ r.locked \in BOOLEAN
  BY SMTT(30), RouterFields DEF Event, OwnerTable
<1>1. RouteOwned(r, e, ticket).result =
            CASE was = "StockConsumed" -> Result("StockConsumed", TRUE, FALSE)
              [] was = "LockerOwned" -> Result("LockerOwned", r.locked, r.locked)
              [] was = "Quarantined" -> Result("Quarantined", FALSE, FALSE)
              [] was = "Consumed" -> Result("Swallowed", FALSE, FALSE)
              [] was = "Forwarded" /\ Merged(r, e) -> Result("Merged", TRUE, FALSE)
              [] was = "Forwarded" /\ ~Merged(r, e) -> Result("Forwarded", TRUE, TRUE)
  BY ZenonT(30) DEF RouteOwned
<1>2. Merged(r, e) <=> e.kind = "Up" /\ other
  BY ZenonT(30) DEF Merged
<1>3. was # "None"
  OBVIOUS
<1> HIDE DEF was, other, res
<1>4. Follows(r, e, was, res)
  <2>1. CASE was = "StockConsumed"
    <3>1. res = Result("StockConsumed", TRUE, FALSE)
      BY ZenonT(30), <1>0, <1>1, <2>1 DEF res
    <3>2. res \in Results /\ res.outcome = "StockConsumed" /\ res.stock /\ ~res.client
      BY ZenonT(30), <3>1, ResultFields DEF Outcomes
    <3> QED
      BY ZenonT(30), <1>0, <1>2, <2>1, <3>2 DEF Follows, OwnerOf, Results, other
  <2>2. CASE was = "LockerOwned" /\ r.locked
    <3>1. res = Result("LockerOwned", TRUE, TRUE)
      BY ZenonT(30), <1>0, <1>1, <2>2 DEF res
    <3>2. res \in Results /\ res.outcome = "LockerOwned" /\ res.stock /\ res.client
      BY ZenonT(30), <3>1, ResultFields DEF Outcomes
    <3> QED
      BY ZenonT(30), <1>0, <1>2, <2>2, <3>2 DEF Follows, OwnerOf, Results, other
  <2>3. CASE was = "LockerOwned" /\ ~r.locked
    <3>0. r.locked = FALSE
      BY ZenonT(30), <1>0, <2>3
    <3>r. res = Result("LockerOwned", r.locked, r.locked)
      BY ZenonT(30), <1>1, <2>3 DEF res
    <3>1. res = Result("LockerOwned", FALSE, FALSE)
      BY ZenonT(30), <3>r, <3>0
    <3>2. res \in Results /\ res.outcome = "LockerOwned" /\ ~res.stock /\ ~res.client
      BY ZenonT(30), <3>1, ResultFields DEF Outcomes
    <3> QED
      BY ZenonT(30), <1>0, <1>2, <2>3, <3>2 DEF Follows, OwnerOf, Results, other
  <2>4. CASE was = "Quarantined"
    <3>1. res = Result("Quarantined", FALSE, FALSE)
      BY ZenonT(30), <1>0, <1>1, <2>4 DEF res
    <3>2. res \in Results /\ res.outcome = "Quarantined" /\ ~res.stock /\ ~res.client
      BY ZenonT(30), <3>1, ResultFields DEF Outcomes
    <3> QED
      BY ZenonT(30), <1>0, <1>2, <2>4, <3>2 DEF Follows, OwnerOf, Results, other
  <2>5. CASE was = "Consumed"
    <3>1. res = Result("Swallowed", FALSE, FALSE)
      BY ZenonT(30), <1>0, <1>1, <2>5 DEF res
    <3>2. res \in Results /\ res.outcome = "Swallowed" /\ ~res.stock /\ ~res.client
      BY ZenonT(30), <3>1, ResultFields DEF Outcomes
    <3> QED
      BY ZenonT(30), <1>0, <1>2, <2>5, <3>2 DEF Follows, OwnerOf, Results, other
  <2>6. CASE was = "Forwarded" /\ Merged(r, e)
    <3>1. res = Result("Merged", TRUE, FALSE)
      BY ZenonT(30), <1>0, <1>1, <2>6 DEF res
    <3>2. res \in Results /\ res.outcome = "Merged" /\ res.stock /\ ~res.client
      BY ZenonT(30), <3>1, ResultFields DEF Outcomes
    <3> QED
      BY ZenonT(30), <1>0, <1>2, <2>6, <3>2 DEF Follows, OwnerOf, Results, other
  <2>7. CASE was = "Forwarded" /\ ~Merged(r, e)
    <3>1. res = Result("Forwarded", TRUE, TRUE)
      BY ZenonT(30), <1>0, <1>1, <2>7 DEF res
    <3>2. res \in Results /\ res.outcome = "Forwarded" /\ res.stock /\ res.client
      BY ZenonT(30), <3>1, ResultFields DEF Outcomes
    <3> QED
      BY ZenonT(30), <1>0, <1>2, <2>7, <3>2 DEF Follows, OwnerOf, Results, other
  <2> QED
    BY ZenonT(30), <1>0, <1>3, <2>1, <2>2, <2>3, <2>4, <2>5, <2>6, <2>7 DEF Owners
<1> QED
  BY ZenonT(30), <1>4 DEF was, res

\* What becomes of a fresh press.
Decides(r, e, reply, res) ==
    /\ res \in Results
    /\ res.client <=> res.stock /\ ~OtherForwarded(r, e.dev, e.key)
    /\ res.outcome \in {"Merged", "Swallowed", "Replaced", "PartialFatal",
                        "StockConsumed", "Quarantined"} => ~res.client
    /\ res.outcome # "LockerOwned"
    /\ res.outcome = "Replaced" => ~TargetHeld(r, reply.target)

DecidesAfresh(r, e, reply, x) ==
    /\ Decides(r, e, reply, x.result)
    /\ Moves(r, x.router, e.dev, e.key, TakenAs(x.result))
    /\ x.router.pending = None /\ x.router.released = r.released
    /\ x.router.fatal <=> r.fatal \/ x.result.outcome = "PartialFatal"

\* The decision on a fresh press, whatever was asked and however late, and what it
\* writes into the ledger.
LEMMA RouteFreshDecides ==
    ASSUME NEW r \in Routers, NEW e \in Event, NEW ticket, NEW reply, NEW late, NEW delivery
    PROVE  DecidesAfresh(r, e, reply, RouteFresh(r, e, ticket, reply, late, delivery))
<1> DEFINE asked == IF Admits(r, ticket, reply, late) THEN reply.verdict ELSE "Pass"
           refused == /\ asked = "Replace"
                      /\ \/ reply.target = e.key
                         \/ TargetHeld(r, reply.target)
                         \/ delivery = "RejectedNoOutput"
           verdict == IF refused THEN "Pass" ELSE asked
           partial == verdict = "Replace" /\ delivery = "PartialFatal"
           other == OtherForwarded(r, e.dev, e.key)
           merged == verdict = "Pass" /\ other
           outcome == CASE refused -> "Rejected"
                        [] verdict = "Swallow" -> "Swallowed"
                        [] partial -> "PartialFatal"
                        [] verdict = "Replace" /\ ~partial -> "Replaced"
                        [] OTHER -> IF merged THEN "Merged" ELSE "Forwarded"
           own == IF verdict = "Pass" THEN "Forwarded" ELSE "Consumed"
           o == [r.owner EXCEPT ![e.dev][e.key] = own]
           fatal == r.fatal \/ partial
           x == RouteFresh(r, e, ticket, reply, late, delivery)
           res == x.result
<1>1. x = [router |-> [r EXCEPT !.owner = o, !.pending = None, !.fatal = fatal],
           result |-> Result(outcome, verdict = "Pass", verdict = "Pass" /\ ~merged)]
  BY ZenonT(30) DEF RouteFresh
<1>2. /\ refused => verdict = "Pass"
      /\ verdict = "Replace" => ~TargetHeld(r, reply.target)
  OBVIOUS
<1> HIDE DEF asked, refused, verdict, other
\* The outcome.
<1>3. outcome \in Outcomes \ {"StockConsumed", "LockerOwned", "Quarantined"}
  BY ZenonT(30) DEF Outcomes
<1>4. /\ outcome = "Replaced" => verdict = "Replace"
      /\ outcome \in {"Swallowed", "PartialFatal", "Replaced"} => verdict # "Pass"
      /\ outcome = "Merged" => merged
      /\ outcome = "PartialFatal" <=> partial
  BY ZenonT(30), <1>2
\* The ledger.
<1>5. own \in Owners /\ e.dev \in Keyboards /\ e.key \in Keys
  BY ZenonT(30) DEF Owners, Event
<1> HIDE DEF own, partial, merged, outcome
<1>6. /\ o \in OwnerTable /\ o[e.dev][e.key] = own
      /\ \A d \in Keyboards, k \in Keys : d # e.dev \/ k # e.key => o[d][k] = r.owner[d][k]
      /\ \A d \in Keyboards : d # e.dev => o[d] = r.owner[d]
  BY ZenonT(30), <1>5, RouterFields DEF OwnerTable
<1>7. fatal \in BOOLEAN
  BY ZenonT(30), RouterFields
<1> HIDE DEF o, fatal, x, res
<1>8. PICK b \in BOOLEAN : b = fatal
  BY ZenonT(30), <1>7
<1>9. x.router = [r EXCEPT !.owner = o, !.pending = None, !.fatal = b]
  BY ZenonT(30), <1>1, <1>8
<1>10. x.router \in Routers
  <2>1. [r EXCEPT !.owner = o, !.pending = None, !.fatal = b] \in Routers
    BY ZenonT(30), <1>6 DEF Routers, OwnerTable
  <2> QED BY ZenonT(30), <1>9, <2>1
<1>11. /\ x.router.devices = r.devices /\ x.router.locked = r.locked /\ x.router.focus = r.focus
       /\ x.router.owner = o /\ x.router.pending = None /\ x.router.released = r.released
       /\ x.router.fatal = b
  BY ZenonT(30), <1>9 DEF Routers
\* The result.
<1>12. res = Result(outcome, verdict = "Pass", verdict = "Pass" /\ ~merged)
  BY ZenonT(30), <1>1 DEF res
<1>13. /\ res \in Results /\ res.outcome = outcome
       /\ res.stock <=> verdict = "Pass"
       /\ res.client <=> verdict = "Pass" /\ ~merged
  <2>1. CASE verdict = "Pass" /\ ~merged
    <3>0. (verdict = "Pass") = TRUE /\ (verdict = "Pass" /\ ~merged) = TRUE
      BY ZenonT(30), <2>1
    <3>1. res = Result(outcome, TRUE, TRUE)
      BY ZenonT(30), <1>12, <3>0
    <3> QED BY ZenonT(30), <1>3, <2>1, <3>1, ResultFields
  <2>2. CASE verdict = "Pass" /\ merged
    <3>0. (verdict = "Pass") = TRUE /\ (verdict = "Pass" /\ ~merged) = FALSE
      BY ZenonT(30), <2>2
    <3>1. res = Result(outcome, TRUE, FALSE)
      BY ZenonT(30), <1>12, <3>0
    <3> QED BY ZenonT(30), <1>3, <2>2, <3>1, ResultFields
  <2>3. CASE verdict # "Pass"
    <3>0. (verdict = "Pass") = FALSE /\ (verdict = "Pass" /\ ~merged) = FALSE
      BY ZenonT(30), <2>3
    <3>1. res = Result(outcome, FALSE, FALSE)
      BY ZenonT(30), <1>12, <3>0
    <3> QED BY ZenonT(30), <1>3, <2>3, <3>1, ResultFields
  <2> QED
    BY ZenonT(30), <2>1, <2>2, <2>3
<1>14. Decides(r, e, reply, res)
  BY ZenonT(30), <1>2, <1>3, <1>4, <1>13 DEF Decides, other, merged
<1>15. own = TakenAs(res)
  BY ZenonT(30), <1>13 DEF own, TakenAs
<1>16. Moves(r, x.router, e.dev, e.key, TakenAs(res))
  BY ZenonT(30), <1>6, <1>10, <1>11, <1>15 DEF Moves
<1>17. x.router.fatal <=> fatal
  BY SMTT(30), <1>8, <1>11
<1>18. x.router.fatal <=> r.fatal \/ res.outcome = "PartialFatal"
  BY ZenonT(30), <1>4, <1>13, <1>17 DEF fatal
<1>19. DecidesAfresh(r, e, reply, x)
  BY ZenonT(30), <1>11, <1>14, <1>16, <1>18 DEF res, DecidesAfresh
<1> QED
  BY ZenonT(30), <1>19 DEF x

HandsOver(r, e, v, n) ==
    /\ Moves(r, n, e.dev, e.key, v)
    /\ n.pending = r.pending /\ n.released = r.released /\ (n.fatal <=> r.fatal)

\* A key is handed to another owner.
LEMMA OwnerMoves ==
    ASSUME NEW r \in Routers, NEW e \in Event, NEW v \in Owners
    PROVE  HandsOver(r, e, v, [r EXCEPT !.owner[e.dev][e.key] = v])
<1> DEFINE o == [r.owner EXCEPT ![e.dev][e.key] = v]
           n == [r EXCEPT !.owner[e.dev][e.key] = v]
<1>1. e.dev \in Keyboards /\ e.key \in Keys
  BY ZenonT(30) DEF Event
<1>2. /\ o \in OwnerTable /\ o[e.dev][e.key] = v
      /\ \A d \in Keyboards, k \in Keys : d # e.dev \/ k # e.key => o[d][k] = r.owner[d][k]
      /\ \A d \in Keyboards : d # e.dev => o[d] = r.owner[d]
  BY ZenonT(30), <1>1, RouterFields DEF OwnerTable
<1>3. n = [r EXCEPT !.owner = o]
  BY ZenonT(30)
<1> HIDE DEF o, n
<1>4. [r EXCEPT !.owner = o] \in Routers
  BY ZenonT(30), <1>2 DEF Routers, OwnerTable
<1>5. /\ n.devices = r.devices /\ n.locked = r.locked /\ n.focus = r.focus /\ n.owner = o
      /\ n.pending = r.pending /\ n.released = r.released /\ n.fatal = r.fatal
  BY ZenonT(30), <1>3 DEF Routers
<1>6. HandsOver(r, e, v, n)
  BY ZenonT(30), <1>2, <1>3, <1>4, <1>5 DEF Moves, HandsOver
<1> QED
  BY ZenonT(30), <1>6 DEF n

\* The owner that route() leaves a key with.
OwnerAfter(r, e, res) ==
    CASE e.kind = "Up" -> "None"
      [] e.kind = "Repeat" -> r.owner[e.dev][e.key]
      [] e.kind = "Down" -> IF r.locked THEN "LockerOwned"
                            ELSE TakenAs(res)

\* What route() decides and leaves behind, of an event that fits the ledger: a press
\* of a key nobody owns, or a release or repeat of one that is owned.
Routed(r, e, ticket, reply, x) ==
    /\ Moves(r, x.router, e.dev, e.key, OwnerAfter(r, e, x.result))
    /\ x.router.pending = None
    /\ r.released = None /\ x.router.released # None => e.kind = "Up" /\ ticket # None
    /\ x.router.fatal <=> r.fatal \/ x.result.outcome = "PartialFatal"
    /\ x.result \in Results
    /\ e.kind # "Down" => Follows(r, e, r.owner[e.dev][e.key], x.result)
    /\ e.kind = "Down" /\ r.locked => x.result.outcome = "LockerOwned" /\ x.result.stock /\ x.result.client
    /\ e.kind = "Down" /\ ~r.locked => Decides(r, e, reply, x.result)

\* Route() does so, whatever the ticket, the answer and the delivery.
LEMMA RouteEvent ==
    ASSUME NEW r \in Routers, NEW e \in Event, NEW ticket \in MaybeTicket, NEW reply, NEW late, NEW delivery,
           e.kind = "Down" <=> r.owner[e.dev][e.key] = "None",
           r.pending # None => e.kind = "Up" \/ (e.kind = "Down" /\ ~r.locked)
    PROVE  Routed(r, e, ticket, reply, Route(r, e, ticket, reply, late, delivery))
<1> DEFINE x == Route(r, e, ticket, reply, late, delivery)
<1>0. e.kind \in Kinds
  BY ZenonT(30) DEF Event
<1>1. CASE e.kind # "Down"
  <2>1. x = RouteOwned(r, e, ticket)
    BY ZenonT(30), <1>1 DEF Route
  <2>a. RouteOwned(r, e, ticket).router = ReleaseOwned(r, e, ticket)
    BY ZenonT(30) DEF RouteOwned
  <2>2. x.router = ReleaseOwned(r, e, ticket)
    BY ZenonT(30), <2>1, <2>a
  <2>3. Follows(r, e, r.owner[e.dev][e.key], x.result)
    BY ZenonT(30), <1>1, <2>1, RouteOwnedResult
  <2> HIDE DEF x
  <2>4. Releases(r, e, ticket, x.router)
    BY ZenonT(30), <2>2, ReleaseOwnedMoves
  <2>5. OwnerAfter(r, e, x.result) = OwnedAfter(r, e)
    BY ZenonT(30), <1>0, <1>1 DEF OwnerAfter, OwnedAfter, Kinds
  <2>6. x.result \in Results /\ x.result.outcome # "PartialFatal"
    BY ZenonT(30), <2>3 DEF Follows
  <2>7. x.router.fatal <=> r.fatal \/ x.result.outcome = "PartialFatal"
    BY ZenonT(30), <2>4, <2>6 DEF Releases
  <2>8. x.router.pending = None /\ (r.released = None /\ x.router.released # None => e.kind = "Up" /\ ticket # None)
    BY ZenonT(30), <1>1, <2>4 DEF Releases
  <2>9. Moves(r, x.router, e.dev, e.key, OwnerAfter(r, e, x.result))
    BY ZenonT(30), <2>4, <2>5 DEF Releases
  <2>10. Routed(r, e, ticket, reply, x)
    BY ZenonT(30), <1>1, <2>3, <2>6, <2>7, <2>8, <2>9 DEF Routed
  <2> QED
    BY ZenonT(30), <2>10 DEF x
<1>2. CASE e.kind = "Down" /\ r.locked
  <2>1. /\ x.router = [r EXCEPT !.owner[e.dev][e.key] = "LockerOwned"]
        /\ x.result = Result("LockerOwned", TRUE, TRUE)
    BY ZenonT(30), <1>2 DEF Route
  <2> HIDE DEF x
  <2>a. "LockerOwned" \in Owners
    BY ZenonT(30) DEF Owners
  <2>2. HandsOver(r, e, "LockerOwned", x.router)
    <3>1. HandsOver(r, e, "LockerOwned", [r EXCEPT !.owner[e.dev][e.key] = "LockerOwned"])
      BY ZenonT(30), <2>a, OwnerMoves
    <3> QED
      BY ZenonT(30), <2>1, <3>1
  <2>3. x.result \in Results /\ x.result.outcome = "LockerOwned" /\ x.result.stock /\ x.result.client
    BY ZenonT(30), <2>1, ResultFields DEF Outcomes
  <2>4. OwnerAfter(r, e, x.result) = "LockerOwned"
    BY ZenonT(30), <1>2 DEF OwnerAfter
  <2>5. x.router.fatal <=> r.fatal \/ x.result.outcome = "PartialFatal"
    BY ZenonT(30), <2>2, <2>3 DEF HandsOver
  <2>6. x.router.pending = None
    BY ZenonT(30), <1>2, <2>2 DEF HandsOver
  <2>7. Routed(r, e, ticket, reply, x)
    BY ZenonT(30), <1>2, <2>2, <2>3, <2>4, <2>5, <2>6 DEF Routed, HandsOver
  <2> QED
    BY ZenonT(30), <2>7 DEF x
<1>3. CASE e.kind = "Down" /\ ~r.locked
  <2>1. x = RouteFresh(r, e, ticket, reply, late, delivery)
    BY ZenonT(30), <1>3 DEF Route
  <2> HIDE DEF x
  <2>2. DecidesAfresh(r, e, reply, x)
    BY ZenonT(30), <2>1, RouteFreshDecides
  <2>3. OwnerAfter(r, e, x.result) = TakenAs(x.result)
    BY ZenonT(30), <1>3 DEF OwnerAfter
  <2>4. x.result \in Results
    BY ZenonT(30), <2>2 DEF Decides, DecidesAfresh
  <2>5. Routed(r, e, ticket, reply, x)
    BY ZenonT(30), <1>3, <2>2, <2>3, <2>4 DEF Routed, DecidesAfresh
  <2> QED
    BY ZenonT(30), <2>5 DEF x
<1> QED
  BY ZenonT(30), <1>1, <1>2, <1>3

-----------------------------------------------------------------------------
(* What a key callback does before it routes.                              *)

\* The same ledger, a focus number that did not go back.
SameLedger(r, n) ==
    /\ n \in Routers /\ n.devices = r.devices /\ n.owner = r.owner
    /\ n.released = r.released /\ n.focus >= r.focus

Synced(u) ==
    /\ SameLedger(router, u.router) /\ u.router.pending = router.pending
    /\ u.router.fatal <=> router.fatal
    /\ \/ u.phase = phase /\ u.held = held /\ u.router = router
       \/ /\ phase = "Locked" /\ ~protocol /\ u.phase = "Open"
          /\ ~u.router.locked /\ u.held = HeldAs(router, "Forwarded")

\* An unlock that is observed opens the router; nothing else is.
LEMMA SyncUnlockSyncs ==
    ASSUME router \in Routers, phase \in Phases, phase = "Open" => ~protocol
    PROVE  Synced(SyncUnlock)
<1> DEFINE u == SyncUnlock
           p == Observe(phase, protocol)
           opens == phase # "Open" /\ p = "Open"
           r == UnlockConfirmed(router)
<1>1. u = [router |-> IF opens THEN r ELSE router, phase |-> p,
           held |-> IF opens THEN Synchronize(IF opens THEN r ELSE router, FALSE) ELSE held]
  BY ZenonT(30) DEF SyncUnlock
<1>2. opens \/ p = phase
  BY ZenonT(30) DEF Observe, Phases
<1>3. opens => phase = "Locked" /\ ~protocol
  BY ZenonT(30) DEF Observe, Phases
<1>4. router.focus \in Nat
  BY ZenonT(30), RouterFields
<1> HIDE DEF p, r, u
<1>5. CASE opens
  <2>1. r \in Routers /\ r.devices = router.devices /\ r.owner = router.owner
        /\ ~r.locked /\ r.fatal = router.fatal
        /\ r.pending = router.pending /\ r.released = router.released
        /\ r.focus = router.focus + 1
    BY ZenonT(30), UnlockConfirmedFields DEF r
  <2>2. u.router = r /\ u.phase = p /\ u.held = Synchronize(r, FALSE)
    BY ZenonT(30), <1>1, <1>5
  <2>3. Synchronize(r, FALSE) = HeldAs(router, "Forwarded")
    BY ZenonT(30), <2>1 DEF Synchronize, HeldAs
  <2>4. r.focus >= router.focus
    BY SMTT(30), <1>4, <2>1
  <2>5. Synced(u)
    BY ZenonT(30), <1>3, <1>5, <2>1, <2>2, <2>3, <2>4 DEF Synced, SameLedger
  <2> QED
    BY ZenonT(30), <2>5 DEF u
<1>6. CASE ~opens
  <2>1. u.router = router /\ u.phase = phase /\ u.held = held
    BY ZenonT(30), <1>1, <1>2, <1>6
  <2>2. router.focus >= router.focus
    BY SMTT(30), <1>4
  <2>3. Synced(u)
    BY ZenonT(30), <2>1, <2>2 DEF Synced, SameLedger
  <2> QED
    BY ZenonT(30), <2>3 DEF u
<1> QED
  BY ZenonT(30), <1>5, <1>6

Recovered(r, f, h, rec) ==
    /\ SameLedger(r, rec.router) /\ rec.router.pending = r.pending
    /\ rec.router.locked <=> r.locked
    /\ \/ rec.router = r /\ rec.fresh = f
       \/ r.fatal /\ f /\ ~rec.router.fatal /\ rec.fresh = FALSE /\ h = {}

\* A recovery needs a fresh enter and an empty projection, and touches no owner.
LEMMA TryRecoveryRecovers ==
    ASSUME NEW r \in Routers, NEW p, NEW h, NEW l, NEW f, NEW rec \in TryRecovery(r, p, h, l, f)
    PROVE  Recovered(r, f, h, rec)
<1>0. r.focus \in Nat
  BY ZenonT(30), RouterFields
<1>1. CASE rec = [router |-> r, fresh |-> f]
  <2>1. rec.router = r /\ rec.fresh = f
    BY ZenonT(30), <1>1
  <2>2. r.focus >= r.focus
    BY SMTT(30), <1>0
  <2> QED
    BY ZenonT(30), <2>1, <2>2 DEF Recovered, SameLedger
<1>2. CASE /\ MayRecover(r) /\ f /\ h = {}
           /\ rec = [router |-> RecoverRetiredOutput(r), fresh |-> FALSE]
  <2> DEFINE n == RecoverRetiredOutput(r)
  <2>1. rec.router = n /\ rec.fresh = FALSE
    BY ZenonT(30), <1>2
  <2> HIDE DEF n
  <2>2. /\ n \in Routers /\ n.devices = r.devices /\ n.owner = r.owner
        /\ n.locked = r.locked /\ ~n.fatal
        /\ n.pending = r.pending /\ n.released = r.released
        /\ n.focus = r.focus + 1
    BY ZenonT(30), RecoverFields DEF n
  <2>3. n.focus >= r.focus
    BY SMTT(30), <1>0, <2>2
  <2>4. r.fatal
    BY ZenonT(30), <1>2 DEF MayRecover
  <2> QED
    BY ZenonT(30), <1>2, <2>1, <2>2, <2>3, <2>4 DEF Recovered, SameLedger
<1> QED
  BY ZenonT(30), <1>1, <1>2 DEF TryRecovery

Proposed(r, e, p) ==
    /\ SameLedger(r, p.router) /\ (p.router.locked <=> r.locked) /\ (p.router.fatal <=> r.fatal)
    /\ p.ticket \in MaybeTicket
    /\ p.ticket # None => p.ticket.focus = r.focus
    /\ p.router.focus = r.focus
    /\ p.router.pending # None => e.kind = "Up" \/ (e.kind = "Down" /\ ~r.locked)

\* A proposal touches no owner, and is pending only for a press or a release that
\* route() will settle.
LEMMA ProposalsPropose ==
    ASSUME NEW r \in Routers, r.pending = None, NEW e \in Event,
           NEW p \in {[router |-> r, ticket |-> None]} \cup Proposals(r, e)
    PROVE  Proposed(r, e, p)
<1> DEFINE t == TicketFor(r, e)
           begun == [r EXCEPT !.pending = t]
<1>0. r.focus \in Nat /\ r.epoch \in Nat /\ e.dev \in Keyboards /\ e.key \in Keys
  BY ZenonT(30), RouterFields DEF Event
<1>1. t \in MaybeTicket /\ t.focus = r.focus /\ None \in MaybeTicket
  BY ZenonT(30), <1>0 DEF TicketFor, Ticket, MaybeTicket
<1>2. r.focus >= r.focus
  BY SMTT(30), <1>0
<1>3. \/ p = [router |-> r, ticket |-> None]
      \/ p = [router |-> r, ticket |-> t]
      \/ MayBegin(r, e) /\ p \in {[router |-> begun, ticket |-> t], [router |-> begun, ticket |-> None]}
  BY ZenonT(30) DEF Proposals
<1> HIDE DEF t
<1>4. CASE p \in {[router |-> r, ticket |-> None], [router |-> r, ticket |-> t]}
  <2>1. p.router = r /\ p.ticket \in {None, t}
    BY SMTT(30), <1>4
  <2> QED
    BY ZenonT(30), <1>1, <1>2, <2>1 DEF Proposed, SameLedger
<1>5. CASE MayBegin(r, e) /\ p \in {[router |-> begun, ticket |-> t], [router |-> begun, ticket |-> None]}
  <2>1. p.router = begun /\ p.ticket \in {None, t}
    <3> HIDE DEF begun
    <3> QED BY SMTT(30), <1>5
  <2>2. begun \in Routers
    BY ZenonT(30), <1>1 DEF Routers, MaybeTicket
  <2>3. /\ begun.devices = r.devices /\ begun.owner = r.owner /\ begun.released = r.released
        /\ begun.focus = r.focus /\ begun.locked = r.locked /\ begun.fatal = r.fatal
    BY ZenonT(30) DEF Routers
  <2>4. e.kind = "Up" \/ (e.kind = "Down" /\ ~r.locked)
    BY ZenonT(30), <1>5 DEF MayBegin
  <2> HIDE DEF begun
  <2> QED
    BY ZenonT(30), <1>1, <1>2, <2>1, <2>2, <2>3, <2>4 DEF Proposed, SameLedger
<1> QED
  BY ZenonT(30), <1>3, <1>4, <1>5

-----------------------------------------------------------------------------
(* A key callback up to the stock call.                                    *)

\* What other keyboards forward is not about this one.
LEMMA OtherUnmoved ==
    ASSUME NEW r, NEW n, NEW d, NEW k, r.devices \subseteq Keyboards, n.devices = r.devices,
           \A x \in Keyboards : x # d => n.owner[x] = r.owner[x]
    PROVE  OtherForwarded(n, d, k) <=> OtherForwarded(r, d, k)
BY ZenonT(30) DEF OtherForwarded

\* Both depend on the ledger alone.
LEMMA SameHoldings ==
    ASSUME NEW r, NEW n, n.devices = r.devices, n.owner = r.owner
    PROVE  /\ \A d, k : OtherForwarded(n, d, k) <=> OtherForwarded(r, d, k)
           /\ \A k : TargetHeld(n, k) <=> TargetHeld(r, k)
           /\ \A o : HeldAs(n, o) = HeldAs(r, o)
BY ZenonT(30) DEF OtherForwarded, TargetHeld, HeldAs

\* The ledger after route(): one key of one keyboard, at most.
EntryLedger(d, k) ==
    /\ router' \in Routers /\ router'.devices = router.devices
    /\ router'.pending = None
    /\ router'.released # None => cur'.event.kind = "Up" /\ cur'.ticket # None
    /\ \A x \in Keyboards, y \in Keys : x # d \/ y # k => router'.owner[x][y] = router.owner[x][y]
    /\ \A x \in Keyboards : x # d => router'.owner[x] = router.owner[x]

\* The gate is as it was, or the callback is the first to see an unlock.
EntryGate ==
    /\ phase' = Observe(phase, protocol)
    /\ \/ phase' = phase /\ held' = held /\ (router'.locked <=> router.locked)
       \/ /\ phase = "Locked" /\ ~protocol /\ phase' = "Open"
          /\ ~router'.locked /\ held' = HeldAs(router, "Forwarded")

\* What the callback carries to the stock call.
EntryCallback(d, k, kind) ==
    /\ cur' \in Callback
    /\ cur'.event.dev = d /\ cur'.event.key = k /\ cur'.event.kind = kind
    /\ ~cur'.moved
    /\ cur'.ticket # None => cur'.ticket.focus <= router'.focus

\* What route() decided, and the owner it wrote.
EntryDecision(d, k, kind) ==
    /\ kind = "Down" <=> router.owner[d][k] = "None"
    /\ kind = "Down" =>
         /\ router'.owner[d][k] = IF router'.locked THEN "LockerOwned" ELSE TakenAs(cur'.result)
         /\ router'.locked => /\ cur'.result.outcome = "LockerOwned"
                              /\ cur'.result.stock /\ cur'.result.client
         /\ ~router'.locked => Decides(router, cur'.event, cur'.reply, cur'.result)
    /\ kind = "Up" => router'.owner[d][k] = "None"
    /\ kind = "Repeat" => router'.owner[d][k] = router.owner[d][k]
    /\ kind # "Down" => Follows(router', cur'.event, router.owner[d][k], cur'.result)

\* A replacement went out for a key nobody holds; an output is certain only if it
\* was before.
EntryOutput ==
    /\ cur'.result.outcome # "Replaced" => client' = client
    /\ cur'.result.outcome = "Replaced" =>
         client' = Told(focused, {cur'.reply.target}) /\ ~TargetHeld(router, cur'.reply.target)
    /\ fresh' \in BOOLEAN
    /\ ~router'.fatal \/ fresh' => ~router.fatal \/ fresh

\* What KeyEntry writes for one choice of recovery, proposal, answer and delivery.
EntryWrites(e, rec, p, reply, late, delivery) ==
    LET routed == Route(p.router, e, p.ticket, reply, late, delivery)
    IN  /\ router' = routed.router
        /\ fresh' = (rec.fresh /\ routed.result.outcome # "PartialFatal")
        /\ cur' = [event |-> e, ticket |-> p.ticket, reply |-> reply,
                   result |-> routed.result, moved |-> FALSE]
        /\ client' = IF routed.result.outcome = "Replaced"
                     THEN Told(focused, {reply.target}) ELSE client

\* The steps of a key callback before stock, taken together.
LEMMA EntryFacts ==
    ASSUME RoutingInv, NEW d \in Keyboards, NEW k \in Keys, NEW kind \in Kinds, KeyEntry(d, k, kind)
    PROVE  /\ EntryLedger(d, k) /\ EntryGate /\ EntryCallback(d, k, kind)
           /\ EntryDecision(d, k, kind) /\ EntryOutput
<1> DEFINE u == SyncUnlock
           e == [dev |-> d, key |-> k, kind |-> kind]
<1>0. /\ router \in Routers /\ phase \in Phases /\ (phase = "Open" => ~protocol)
      /\ router.pending = None /\ router.released = None /\ fresh \in BOOLEAN
      /\ (kind = "Down" <=> router.owner[d][k] = "None")
  <2>1. TypeOK /\ GateAgrees /\ NothingPending /\ OwnedIsDown /\ cur = None
    BY ZenonT(30) DEF RoutingInv, KeyEntry
  <2>2. kind = "Down" <=> k \notin down[d]
    BY ZenonT(30) DEF KeyEntry, Kinds
  <2> QED
    BY ZenonT(30), <2>1, <2>2 DEF TypeOK, GateAgrees, NothingPending, OwnedIsDown
<1>1. /\ phase' = u.phase /\ held' = u.held
      /\ \E rec \in TryRecovery(u.router, u.phase, u.held, ledger, fresh) :
         \E p \in {[router |-> rec.router, ticket |-> None]} \cup
                  (IF RouteLocked(u.phase) THEN {} ELSE Proposals(rec.router, e)) :
         \E reply \in IF p.ticket = None THEN {None} ELSE Replies :
         \E late \in BOOLEAN, delivery \in Deliveries : EntryWrites(e, rec, p, reply, late, delivery)
  BY ZenonT(30) DEF KeyEntry, EntryWrites
<1>2. e \in Event /\ e.dev = d /\ e.key = k /\ e.kind = kind
  BY ZenonT(30) DEF Event
<1>3. Synced(u) /\ u.phase = Observe(phase, protocol)
  BY ZenonT(30), <1>0, SyncUnlockSyncs DEF SyncUnlock
<1> HIDE DEF u, e
<1>4. PICK rec \in TryRecovery(u.router, u.phase, u.held, ledger, fresh) :
      \E p \in {[router |-> rec.router, ticket |-> None]} \cup
               (IF RouteLocked(u.phase) THEN {} ELSE Proposals(rec.router, e)) :
      \E reply \in IF p.ticket = None THEN {None} ELSE Replies :
      \E late \in BOOLEAN, delivery \in Deliveries : EntryWrites(e, rec, p, reply, late, delivery)
  BY ZenonT(30), <1>1
<1>5. PICK p \in {[router |-> rec.router, ticket |-> None]} \cup Proposals(rec.router, e) :
      \E reply \in Replies, late \in BOOLEAN, delivery \in Deliveries :
         EntryWrites(e, rec, p, reply, late, delivery)
  BY ZenonT(30), <1>4 DEF Replies
<1>6. PICK reply \in Replies, late \in BOOLEAN, delivery \in Deliveries :
         EntryWrites(e, rec, p, reply, late, delivery)
  BY ZenonT(30), <1>5
<1> DEFINE q == p.router
           x == Route(q, e, p.ticket, reply, late, delivery)
<1>7. /\ router' = x.router
      /\ fresh' = (rec.fresh /\ x.result.outcome # "PartialFatal")
      /\ cur' = [event |-> e, ticket |-> p.ticket, reply |-> reply, result |-> x.result, moved |-> FALSE]
      /\ x.result.outcome = "Replaced" => client' = Told(focused, {reply.target})
      /\ x.result.outcome # "Replaced" => client' = client
  BY ZenonT(30), <1>6 DEF EntryWrites
<1>8. /\ cur'.event = e /\ cur'.ticket = p.ticket /\ cur'.reply = reply /\ cur'.result = x.result
      /\ ~cur'.moved
  BY ZenonT(30), <1>7
<1>9. Recovered(u.router, fresh, u.held, rec)
  BY ZenonT(30), <1>3, TryRecoveryRecovers DEF Synced, SameLedger
<1>10. Proposed(rec.router, e, p)
  <2>1. rec.router \in Routers /\ rec.router.pending = None
    BY ZenonT(30), <1>0, <1>3, <1>9 DEF Synced, Recovered, SameLedger
  <2> QED
    BY ZenonT(30), <1>2, <2>1, ProposalsPropose
<1> HIDE DEF q
<1>11. /\ q \in Routers /\ q.devices = router.devices /\ q.owner = router.owner /\ q.released = None
       /\ q.locked <=> u.router.locked
  BY ZenonT(30), <1>0, <1>3, <1>9, <1>10 DEF Synced, Recovered, Proposed, SameLedger, q
<1>12. ~q.fatal \/ rec.fresh => ~router.fatal \/ fresh
  BY ZenonT(30), <1>3, <1>9, <1>10 DEF Synced, Recovered, Proposed, q
<1>13. /\ p.ticket \in MaybeTicket /\ (p.ticket # None => p.ticket.focus = q.focus)
       /\ q.pending # None => e.kind = "Up" \/ (e.kind = "Down" /\ ~q.locked)
  BY ZenonT(30), <1>10 DEF Proposed, q
<1>14. Routed(q, e, p.ticket, reply, x)
  BY ZenonT(30), <1>0, <1>2, <1>11, <1>13, RouteEvent
<1> HIDE DEF x
<1>15. Moves(q, router', d, k, OwnerAfter(q, e, x.result))
  BY ZenonT(30), <1>2, <1>7, <1>14 DEF Routed
<1>16. EntryLedger(d, k)
  <2>1. router'.pending = None /\ (router'.released # None => cur'.event.kind = "Up" /\ cur'.ticket # None)
    BY ZenonT(30), <1>7, <1>8, <1>11, <1>14 DEF Routed
  <2>2. router' \in Routers /\ router'.devices = router.devices
    BY ZenonT(30), <1>11, <1>15 DEF Moves
  <2>3. /\ \A j \in Keyboards, y \in Keys : j # d \/ y # k => router'.owner[j][y] = router.owner[j][y]
        /\ \A j \in Keyboards : j # d => router'.owner[j] = router.owner[j]
    BY SMTT(30), <1>11, <1>15 DEF Moves
  <2> QED
    BY ZenonT(30), <2>1, <2>2, <2>3 DEF EntryLedger
<1>17. EntryGate
  <2>1. router'.locked <=> u.router.locked
    BY ZenonT(30), <1>11, <1>15 DEF Moves
  <2> QED
    BY ZenonT(30), <1>1, <1>3, <2>1 DEF EntryGate, Synced
<1>18. EntryCallback(d, k, kind)
  <2>1. p.ticket # None => p.ticket.focus <= router'.focus
    <3>1. q.focus \in Nat /\ router'.focus = q.focus
      BY ZenonT(30), <1>11, <1>15, RouterFields DEF Moves
    <3> QED
      BY SMTT(30), <1>13, <3>1
  <2>2. cur' \in Callback
    <3>1. x.result \in [outcome : Outcomes, stock : BOOLEAN, client : BOOLEAN]
      BY ZenonT(30), <1>14 DEF Routed, Results
    <3> QED
      BY ZenonT(30), <1>2, <1>7, <1>13, <3>1 DEF Callback, MaybeTicket
  <2> QED
    BY ZenonT(30), <1>2, <1>8, <2>1, <2>2 DEF EntryCallback
<1>19. EntryDecision(d, k, kind)
  <2>1. router'.locked <=> q.locked
    BY ZenonT(30), <1>15 DEF Moves
  <2>2. OtherForwarded(router', d, k) <=> OtherForwarded(q, d, k)
    BY ZenonT(30), <1>11, <1>15, RouterFields, OtherUnmoved DEF Moves
  <2>3. /\ OtherForwarded(q, d, k) <=> OtherForwarded(router, d, k)
        /\ \A t : TargetHeld(q, t) <=> TargetHeld(router, t)
    BY ZenonT(30), <1>11, SameHoldings
  <2>4. kind = "Down" /\ ~router'.locked => Decides(router, cur'.event, cur'.reply, cur'.result)
    BY ZenonT(30), <1>2, <1>8, <1>14, <2>1, <2>3 DEF Routed, Decides
  <2>5. kind # "Down" => Follows(router', cur'.event, router.owner[d][k], cur'.result)
    <3>1. kind # "Down" => Follows(q, e, router.owner[d][k], x.result)
      BY ZenonT(30), <1>2, <1>11, <1>14 DEF Routed
    <3> QED
      BY ZenonT(30), <1>2, <1>8, <2>1, <2>2, <3>1 DEF Follows
  <2>6. router'.owner[d][k] = OwnerAfter(q, e, x.result)
    BY ZenonT(30), <1>15 DEF Moves
  <2>7. /\ kind = "Up" => router'.owner[d][k] = "None"
        /\ kind = "Repeat" => router'.owner[d][k] = router.owner[d][k]
        /\ kind = "Down" =>
             router'.owner[d][k] = IF router'.locked THEN "LockerOwned" ELSE TakenAs(cur'.result)
    BY ZenonT(30), <1>2, <1>8, <1>11, <2>1, <2>6 DEF OwnerAfter
  <2>8. kind = "Down" /\ router'.locked =>
           cur'.result.outcome = "LockerOwned" /\ cur'.result.stock /\ cur'.result.client
    BY ZenonT(30), <1>2, <1>8, <1>14, <2>1 DEF Routed
  <2> QED
    BY ZenonT(30), <1>0, <2>4, <2>5, <2>7, <2>8 DEF EntryDecision
<1>20. EntryOutput
  <2>1. x.result.outcome = "Replaced" => ~TargetHeld(router, reply.target)
    <3>1. x.result.outcome = "Replaced" => ~TargetHeld(q, reply.target)
      BY ZenonT(30), <1>14 DEF Routed, Follows, Decides
    <3> QED
      BY ZenonT(30), <1>11, <3>1, SameHoldings
  <2>2. fresh' \in BOOLEAN
    BY ZenonT(30), <1>7
  <2>3. router'.fatal <=> q.fatal \/ x.result.outcome = "PartialFatal"
    BY ZenonT(30), <1>7, <1>14 DEF Routed
  <2>4. ~router'.fatal \/ fresh' => ~router.fatal \/ fresh
    BY ZenonT(30), <1>7, <1>12, <2>3
  <2> QED
    BY ZenonT(30), <1>7, <1>8, <2>1, <2>2, <2>4 DEF EntryOutput
<1> QED
  BY ZenonT(30), <1>16, <1>17, <1>18, <1>19, <1>20

-----------------------------------------------------------------------------
(* A key callback up to the stock call keeps the invariant.                *)

\* What each client has stays a set of keys, and only that client loses any.
LEMMA ToldFields ==
    ASSUME NEW c \in Clients \cup {None}, NEW keys, client \in [Clients -> SUBSET Keys]
    PROVE  /\ Told(c, keys) \in [Clients -> SUBSET Keys]
           /\ \A x \in Clients : Told(c, keys)[x] = IF x = c /\ c # None THEN client[x] \ keys ELSE client[x]
BY ZenonT(30) DEF Told

\* Between callbacks nothing is in flight.
LEMMA IdleBefore ==
    ASSUME cur = None
    PROVE  /\ \A d, k : OwnerBefore(d, k) = router.owner[d][k]
           /\ \A o : HeldBefore(o) = HeldAs(router, o)
BY ZenonT(30) DEF OwnerBefore, HeldBefore, HeldAs

\* The owners that count during the callback are the ones it found.
LEMMA EntryBefore ==
    ASSUME NEW d \in Keyboards, NEW k \in Keys, NEW kind \in Kinds, router \in Routers,
           EntryLedger(d, k), EntryCallback(d, k, kind), EntryDecision(d, k, kind)
    PROVE  /\ \A x \in Keyboards, y \in Keys : OwnerBefore(x, y)' = router.owner[x][y]
           /\ \A o : HeldBefore(o)' = HeldAs(router, o)
<1>1. ASSUME NEW x \in Keyboards, NEW y \in Keys
      PROVE  OwnerBefore(x, y)' = router.owner[x][y]
  <2>0. cur' # None
    BY ZenonT(30), CallbackAssumption DEF EntryCallback
  <2>1. OwnerBefore(x, y)' =
          IF cur'.event.dev # x \/ cur'.event.key # y \/ cur'.event.kind = "Repeat"
          THEN router'.owner[x][y]
          ELSE IF cur'.event.kind = "Down" THEN "None" ELSE OwnerOf(cur'.result.outcome)
    BY ZenonT(30), <2>0 DEF OwnerBefore, OwnerOf
  <2>2. cur'.event.dev = d /\ cur'.event.key = k /\ cur'.event.kind = kind
    BY ZenonT(30) DEF EntryCallback
  <2>3. CASE x # d \/ y # k
    BY ZenonT(30), <2>1, <2>2, <2>3 DEF EntryLedger
  <2>4. CASE x = d /\ y = k
    <3>1. CASE kind = "Repeat"
      BY ZenonT(30), <2>1, <2>2, <2>4, <3>1 DEF EntryDecision
    <3>2. CASE kind = "Down"
      BY ZenonT(30), <2>1, <2>2, <2>4, <3>2 DEF EntryDecision
    <3>3. CASE kind = "Up"
      BY ZenonT(30), <2>1, <2>2, <2>4, <3>3 DEF EntryDecision, Follows
    <3> QED
      BY ZenonT(30), <3>1, <3>2, <3>3 DEF Kinds
  <2> QED
    BY ZenonT(30), <2>3, <2>4
<1>2. router.devices \subseteq Keyboards /\ router'.devices = router.devices
  BY ZenonT(30), RouterFields DEF EntryLedger
<1>3. ASSUME NEW o
      PROVE  HeldBefore(o)' = HeldAs(router, o)
  <2>1. HeldBefore(o)' = {y \in Keys : \E x \in router'.devices : OwnerBefore(x, y)' = o}
    BY ZenonT(30) DEF HeldBefore
  <2>2. ASSUME NEW y \in Keys
        PROVE  (\E x \in router'.devices : OwnerBefore(x, y)' = o)
                 <=> (\E x \in router.devices : router.owner[x][y] = o)
    BY SMTT(30), <1>1, <1>2
  <2> QED
    BY ZenonT(30), <2>1, <2>2 DEF HeldAs
<1> QED
  BY ZenonT(30), <1>1, <1>3

\* The whole of it: RoutingInv after route() has decided.
LEMMA KeyEntryStep ==
    ASSUME RoutingInv, NEW d \in Keyboards, NEW k \in Keys, NEW kind \in Kinds, KeyEntry(d, k, kind)
    PROVE  RoutingInv'
<1>1. /\ EntryLedger(d, k) /\ EntryGate /\ EntryCallback(d, k, kind)
      /\ EntryDecision(d, k, kind) /\ EntryOutput
  BY ZenonT(30), EntryFacts
<1>2. TypeOK /\ OwnedIsDown /\ GateAgrees /\ HeldAgrees /\ ClientAgrees /\ LedgerHeld /\ NothingPending
  BY ZenonT(30) DEF RoutingInv
<1>3. /\ cur = None /\ ~locking /\ d \in router.devices
      /\ kind \in IF k \in down[d] THEN {"Up", "Repeat"} ELSE {"Down"}
      /\ down' = [down EXCEPT ![d] = IF kind = "Up" THEN @ \ {k} ELSE @ \cup {k}]
      /\ UNCHANGED <<bootstrap, seat, ledger, locking, protocol, focused, astray>>
  BY ZenonT(30) DEF KeyEntry
<1>4. /\ router \in Routers /\ router.devices \subseteq Keyboards
      /\ router.owner \in OwnerTable /\ client \in [Clients -> SUBSET Keys]
      /\ focused \in Clients \cup {None} /\ down \in [Keyboards -> SUBSET Keys] /\ phase \in Phases
  BY ZenonT(30), <1>2, RouterFields DEF TypeOK
<1>5. /\ \A x \in Keyboards, y \in Keys : OwnerBefore(x, y)' = router.owner[x][y]
      /\ \A o : HeldBefore(o)' = HeldAs(router, o)
  BY ZenonT(30), <1>1, <1>4, EntryBefore
<1>6. /\ \A x, y : OwnerBefore(x, y) = router.owner[x][y]
      /\ \A o : HeldBefore(o) = HeldAs(router, o)
  BY ZenonT(30), <1>3, IdleBefore
<1>7. /\ client' \in [Clients -> SUBSET Keys]
      /\ focused # None =>
           \/ client'[focused] = client[focused]
           \/ \E t : client'[focused] = client[focused] \ {t} /\ ~TargetHeld(router, t)
  BY ZenonT(30), <1>1, <1>4, ToldFields DEF EntryOutput
<1>8. TypeOK'
  <2>1. held' \subseteq Keys /\ phase' \in Phases
    BY ZenonT(30), <1>1, <1>2 DEF EntryGate, HeldAs, TypeOK, Phases
  <2>2. \A x \in Keyboards \ router'.devices : router'.owner[x] = Free
    BY ZenonT(30), <1>1, <1>2, <1>3 DEF EntryLedger, TypeOK
  <2>3. down' \in [Keyboards -> SUBSET Keys]
    BY ZenonT(30), <1>3, <1>4
  <2> QED
    BY ZenonT(30), <1>1, <1>2, <1>3, <1>7, <2>1, <2>2, <2>3 DEF TypeOK, EntryLedger, EntryOutput, Free
<1>9. OwnedIsDown'
  <2>1. router'.owner[d][k] # "None" <=> kind # "Up"
    BY ZenonT(30), <1>1 DEF EntryDecision, TakenAs, Kinds
  <2>2. k \in down'[d] <=> kind # "Up"
    BY ZenonT(30), <1>3, <1>4
  <2>3. \A x \in Keyboards, y \in Keys : x # d \/ y # k => (y \in down'[x] <=> y \in down[x])
    BY ZenonT(30), <1>3, <1>4
  <2>4. ASSUME NEW x \in Keyboards, NEW y \in Keys
        PROVE  router'.owner[x][y] # "None" <=> y \in down'[x]
    <3>1. CASE x = d /\ y = k
      BY ZenonT(30), <2>1, <2>2, <3>1
    <3>2. CASE x # d \/ y # k
      <4>1. router'.owner[x][y] = router.owner[x][y]
        BY ZenonT(30), <1>1, <3>2 DEF EntryLedger
      <4> QED
        BY ZenonT(30), <1>2, <2>3, <3>2, <4>1 DEF OwnedIsDown
    <3> QED
      BY ZenonT(30), <3>1, <3>2
  <2> QED
    BY ZenonT(30), <2>4 DEF OwnedIsDown
<1>10. NothingPending'
  BY ZenonT(30), <1>1, CallbackAssumption DEF NothingPending, EntryLedger, EntryCallback
<1>11. ASSUME router'.locked
       PROVE  /\ router.locked
              /\ \A x \in Keyboards, y \in Keys :
                    router.owner[x][y] # "Forwarded" /\ router'.owner[x][y] # "Forwarded"
  <2>1. router.locked
    BY ZenonT(30), <1>1, <1>11 DEF EntryGate
  <2>2. \A x \in Keyboards, y \in Keys : router.owner[x][y] # "Forwarded"
    BY ZenonT(30), <1>2, <2>1 DEF GateAgrees
  <2>3. router'.owner[d][k] # "Forwarded"
    BY ZenonT(30), <1>1, <1>11, <2>2 DEF EntryDecision, Kinds
  <2>4. \A x \in Keyboards, y \in Keys : <<x, y>> # <<d, k>> => router'.owner[x][y] = router.owner[x][y]
    BY ZenonT(30), <1>1 DEF EntryLedger
  <2>5. \A x \in Keyboards, y \in Keys : router'.owner[x][y] # "Forwarded"
    BY ZenonT(30), <2>2, <2>3, <2>4
  <2> QED
    BY ZenonT(30), <2>1, <2>2, <2>5
<1>12. GateAgrees'
  BY ZenonT(30), <1>1, <1>2, <1>3, <1>11 DEF GateAgrees, EntryGate
<1>13. CallbackOK'
  <2>1. Observe(phase', protocol) = phase'
    BY ZenonT(30), <1>1, <1>4 DEF EntryGate, Observe, Phases
  <2> QED
    BY ZenonT(30), <1>1, <1>3, <2>1 DEF CallbackOK, EntryCallback, EntryLedger, Observe
<1>14. DecisionAgrees'
  <2> DEFINE own == router'.owner[d][k]
             was == router.owner[d][k]
             result == cur'.result
             other == OtherForwarded(router', d, k)
  <2>1. /\ cur'.event.dev = d /\ cur'.event.key = k /\ cur'.event.kind = kind
        /\ result \in Results
    BY ZenonT(30), <1>1 DEF EntryCallback, Callback, Results
  <2>2. other <=> OtherForwarded(router, d, k)
    BY ZenonT(30), <1>1, <1>4, OtherUnmoved DEF EntryLedger
  <2>3. CASE kind = "Down"
    <3>1. /\ own = IF router'.locked THEN "LockerOwned" ELSE IF result.stock THEN "Forwarded" ELSE "Consumed"
          /\ router'.locked => result.outcome = "LockerOwned" /\ result.stock /\ result.client
          /\ ~router'.locked =>
               /\ result.client <=> result.stock /\ ~other
               /\ result.outcome \in {"Merged", "Swallowed", "Replaced", "PartialFatal",
                                      "StockConsumed", "Quarantined"} => ~result.client
      BY ZenonT(30), <1>1, <2>1, <2>2, <2>3 DEF EntryDecision, Decides, TakenAs
    <3> HIDE DEF own, was, result, other
    <3>2. /\ result.outcome \in {"Merged", "Swallowed", "Replaced", "PartialFatal",
                                  "StockConsumed", "Quarantined"} => ~result.client
          /\ result.client <=> (result.stock /\ ~(own = "Forwarded" /\ other))
      BY ZenonT(30), <2>1, <3>1 DEF Results
    <3> QED
      BY ZenonT(30), <2>1, <2>3, <3>1, <3>2 DEF DecisionAgrees, own, result, other
  <2>4. CASE kind # "Down"
    <3>1. /\ was # "None" /\ (kind = "Up" => own = "None")
          /\ was = OwnerOf(result.outcome) /\ result.outcome \notin {"Replaced", "PartialFatal", "Rejected"}
          /\ result.outcome = "Merged" <=> was = "Forwarded" /\ kind = "Up" /\ other
          /\ result.stock <=> (was \in {"Forwarded", "StockConsumed"} \/ (was = "LockerOwned" /\ router'.locked))
          /\ result.client <=> (result.outcome = "Forwarded" \/ (was = "LockerOwned" /\ router'.locked))
      BY ZenonT(30), <1>1, <2>1, <2>4 DEF EntryDecision, Follows
    <3>2. was = "Forwarded" => ~router'.locked
      BY ZenonT(30), <1>11
    <3>3. OwnerBefore(d, k)' = was
      BY ZenonT(30), <1>5
    <3> HIDE DEF own, was, result, other
    <3>4. result.outcome \in {"Merged", "Swallowed", "Replaced", "PartialFatal",
                              "StockConsumed", "Quarantined"} => ~result.client
      BY ZenonT(30), <2>1, <3>1 DEF OwnerOf, Results
    <3>5. /\ router'.owner[cur'.event.dev][cur'.event.key] = own
          /\ OtherForwarded(router', cur'.event.dev, cur'.event.key) <=> other
      BY ZenonT(30), <2>1 DEF own, other
    <3>6. OwnerBefore(cur.event.dev, cur.event.key)' = was
      BY ZenonT(30), <2>1, <2>4, <3>1, <3>3 DEF OwnerBefore
    <3> QED
      BY ZenonT(30), <2>1, <2>4, <3>1, <3>2, <3>4, <3>5, <3>6 DEF DecisionAgrees, result
  <2> QED
    BY ZenonT(30), <2>3, <2>4
<1>15. HeldAgrees'
  BY ZenonT(30), <1>1, <1>2, <1>3, <1>5, <1>6 DEF HeldAgrees, EntryGate
<1>16. ClientAgrees'
  <2> SUFFICES ASSUME phase' = "Open", ~astray, focused # None
      PROVE  /\ ~router'.locked /\ (~router'.fatal \/ fresh') => client'[focused] = held'
             /\ router'.locked => client'[focused] \subseteq HeldBefore("LockerOwned")'
    BY ZenonT(30), <1>3 DEF ClientAgrees
  <2>1. phase' = phase /\ held' = held /\ (router'.locked <=> router.locked)
    BY ZenonT(30), <1>1, <1>2 DEF EntryGate, GateAgrees
  <2>2. held = HeldAs(router, "Forwarded")
    BY ZenonT(30), <1>2, <1>6, <2>1 DEF HeldAgrees
  <2>3. \A t : ~TargetHeld(router, t) => t \notin held
    BY ZenonT(30), <2>2 DEF TargetHeld, HeldAs
  <2>4. /\ ~router.locked /\ (~router.fatal \/ fresh) => client[focused] = held
        /\ router.locked => client[focused] \subseteq HeldAs(router, "LockerOwned")
    BY ZenonT(30), <1>2, <1>6, <2>1 DEF ClientAgrees
  <2>5. /\ client[focused] = held => client'[focused] = held
        /\ client'[focused] \subseteq client[focused]
    BY ZenonT(30), <1>7, <2>3
  <2> QED
    BY ZenonT(30), <1>1, <1>5, <2>1, <2>4, <2>5 DEF EntryOutput
<1>17. LedgerHeld'
  <2>1. ~astray => ledger \subseteq HeldAs(router, "Forwarded") \cup HeldAs(router, "Quarantined") \cup
                     IF phase = "Open" /\ router.locked THEN HeldAs(router, "LockerOwned") ELSE {}
    BY ZenonT(30), <1>2, <1>6 DEF LedgerHeld
  <2> QED
    BY ZenonT(30), <1>1, <1>3, <1>5, <2>1 DEF LedgerHeld, EntryGate
<1> QED
  BY ZenonT(30), <1>8, <1>9, <1>10, <1>12, <1>13, <1>14, <1>15, <1>16, <1>17 DEF RoutingInv

-----------------------------------------------------------------------------
(* A key callback from the stock call on.                                  *)

TakenByStock(r, e, res, admitted) ==
    /\ e.kind = "Down" /\ (res.client \/ res.outcome = "Merged")
    /\ r.owner[e.dev][e.key] \in {"Forwarded", "LockerOwned"} /\ ~admitted

Original(r, e, res, admitted, x) ==
    /\ ~TakenByStock(r, e, res, admitted) => x.router = r /\ x.result = res
    /\ TakenByStock(r, e, res, admitted) =>
         /\ Moves(r, x.router, e.dev, e.key, "StockConsumed")
         /\ x.router.pending = r.pending /\ x.router.released = r.released
         /\ x.router.fatal <=> r.fatal
         /\ x.result.outcome = "StockConsumed" /\ ~x.result.client

\* A keybinding that takes the press takes the key.
LEMMA OriginalOutcomeMoves ==
    ASSUME NEW r \in Routers, NEW e \in Event, NEW res, NEW admitted
    PROVE  Original(r, e, res, admitted, OriginalOutcome(r, e, res, admitted))
<1> DEFINE x == OriginalOutcome(r, e, res, admitted)
<1>1. CASE ~TakenByStock(r, e, res, admitted)
  BY ZenonT(30), <1>1 DEF TakenByStock, Original, OriginalOutcome
<1>2. CASE TakenByStock(r, e, res, admitted)
  <2>1. x = [router |-> [r EXCEPT !.owner[e.dev][e.key] = "StockConsumed"],
             result |-> Result("StockConsumed", TRUE, FALSE)]
    BY ZenonT(30), <1>2 DEF TakenByStock, OriginalOutcome
  <2> HIDE DEF x
  <2>2. /\ x.router = [r EXCEPT !.owner[e.dev][e.key] = "StockConsumed"]
        /\ x.result = Result("StockConsumed", TRUE, FALSE)
    BY ZenonT(30), <2>1
  <2>a. "StockConsumed" \in Owners
    BY ZenonT(30) DEF Owners
  <2>3. HandsOver(r, e, "StockConsumed", x.router)
    <3>1. HandsOver(r, e, "StockConsumed", [r EXCEPT !.owner[e.dev][e.key] = "StockConsumed"])
      BY ZenonT(30), <2>a, OwnerMoves
    <3> QED
      BY ZenonT(30), <2>2, <3>1
  <2>4. x.result.outcome = "StockConsumed" /\ ~x.result.client
    BY ZenonT(30), <2>2, ResultFields DEF Outcomes
  <2>5. Original(r, e, res, admitted, x)
    BY ZenonT(30), <1>2, <2>3, <2>4 DEF Original, HandsOver
  <2> QED
    BY ZenonT(30), <2>5 DEF x
<1> QED
  BY ZenonT(30), <1>1, <1>2

\* What the end of a modifier's release leaves behind.
ReleaseFinished(r, ticket, reply, delivered, original, x) ==
    /\ x.router \in Routers /\ x.router.devices = r.devices /\ x.router.owner = r.owner
    /\ x.router.locked <=> r.locked
    /\ x.router.pending = r.pending /\ x.router.released = None
    /\ r.fatal => x.router.fatal
    /\ \/ x.outcome = original
       \/ x.outcome = "Rejected"
       \/ /\ x.outcome \in {"Replaced", "PartialFatal"} /\ delivered
          /\ ticket.focus = r.focus /\ ~TargetHeld(r, reply.target)

\* Its action goes out only after the release itself, in the focus it was asked in.
LEMMA FinishReleaseFinishes ==
    ASSUME NEW r \in Routers, NEW ticket, NEW reply, NEW delivered, NEW late, NEW delivery, NEW original
    PROVE  ReleaseFinished(r, ticket, reply, delivered, original,
                           FinishRelease(r, ticket, reply, delivered, late, delivery, original))
<1> DEFINE x == FinishRelease(r, ticket, reply, delivered, late, delivery, original)
           eligible == /\ r.released = ticket /\ delivered
                       /\ ~r.locked /\ ~r.fatal /\ ~late
                       /\ ticket.epoch = r.epoch /\ ticket.focus = r.focus
                       /\ reply.target # ticket.key /\ ~TargetHeld(r, reply.target)
           outcome == IF reply = None \/ reply.verdict # "Replace" THEN original
                      ELSE IF ~eligible \/ delivery = "RejectedNoOutput" THEN "Rejected"
                      ELSE IF delivery = "PartialFatal" THEN "PartialFatal"
                      ELSE "Replaced"
           f == r.fatal \/ outcome = "PartialFatal"
<1>1. x = [router |-> [r EXCEPT !.released = None, !.fatal = f], outcome |-> outcome]
  BY ZenonT(30) DEF FinishRelease
<1>2. x.router = [r EXCEPT !.released = None, !.fatal = f] /\ x.outcome = outcome
  <2> HIDE DEF f, outcome, x
  <2> QED BY ZenonT(30), <1>1
<1>3. \/ outcome = original \/ outcome = "Rejected"
      \/ /\ outcome \in {"Replaced", "PartialFatal"} /\ delivered
         /\ ticket.focus = r.focus /\ ~TargetHeld(r, reply.target)
  BY ZenonT(30)
<1>4. f \in BOOLEAN /\ (r.fatal => f)
  BY ZenonT(30)
<1> HIDE DEF f, outcome, x
<1>5. PICK b \in BOOLEAN : b = f
  BY ZenonT(30), <1>4
<1>6. [r EXCEPT !.released = None, !.fatal = b] \in Routers
  BY ZenonT(30) DEF Routers
<1>7. x.router = [r EXCEPT !.released = None, !.fatal = b]
  BY ZenonT(30), <1>2, <1>5
<1>8. x.router \in Routers
  BY ZenonT(30), <1>6, <1>7
<1>9. /\ x.router.devices = r.devices /\ x.router.owner = r.owner /\ x.router.locked = r.locked
      /\ x.router.pending = r.pending /\ x.router.released = None /\ x.router.fatal = b
  BY ZenonT(30), <1>7 DEF Routers
<1>10. r.fatal => x.router.fatal
  BY ZenonT(30), <1>4, <1>5, <1>9
<1>11. ReleaseFinished(r, ticket, reply, delivered, original, x)
  BY ZenonT(30), <1>2, <1>3, <1>8, <1>9, <1>10 DEF ReleaseFinished
<1> QED
  BY ZenonT(30), <1>11 DEF x

\* The owner stock's answer leaves the key with.
OwnerLeft(admitted) ==
    IF TakenByStock(router, cur.event, cur.result, admitted) THEN "StockConsumed"
    ELSE router.owner[cur.event.dev][cur.event.key]

FinishLedger(admitted, f) ==
    /\ f.router \in Routers /\ f.router.devices = router.devices
    /\ f.router.locked <=> router.locked
    /\ f.router.pending = None /\ f.router.released = None
    /\ router.fatal => f.router.fatal
    /\ f.router.owner[cur.event.dev][cur.event.key] = OwnerLeft(admitted)
    /\ \A x \in Keyboards, y \in Keys :
          x # cur.event.dev \/ y # cur.event.key => f.router.owner[x][y] = router.owner[x][y]
    /\ \A x \in Keyboards : x # cur.event.dev => f.router.owner[x] = router.owner[x]
    /\ f.held = Synchronize(f.router, RouteLocked(phase))

\* The seat got the event through the plugin's own hook.
Invoked(admitted) == cur.result.client /\ admitted /\ focused # None /\ ~RouteLocked(phase)

FinishOutput(admitted, f) ==
    /\ f.delivered <=> cur.result.client /\ admitted /\ focused # None
    /\ f.seat \in Clients \cup {None}
    /\ \/ f.outcome = IF TakenByStock(router, cur.event, cur.result, admitted)
                      THEN "StockConsumed" ELSE cur.result.outcome
       \/ cur.event.kind = "Up" /\ f.outcome = "Rejected"
       \/ /\ cur.event.kind = "Up" /\ f.outcome \in {"Replaced", "PartialFatal"}
          /\ Invoked(admitted) /\ cur.ticket # None /\ cur.ticket.focus = router.focus
          /\ ~TargetHeld(router, cur.reply.target)
    /\ \E invoked \in BOOLEAN :
          /\ invoked <=> Invoked(admitted)
          /\ f.code = OutcomeCode(f.outcome, cur.event.kind, invoked, cur.reply)

\* The fields of the callback under way.
LEMMA CallbackFields ==
    ASSUME RoutingInv, cur # None
    PROVE  /\ cur.event \in Event /\ cur.event.dev \in router.devices /\ cur.event.dev \in Keyboards
           /\ cur.event.key \in Keys /\ cur.event.kind \in Kinds
           /\ cur.result \in Results /\ cur.result.outcome \in Outcomes
           /\ cur.result.stock \in BOOLEAN /\ cur.result.client \in BOOLEAN
           /\ cur.ticket \in MaybeTicket /\ cur.moved \in BOOLEAN
BY ZenonT(30) DEF RoutingInv, CallbackOK, Callback, Event, Results, MaybeTicket

\* A key that stock takes is one it was asked about.
LEMMA TakenRuns ==
    ASSUME RoutingInv, cur # None, NEW admitted \in BOOLEAN,
           TakenByStock(router, cur.event, cur.result, admitted)
    PROVE  StockRuns
<1>1. cur.event.kind = "Down" /\ router.owner[cur.event.dev][cur.event.key] \in {"Forwarded", "LockerOwned"}
      /\ DecisionAgrees
  BY ZenonT(30) DEF TakenByStock, RoutingInv
<1>2. /\ router.owner[cur.event.dev][cur.event.key] =
            IF router.locked THEN "LockerOwned" ELSE IF cur.result.stock THEN "Forwarded" ELSE "Consumed"
      /\ router.locked => cur.result.stock
  BY ZenonT(30), <1>1 DEF DecisionAgrees
<1> QED
  BY ZenonT(30), <1>1, <1>2 DEF StockRuns

\* What the rest of a callback does, whatever stock answers.
LEMMA FinishFacts ==
    ASSUME RoutingInv, cur # None, NEW admitted \in BOOLEAN, NEW late, NEW delivery
    PROVE  /\ FinishLedger(admitted, Finish(admitted, late, delivery))
           /\ FinishOutput(admitted, Finish(admitted, late, delivery))
<1> DEFINE f == Finish(admitted, late, delivery)
           e == cur.event
           taken == TakenByStock(router, e, cur.result, admitted)
           original == IF StockRuns THEN OriginalOutcome(router, e, cur.result, admitted)
                       ELSE [router |-> router, result |-> cur.result]
           routed == original.result.client /\ admitted
           invoked == routed /\ focused # None /\ ~RouteLocked(phase)
           last == IF e.kind = "Up" /\ cur.ticket # None
                   THEN FinishRelease(original.router, cur.ticket, cur.reply, invoked,
                                      late, delivery, original.result.outcome)
                   ELSE [router |-> original.router, outcome |-> original.result.outcome]
<1>1. f = [router |-> last.router,
           held |-> Synchronize(original.router, RouteLocked(phase)),
           outcome |-> last.outcome,
           code |-> OutcomeCode(last.outcome, e.kind, invoked, cur.reply),
           delivered |-> routed /\ focused # None,
           seat |-> IF routed /\ ~RouteLocked(phase) THEN focused ELSE seat]
  BY ZenonT(30) DEF Finish
<1>2. /\ router \in Routers /\ router.pending = None
      /\ router.released # None => e.kind = "Up" /\ cur.ticket # None
      /\ focused \in Clients \cup {None} /\ seat \in Clients \cup {None}
  BY ZenonT(30) DEF RoutingInv, TypeOK, NothingPending
<1>3. e \in Event /\ e.dev \in Keyboards /\ e.key \in Keys
  BY ZenonT(30), CallbackFields
<1>4. Original(router, e, cur.result, admitted, original)
  <2>1. CASE StockRuns
    BY ZenonT(30), <1>2, <1>3, <2>1, OriginalOutcomeMoves
  <2>2. CASE ~StockRuns
    <3>1. ~taken
      BY ZenonT(30), <2>2, TakenRuns
    <3>2. original.router = router /\ original.result = cur.result
      BY ZenonT(30), <2>2
    <3> QED
      BY ZenonT(30), <3>1, <3>2 DEF Original
  <2> QED
    BY ZenonT(30), <2>1, <2>2
<1> HIDE DEF original
<1>5. routed <=> cur.result.client /\ admitted
  BY ZenonT(30), <1>4 DEF Original, TakenByStock
<1>6. /\ original.router \in Routers /\ original.router.devices = router.devices
      /\ (original.router.locked <=> router.locked)
      /\ original.router.pending = None /\ original.router.released = router.released
      /\ (original.router.fatal <=> router.fatal)
      /\ original.router.owner[e.dev][e.key] = OwnerLeft(admitted)
      /\ \A x \in Keyboards, y \in Keys : x # e.dev \/ y # e.key => original.router.owner[x][y] = router.owner[x][y]
      /\ \A x \in Keyboards : x # e.dev => original.router.owner[x] = router.owner[x]
  BY ZenonT(30), <1>2, <1>4 DEF Original, Moves, OwnerLeft
<1>7. original.result.outcome = IF taken THEN "StockConsumed" ELSE cur.result.outcome
  BY ZenonT(30), <1>4 DEF Original
<1>8. (invoked <=> Invoked(admitted)) /\ invoked \in BOOLEAN
  BY ZenonT(30), <1>5 DEF Invoked
<1> HIDE DEF routed, invoked
<1>9. /\ last.router \in Routers /\ last.router.devices = original.router.devices
      /\ last.router.owner = original.router.owner /\ (last.router.locked <=> original.router.locked)
      /\ last.router.pending = None /\ last.router.released = None
      /\ original.router.fatal => last.router.fatal
      /\ \/ last.outcome = original.result.outcome
         \/ e.kind = "Up" /\ last.outcome = "Rejected"
         \/ /\ e.kind = "Up" /\ last.outcome \in {"Replaced", "PartialFatal"}
            /\ invoked /\ cur.ticket # None /\ cur.ticket.focus = router.focus
            /\ ~TargetHeld(router, cur.reply.target)
  <2>1. CASE e.kind = "Up" /\ cur.ticket # None
    <3>1. last = FinishRelease(original.router, cur.ticket, cur.reply, invoked,
                               late, delivery, original.result.outcome)
      BY ZenonT(30), <2>1
    <3> HIDE DEF last
    <3>2. ReleaseFinished(original.router, cur.ticket, cur.reply, invoked, original.result.outcome, last)
      BY ZenonT(30), <1>6, <3>1, FinishReleaseFinishes
    <3>3. original.router = router
      BY ZenonT(30), <1>4, <2>1 DEF Original, TakenByStock
    <3> QED
      BY ZenonT(30), <1>6, <2>1, <3>2, <3>3 DEF ReleaseFinished
  <2>2. CASE ~(e.kind = "Up" /\ cur.ticket # None)
    <3>1. last.router = original.router /\ last.outcome = original.result.outcome
      BY ZenonT(30), <2>2
    <3>2. original.router.released = None
      BY ZenonT(30), <1>2, <1>6, <2>2
    <3> HIDE DEF last
    <3> QED
      BY ZenonT(30), <1>6, <3>1, <3>2
  <2> QED
    BY ZenonT(30), <2>1, <2>2
<1> HIDE DEF last, f
<1>10. /\ f.router = last.router /\ f.held = Synchronize(original.router, RouteLocked(phase))
       /\ f.outcome = last.outcome
       /\ f.code = OutcomeCode(last.outcome, e.kind, invoked, cur.reply)
       /\ f.delivered <=> routed /\ focused # None
       /\ f.seat = IF routed /\ ~RouteLocked(phase) THEN focused ELSE seat
  BY ZenonT(30), <1>1
<1>11. FinishLedger(admitted, f)
  <2>1. Synchronize(original.router, RouteLocked(phase)) = Synchronize(last.router, RouteLocked(phase))
    BY ZenonT(30), <1>9, SameHoldings DEF Synchronize
  <2>2. /\ f.router \in Routers /\ f.router.devices = router.devices
        /\ f.router.locked <=> router.locked
        /\ f.router.pending = None /\ f.router.released = None
        /\ router.fatal => f.router.fatal
        /\ f.held = Synchronize(f.router, RouteLocked(phase))
    BY ZenonT(30), <1>6, <1>9, <1>10, <2>1
  <2>3. f.router.owner = original.router.owner
    BY ZenonT(30), <1>9, <1>10
  <2>4. /\ f.router.owner[e.dev][e.key] = OwnerLeft(admitted)
        /\ \A x \in Keyboards, y \in Keys : x # e.dev \/ y # e.key => f.router.owner[x][y] = router.owner[x][y]
        /\ \A x \in Keyboards : x # e.dev => f.router.owner[x] = router.owner[x]
    <3> HIDE DEF e
    <3> QED BY SMTT(30), <1>6, <2>3
  <2> QED
    BY ZenonT(30), <2>2, <2>4 DEF FinishLedger
<1>12. FinishOutput(admitted, f)
  <2>1. f.seat \in Clients \cup {None}
    BY ZenonT(30), <1>2, <1>10
  <2>2. f.delivered <=> cur.result.client /\ admitted /\ focused # None
    BY ZenonT(30), <1>5, <1>10
  <2> QED
    BY ZenonT(30), <1>7, <1>8, <1>9, <1>10, <2>1, <2>2 DEF FinishOutput
<1> QED
  BY ZenonT(30), <1>11, <1>12 DEF f

-----------------------------------------------------------------------------
(* The rest of a key callback keeps the invariant.                         *)

OthersOwn(o) == \E x \in router.devices \ {cur.event.dev} : router.owner[x][cur.event.key] = o

\* A callback changes what is held of its own key alone.
LEMMA FinishHeld ==
    ASSUME RoutingInv, cur # None, NEW admitted, NEW f, FinishLedger(admitted, f), NEW o
    PROVE  /\ HeldAs(f.router, o) \subseteq Keys /\ HeldBefore(o) \subseteq Keys
           /\ \A y \in Keys : y # cur.event.key => (y \in HeldAs(f.router, o) <=> y \in HeldBefore(o))
           /\ cur.event.key \in HeldBefore(o)
                 <=> OwnerBefore(cur.event.dev, cur.event.key) = o \/ OthersOwn(o)
           /\ cur.event.key \in HeldAs(f.router, o) <=> OwnerLeft(admitted) = o \/ OthersOwn(o)
<1> DEFINE d == cur.event.dev
           k == cur.event.key
<1>1. d \in router.devices /\ k \in Keys /\ router.devices \subseteq Keyboards /\ f.router.devices = router.devices
  BY ZenonT(30), CallbackFields, RouterFields DEF RoutingInv, TypeOK, FinishLedger
<1>2. \A x, y : x # d \/ y # k => OwnerBefore(x, y) = router.owner[x][y]
  BY ZenonT(30) DEF OwnerBefore
<1>3. \A x \in Keyboards, y \in Keys : x # d \/ y # k => f.router.owner[x][y] = router.owner[x][y]
  BY ZenonT(30) DEF FinishLedger
<1>4. f.router.owner[d][k] = OwnerLeft(admitted)
  BY ZenonT(30) DEF FinishLedger
<1> HIDE DEF d, k
<1>5. \A y \in Keys : y # k => (y \in HeldAs(f.router, o) <=> y \in HeldBefore(o))
  BY SMTT(30), <1>1, <1>2, <1>3 DEF HeldAs, HeldBefore
<1>6. k \in HeldBefore(o) <=> OwnerBefore(d, k) = o \/ \E x \in router.devices \ {d} : router.owner[x][k] = o
  BY SMTT(30), <1>1, <1>2 DEF HeldBefore
<1>7. k \in HeldAs(f.router, o) <=> OwnerLeft(admitted) = o \/ \E x \in router.devices \ {d} : router.owner[x][k] = o
  BY ZenonT(30), <1>1, <1>3, <1>4 DEF HeldAs
<1> QED
  BY ZenonT(30), <1>5, <1>6, <1>7 DEF HeldAs, HeldBefore, OthersOwn, d, k

FinishWrites(admitted, f, rec) ==
    /\ held' = f.held
    /\ Recovered(f.router, fresh /\ f.outcome # "PartialFatal", f.held, rec)
    /\ router' = rec.router
    /\ fresh' = rec.fresh
    /\ seat' = f.seat
    /\ ledger' = SeatLedger(admitted)
    /\ client' = IF ~f.delivered THEN client
                 ELSE IF cur.event.kind # "Up" THEN [client EXCEPT ![focused] = @ \cup {cur.event.key}]
                 ELSE Told(focused, {cur.event.key} \cup
                          IF f.outcome = "Replaced" THEN {cur.reply.target} ELSE {})
    /\ astray' = (astray \/ (/\ cur.event.kind = "Down" /\ StockRuns /\ ~admitted
                             /\ f.router.owner[cur.event.dev][cur.event.key] = "Forwarded"))

\* Stock answers yes or no.
LEMMA AnswersBoolean ==
    ASSUME NEW admitted \in KeybindAnswers
    PROVE  admitted \in BOOLEAN
<1> DEFINE noted == cur.event.key \in ledger
           consumed == cur.result.outcome # "StockConsumed"
<1>1. noted \in BOOLEAN /\ consumed \in BOOLEAN
  OBVIOUS
<1>2. admitted \in BOOLEAN \/ admitted \in {noted} \/ admitted \in {consumed}
  BY ZenonT(30) DEF KeybindAnswers
<1> HIDE DEF noted, consumed
<1> QED
  BY ZenonT(30), <1>1, <1>2

\* One answer of stock accounts for all a callback's end writes.
LEMMA FinishFound ==
    ASSUME RoutingInv, KeyFinish
    PROVE  \E admitted \in KeybindAnswers : \E f, rec :
              /\ FinishLedger(admitted, f) /\ FinishOutput(admitted, f)
              /\ FinishWrites(admitted, f, rec)
<1>1. cur # None
  BY ZenonT(30) DEF KeyFinish
<1>2. PICK admitted \in KeybindAnswers, late \in BOOLEAN, delivery \in Deliveries :
       LET f == Finish(admitted, late, delivery)
           e == cur.event
       IN  /\ held' = f.held
           /\ \E rec \in TryRecovery(f.router, phase, f.held, SeatLedger(admitted),
                                     fresh /\ f.outcome # "PartialFatal") :
                /\ router' = rec.router
                /\ fresh' = rec.fresh
           /\ seat' = f.seat
           /\ ledger' = SeatLedger(admitted)
           /\ client' = IF ~f.delivered THEN client
                        ELSE IF e.kind # "Up" THEN [client EXCEPT ![focused] = @ \cup {e.key}]
                        ELSE Told(focused, {e.key} \cup
                                 IF f.outcome = "Replaced" THEN {cur.reply.target} ELSE {})
           /\ astray' = (astray \/ (/\ e.kind = "Down" /\ StockRuns /\ ~admitted
                                    /\ f.router.owner[e.dev][e.key] = "Forwarded"))
  BY ZenonT(30) DEF KeyFinish
<1> DEFINE f == Finish(admitted, late, delivery)
<1>3. admitted \in BOOLEAN
  BY ZenonT(30), AnswersBoolean
<1>4. FinishLedger(admitted, f) /\ FinishOutput(admitted, f)
  BY ZenonT(30), <1>1, <1>3, FinishFacts
<1> HIDE DEF f
<1>5. PICK rec \in TryRecovery(f.router, phase, f.held, SeatLedger(admitted),
                                fresh /\ f.outcome # "PartialFatal") :
         router' = rec.router /\ fresh' = rec.fresh
  BY ZenonT(30), <1>2 DEF f
<1>6. Recovered(f.router, fresh /\ f.outcome # "PartialFatal", f.held, rec)
  BY ZenonT(30), <1>4, TryRecoveryRecovers DEF FinishLedger
<1>7. FinishWrites(admitted, f, rec)
  BY ZenonT(30), <1>2, <1>5, <1>6 DEF FinishWrites, f
<1> QED
  BY ZenonT(30), <1>4, <1>7

\* The whole of it: RoutingInv after a callback, whatever stock answered, wherever
\* the focus went meanwhile and whether or not the output was recovered.
LEMMA KeyFinishStep ==
    ASSUME RoutingInv, KeyFinish
    PROVE  RoutingInv'
<1> DEFINE d == cur.event.dev
           k == cur.event.key
           kind == cur.event.kind
           result == cur.result
           own == router.owner[d][k]
           was == OwnerBefore(d, k)
           other == OtherForwarded(router, d, k)
<1>1. /\ cur # None /\ cur' = None
      /\ UNCHANGED <<phase, bootstrap, locking, protocol, focused, down>>
  BY ZenonT(30) DEF KeyFinish
<1>2. /\ TypeOK /\ OwnedIsDown /\ GateAgrees /\ HeldAgrees /\ ClientAgrees /\ LedgerHeld /\ NothingPending
      /\ DecisionAgrees /\ CallbackOK
  BY ZenonT(30) DEF RoutingInv
<1>3. /\ router \in Routers /\ router.devices \subseteq Keyboards
      /\ router.owner \in OwnerTable /\ client \in [Clients -> SUBSET Keys]
      /\ focused \in Clients \cup {None} /\ phase \in Phases /\ ledger \subseteq Keys
      /\ fresh \in BOOLEAN /\ astray \in BOOLEAN
  BY ZenonT(30), <1>2, RouterFields DEF TypeOK
<1>4. /\ d \in router.devices /\ d \in Keyboards /\ k \in Keys /\ kind \in Kinds
      /\ result \in Results /\ result.outcome \in Outcomes /\ result.stock \in BOOLEAN /\ result.client \in BOOLEAN
  BY ZenonT(30), <1>1, CallbackFields
<1>5. PICK admitted \in KeybindAnswers : \E f, rec :
         /\ FinishLedger(admitted, f) /\ FinishOutput(admitted, f)
         /\ FinishWrites(admitted, f, rec)
  BY ZenonT(30), FinishFound
<1>6. PICK f, rec :
         /\ FinishLedger(admitted, f) /\ FinishOutput(admitted, f)
         /\ FinishWrites(admitted, f, rec)
  BY ZenonT(30), <1>5
<1> DEFINE left == OwnerLeft(admitted)
           taken == TakenByStock(router, cur.event, cur.result, admitted)
\* What is left behind.
<1>7. /\ router' \in Routers /\ router'.devices = router.devices /\ router'.owner = f.router.owner
      /\ router'.locked <=> router.locked
      /\ router'.pending = None /\ router'.released = None
      /\ router'.owner[d][k] = left
      /\ \A x \in Keyboards, y \in Keys : x # d \/ y # k => router'.owner[x][y] = router.owner[x][y]
      /\ \A x \in Keyboards : x # d => router'.owner[x] = router.owner[x]
  <2>1. /\ router' \in Routers /\ router'.devices = router.devices /\ router'.owner = f.router.owner
        /\ router'.locked <=> router.locked
        /\ router'.pending = None /\ router'.released = None
    BY ZenonT(30), <1>6 DEF FinishWrites, FinishLedger, Recovered, SameLedger
  <2>2. /\ f.router.owner[d][k] = left
        /\ \A x \in Keyboards, y \in Keys : x # d \/ y # k => f.router.owner[x][y] = router.owner[x][y]
        /\ \A x \in Keyboards : x # d => f.router.owner[x] = router.owner[x]
    BY ZenonT(30), <1>6 DEF FinishLedger
  <2> HIDE DEF d, k, left
  <2> QED
    BY SMTT(30), <2>1, <2>2
<1>8. left = own \/ (taken /\ left = "StockConsumed")
  BY ZenonT(30) DEF OwnerLeft
<1>9. /\ taken => kind = "Down" /\ own \in {"Forwarded", "LockerOwned"} /\ ~admitted
  BY ZenonT(30) DEF TakenByStock
<1>10. (~router'.fatal \/ fresh') => (~router.fatal \/ fresh)
  BY ZenonT(30), <1>6 DEF FinishWrites, FinishLedger, Recovered
<1>11. /\ fresh' \in BOOLEAN /\ astray' \in BOOLEAN /\ (astray => astray')
       /\ seat' \in Clients \cup {None}
  BY ZenonT(30), <1>6 DEF FinishWrites, FinishOutput, Recovered
<1>12. ~astray' => ~astray /\ (kind = "Down" /\ StockRuns /\ ~admitted => left # "Forwarded")
  BY ZenonT(30), <1>6, <1>7 DEF FinishWrites
<1>13. client' \in [Clients -> SUBSET Keys]
  <2>1. CASE ~f.delivered
    BY ZenonT(30), <1>3, <1>6, <2>1 DEF FinishWrites
  <2>2. CASE f.delivered /\ kind # "Up"
    <3>1. client' = [client EXCEPT ![focused] = @ \cup {k}]
      BY ZenonT(30), <1>6, <2>2 DEF FinishWrites
    <3>2. focused \in Clients
      BY ZenonT(30), <1>3, <1>6, <2>2 DEF FinishOutput
    <3> HIDE DEF k
    <3> QED
      BY ZenonT(30), <1>3, <1>4, <3>1, <3>2
  <2>3. CASE f.delivered /\ kind = "Up"
    <3> DEFINE keys == {k} \cup IF f.outcome = "Replaced" THEN {cur.reply.target} ELSE {}
    <3>1. client' = Told(focused, keys)
      BY ZenonT(30), <1>6, <2>3 DEF FinishWrites
    <3> HIDE DEF keys
    <3> QED
      BY ZenonT(30), <1>3, <3>1, ToldFields
  <2> QED
    BY ZenonT(30), <2>1, <2>2, <2>3
\* The invariant, conjunct by conjunct.
<1>14. TypeOK'
  <2>1. held' \subseteq Keys
    BY ZenonT(30), <1>6 DEF FinishWrites, FinishLedger, Synchronize, HeldAs
  <2>2. ledger' \subseteq Keys
    BY ZenonT(30), <1>3, <1>4, <1>6 DEF FinishWrites, SeatLedger
  <2>3. \A x \in Keyboards \ router'.devices : router'.owner[x] = Free
    BY ZenonT(30), <1>2, <1>4, <1>7 DEF TypeOK
  <2> QED
    BY ZenonT(30), <1>1, <1>2, <1>7, <1>11, <1>13, <2>1, <2>2, <2>3 DEF TypeOK, Free
<1>15. OwnedIsDown'
  <2>1. left # "None" <=> own # "None"
    BY ZenonT(30), <1>8, <1>9
  <2>2. ASSUME NEW x \in Keyboards, NEW y \in Keys
        PROVE  router'.owner[x][y] # "None" <=> router.owner[x][y] # "None"
    BY ZenonT(30), <1>7, <2>1
  <2> QED
    BY ZenonT(30), <1>1, <1>2, <2>2 DEF OwnedIsDown
<1>16. NothingPending'
  BY ZenonT(30), <1>7 DEF NothingPending
<1>17. GateAgrees'
  <2>1. ASSUME router'.locked, NEW x \in Keyboards, NEW y \in Keys
        PROVE  router'.owner[x][y] # "Forwarded"
    <3>1. router.owner[x][y] # "Forwarded"
      BY ZenonT(30), <1>2, <1>7, <2>1 DEF GateAgrees
    <3> QED
      BY ZenonT(30), <1>7, <1>8, <3>1
  <2> QED
    BY ZenonT(30), <1>1, <1>2, <1>7, <2>1 DEF GateAgrees
<1>18. CallbackOK' /\ DecisionAgrees'
  BY ZenonT(30), <1>1 DEF CallbackOK, DecisionAgrees
\* What is held, key by key.
<1>19. \A o : HeldBefore(o)' = HeldAs(f.router, o)
  <2>1. \A o : HeldBefore(o)' = HeldAs(router', o)
    BY ZenonT(30), <1>1 DEF HeldBefore, OwnerBefore, HeldAs
  <2>2. f.router.devices = router'.devices /\ f.router.owner = router'.owner
    BY ZenonT(30), <1>6, <1>7 DEF FinishLedger
  <2>3. \A o : HeldAs(router', o) = HeldAs(f.router, o)
    BY ZenonT(30), <2>2 DEF HeldAs
  <2> QED
    BY ZenonT(30), <2>1, <2>3
<1>20. HeldAgrees'
  BY ZenonT(30), <1>1, <1>6, <1>19 DEF HeldAgrees, FinishWrites, FinishLedger, Synchronize, RouteLocked
\* What was decided, and what stock may answer.
<1>21. /\ kind = "Down" =>
            /\ was = "None"
            /\ own = IF router.locked THEN "LockerOwned" ELSE IF result.stock THEN "Forwarded" ELSE "Consumed"
            /\ result.client <=> (result.stock /\ ~(own = "Forwarded" /\ other))
            /\ router.locked => result.outcome = "LockerOwned" /\ result.stock
       /\ kind = "Up" => own = "None"
       /\ kind = "Repeat" => own = was
  BY ZenonT(30), <1>1, <1>2 DEF DecisionAgrees, OwnerBefore
<1>22. kind # "Down" =>
            /\ was = OwnerOf(result.outcome)
            /\ result.outcome \notin {"Replaced", "PartialFatal", "Rejected"}
            /\ result.outcome = "Merged" <=> was = "Forwarded" /\ kind = "Up" /\ other
            /\ result.stock <=> \/ was \in {"Forwarded", "StockConsumed"}
                                \/ was = "LockerOwned" /\ router.locked
            /\ result.client <=> \/ result.outcome = "Forwarded"
                                 \/ was = "LockerOwned" /\ router.locked
            /\ was = "Forwarded" => ~router.locked
  BY ZenonT(30), <1>1, <1>2 DEF DecisionAgrees
<1>23. taken <=> /\ kind = "Down" /\ (result.client \/ result.outcome = "Merged")
                 /\ own \in {"Forwarded", "LockerOwned"} /\ ~admitted
  BY ZenonT(30) DEF TakenByStock
<1>24. /\ StockRuns <=> result.stock \/ Cleanup
       /\ Cleanup <=> kind = "Up" /\ result.outcome = "Quarantined"
       /\ admitted => StockRuns
       /\ ~astray /\ kind # "Down" /\ StockRuns /\ Cleanup => (admitted <=> k \in ledger)
       /\ ~astray /\ kind # "Down" /\ StockRuns /\ ~Cleanup => (admitted <=> result.outcome # "StockConsumed")
  BY ZenonT(30) DEF StockRuns, Cleanup, KeybindAnswers
<1>25. ASSUME NEW o
       PROVE  /\ HeldAs(f.router, o) \subseteq Keys /\ HeldBefore(o) \subseteq Keys
              /\ \A y \in Keys : y # k => (y \in HeldAs(f.router, o) <=> y \in HeldBefore(o))
              /\ k \in HeldBefore(o) <=> was = o \/ OthersOwn(o)
              /\ k \in HeldAs(f.router, o) <=> left = o \/ OthersOwn(o)
  BY ZenonT(30), <1>1, <1>6, FinishHeld
<1>26. OthersOwn("Forwarded") <=> other
  BY ZenonT(30) DEF OthersOwn, OtherForwarded
<1>27. ASSUME focused # None
       PROVE  /\ ~(result.client /\ admitted) => client'[focused] = client[focused]
              /\ result.client /\ admitted /\ kind # "Up" => client'[focused] = client[focused] \cup {k}
              /\ result.client /\ admitted /\ kind = "Up" =>
                   \E keys : /\ client'[focused] = client[focused] \ ({k} \cup keys)
                             /\ \A t \in keys : ~TargetHeld(router, t)
  <2>0. f.delivered <=> result.client /\ admitted
    BY ZenonT(30), <1>6, <1>27 DEF FinishOutput
  <2>1. kind = "Up" /\ f.outcome = "Replaced" => ~TargetHeld(router, cur.reply.target)
    <3>1. kind = "Up" => ~taken /\ result.outcome # "Replaced"
      BY ZenonT(30), <1>22, <1>23
    <3> QED
      BY ZenonT(30), <1>6, <3>1 DEF FinishOutput
  <2>2. CASE ~(result.client /\ admitted)
    BY ZenonT(30), <1>6, <2>0, <2>2 DEF FinishWrites
  <2>3. CASE result.client /\ admitted /\ kind # "Up"
    <3>1. client' = [client EXCEPT ![focused] = @ \cup {k}]
      BY ZenonT(30), <1>6, <2>0, <2>3 DEF FinishWrites
    <3> QED
      BY ZenonT(30), <1>3, <1>27, <2>3, <3>1
  <2>4. CASE result.client /\ admitted /\ kind = "Up"
    <3> DEFINE keys == IF f.outcome = "Replaced" THEN {cur.reply.target} ELSE {}
    <3>1. client' = Told(focused, {k} \cup keys)
      BY ZenonT(30), <1>6, <2>0, <2>4 DEF FinishWrites
    <3>2. \A t \in keys : ~TargetHeld(router, t)
      BY ZenonT(30), <2>1, <2>4
    <3> HIDE DEF keys
    <3>3. client'[focused] = client[focused] \ ({k} \cup keys)
      BY ZenonT(30), <1>3, <1>27, <3>1, ToldFields
    <3> QED
      BY ZenonT(30), <2>4, <3>2, <3>3
  <2> QED
    BY ZenonT(30), <2>2, <2>3, <2>4
<1> HIDE DEF d, k, kind, result, own, was, other, left, taken
<1>28. ClientAgrees'
  <2> SUFFICES ASSUME phase = "Open", ~astray', focused # None
      PROVE  /\ ~router'.locked /\ (~router'.fatal \/ fresh') => client'[focused] = held'
             /\ router'.locked => client'[focused] \subseteq HeldBefore("LockerOwned")'
    BY ZenonT(30), <1>1 DEF ClientAgrees
  <2>1. /\ ~astray /\ (kind = "Down" /\ StockRuns /\ ~admitted => left # "Forwarded")
    BY ZenonT(30), <1>12
  <2>2. focused \in Clients /\ client[focused] \subseteq Keys /\ client'[focused] \subseteq Keys
    BY ZenonT(30), <1>3, <1>13
  <2>3. CASE ~router.locked /\ (~router.fatal \/ fresh)
    <3>1. client[focused] = HeldBefore("Forwarded")
      BY ZenonT(30), <1>2, <2>1, <2>3 DEF ClientAgrees, HeldAgrees
    <3>2. held' = HeldAs(f.router, "Forwarded")
      BY ZenonT(30), <1>6 DEF FinishWrites, FinishLedger, Synchronize, RouteLocked
    <3>3. ASSUME NEW y \in Keys, y # k
          PROVE  y \in client'[focused] <=> y \in HeldAs(f.router, "Forwarded")
      <4>1. y \in HeldBefore("Forwarded") => TargetHeld(router, y)
        BY ZenonT(30), <3>3 DEF HeldBefore, OwnerBefore, TargetHeld, k
      <4>2. y \in client'[focused] <=> y \in client[focused]
        BY ZenonT(30), <1>27, <3>1, <3>3, <4>1
      <4> QED
        BY ZenonT(30), <1>25, <3>1, <3>3, <4>2
    <3>4. k \in client'[focused] <=> k \in HeldAs(f.router, "Forwarded")
      <4>1. k \in client[focused] <=> was = "Forwarded" \/ other
        BY ZenonT(30), <1>25, <1>26, <3>1
      <4>2. k \in HeldAs(f.router, "Forwarded") <=> left = "Forwarded" \/ other
        BY ZenonT(30), <1>25, <1>26
      <4>3. /\ ~(result.client /\ admitted) => (k \in client'[focused] <=> was = "Forwarded" \/ other)
            /\ result.client /\ admitted => (k \in client'[focused] <=> kind # "Up")
        BY ZenonT(30), <1>27, <4>1
      <4>4. CASE kind = "Down"
        BY ZenonT(30), <1>8, <1>21, <1>23, <1>24, <2>1, <2>3, <4>2, <4>3, <4>4
      <4>5. CASE kind = "Up"
        BY ZenonT(30), <1>4, <1>8, <1>21, <1>22, <1>23, <1>24, <2>1, <2>3, <4>2, <4>3, <4>5 DEF OwnerOf, Outcomes
      <4>6. CASE kind = "Repeat"
        BY ZenonT(30), <1>4, <1>8, <1>21, <1>22, <1>23, <1>24, <2>1, <2>3, <4>2, <4>3, <4>6 DEF OwnerOf, Outcomes
      <4> QED
        BY ZenonT(30), <1>4, <4>4, <4>5, <4>6 DEF Kinds
    <3>5. client'[focused] = held'
      BY SMTT(30), <1>25, <2>2, <3>2, <3>3, <3>4
    <3> QED
      BY ZenonT(30), <1>7, <2>3, <3>5
  <2>4. CASE router.locked
    <3>1. client[focused] \subseteq HeldBefore("LockerOwned")
      BY ZenonT(30), <1>2, <2>1, <2>4 DEF ClientAgrees
    <3>2. ASSUME NEW y \in Keys, y # k, y \in client'[focused]
          PROVE  y \in HeldAs(f.router, "LockerOwned")
      <4>1. y \in client[focused]
        BY ZenonT(30), <1>27, <3>2
      <4> QED
        BY ZenonT(30), <1>25, <3>1, <3>2, <4>1
    <3>3. k \in client'[focused] => k \in HeldAs(f.router, "LockerOwned")
      <4>1. k \in client[focused] => was = "LockerOwned" \/ OthersOwn("LockerOwned")
        BY ZenonT(30), <1>25, <3>1
      <4>2. k \in HeldAs(f.router, "LockerOwned") <=> left = "LockerOwned" \/ OthersOwn("LockerOwned")
        BY ZenonT(30), <1>25
      <4>3. /\ ~(result.client /\ admitted) /\ k \in client'[focused] => was = "LockerOwned" \/ OthersOwn("LockerOwned")
            /\ result.client /\ admitted /\ k \in client'[focused] => kind # "Up"
        BY ZenonT(30), <1>27, <4>1
      <4>4. CASE kind = "Down"
        BY ZenonT(30), <1>8, <1>21, <1>23, <1>24, <2>1, <2>4, <4>2, <4>3, <4>4
      <4>5. CASE kind = "Up"
        BY ZenonT(30), <1>4, <1>8, <1>21, <1>22, <1>23, <1>24, <2>1, <2>4, <4>2, <4>3, <4>5 DEF OwnerOf, Outcomes
      <4>6. CASE kind = "Repeat"
        BY ZenonT(30), <1>4, <1>8, <1>21, <1>22, <1>23, <1>24, <2>1, <2>4, <4>2, <4>3, <4>6 DEF OwnerOf, Outcomes
      <4> QED
        BY ZenonT(30), <1>4, <4>4, <4>5, <4>6 DEF Kinds
    <3>4. client'[focused] \subseteq HeldAs(f.router, "LockerOwned")
      BY ZenonT(30), <2>2, <3>2, <3>3
    <3> QED
      BY ZenonT(30), <1>7, <1>19, <2>4, <3>4
  <2> QED
    BY ZenonT(30), <1>7, <1>10, <2>3, <2>4
<1>29. LedgerHeld'
  <2> DEFINE C == IF phase = "Open" /\ router.locked THEN {"Forwarded", "Quarantined", "LockerOwned"}
                  ELSE {"Forwarded", "Quarantined"}
  <2> SUFFICES ASSUME ~astray'
      PROVE  \A y \in ledger' : \E o \in C : y \in HeldAs(f.router, o)
    BY ZenonT(30), <1>1, <1>7, <1>19 DEF LedgerHeld
  <2>1. /\ ~astray /\ (kind = "Down" /\ StockRuns /\ ~admitted => left # "Forwarded")
    BY ZenonT(30), <1>12
  <2>2. \A y \in ledger : \E o \in C : y \in HeldBefore(o)
    BY ZenonT(30), <1>2, <2>1 DEF LedgerHeld
  <2>3. /\ ~admitted \/ (phase # "Open" /\ ~Cleanup) => ledger' = ledger
        /\ admitted /\ (phase = "Open" \/ Cleanup) /\ kind = "Up" => ledger' = ledger \ {k}
        /\ admitted /\ (phase = "Open" \/ Cleanup) /\ kind # "Up" => ledger' = ledger \cup {k}
    BY ZenonT(30), <1>6 DEF FinishWrites, SeatLedger, RouteLocked, k, kind
  <2>4. ~router.locked => phase = "Open"
    BY ZenonT(30), <1>2 DEF GateAgrees
  <2>5. ASSUME NEW y \in ledger', y # k
        PROVE  \E o \in C : y \in HeldAs(f.router, o)
    <3>1. y \in ledger /\ y \in Keys
      BY ZenonT(30), <1>3, <2>3, <2>5
    <3> HIDE DEF C
    <3> QED
      BY ZenonT(30), <1>25, <2>2, <2>5, <3>1
  <2>6. ASSUME k \in ledger'
        PROVE  \E o \in C : left = o \/ OthersOwn(o)
    <3>1. k \in ledger => \E o \in C : was = o \/ OthersOwn(o)
      <4> HIDE DEF C
      <4> QED BY ZenonT(30), <1>25, <2>2
    <3>2. CASE kind = "Down"
      BY ZenonT(30), <1>8, <1>21, <1>23, <1>24, <2>1, <2>3, <2>6, <3>1, <3>2
    <3>3. CASE kind = "Up"
      BY ZenonT(30), <1>4, <1>8, <1>21, <1>22, <1>23, <1>24, <2>1, <2>3, <2>4, <2>6, <3>1, <3>3 DEF OwnerOf, Outcomes
    <3>4. CASE kind = "Repeat"
      BY ZenonT(30), <1>4, <1>8, <1>21, <1>22, <1>23, <1>24, <2>1, <2>3, <2>6, <3>1, <3>4 DEF OwnerOf, Outcomes
    <3> QED
      BY ZenonT(30), <1>4, <3>2, <3>3, <3>4 DEF Kinds
  <2>7. k \in ledger' => \E o \in C : k \in HeldAs(f.router, o)
    <3> HIDE DEF C
    <3> QED BY ZenonT(30), <1>25, <2>6
  <2> QED
    BY ZenonT(30), <2>5, <2>7
<1> QED
  BY ZenonT(30), <1>14, <1>15, <1>16, <1>17, <1>18, <1>20, <1>28, <1>29 DEF RoutingInv

-----------------------------------------------------------------------------
(* Focus, lock and devices keep the invariant.                             *)

\* A focus change in the midst of a callback leaves what was decided alone.
LEMMA CallbackMoves ==
    ASSUME RoutingInv, cur' = IF cur = None THEN None ELSE [cur EXCEPT !.moved = TRUE]
    PROVE  /\ cur # None => /\ cur' # None /\ cur' \in Callback
                            /\ cur'.event = cur.event /\ cur'.ticket = cur.ticket
                            /\ cur'.result = cur.result
           /\ cur = None => cur' = None
<1>1. CASE cur = None
  BY ZenonT(30), <1>1
<1>2. CASE cur # None
  <2>1. cur \in Callback
    BY ZenonT(30), <1>2 DEF RoutingInv, CallbackOK
  <2>2. cur' = [cur EXCEPT !.moved = TRUE]
    BY ZenonT(30), <1>2
  <2>3. cur' \in Callback
    BY ZenonT(30), <2>1, <2>2 DEF Callback
  <2>4. cur' # None
    BY ZenonT(30), <2>3, CallbackAssumption
  <2>5. cur'.event = cur.event /\ cur'.ticket = cur.ticket /\ cur'.result = cur.result
    BY ZenonT(30), <2>1, <2>2 DEF Callback
  <2> QED
    BY ZenonT(30), <1>2, <2>3, <2>4, <2>5
<1> QED
  BY ZenonT(30), <1>1, <1>2

\* Focus changes: the new client is shown the projection.
LEMMA FocusStep ==
    ASSUME RoutingInv, NEW c \in Clients \cup {None}, Focus(c)
    PROVE  RoutingInv'
<1> DEFINE u == SyncUnlock
<1>1. /\ TypeOK /\ OwnedIsDown /\ GateAgrees /\ HeldAgrees /\ ClientAgrees /\ LedgerHeld /\ NothingPending
      /\ DecisionAgrees /\ CallbackOK
  BY ZenonT(30) DEF RoutingInv
<1>2. /\ router' = FocusChanged(u.router) /\ phase' = u.phase /\ held' = u.held
      /\ client' = [x \in Clients |-> IF x = c THEN u.held
                                      ELSE IF x = focused THEN {} ELSE client[x]]
      /\ focused' = c
      /\ fresh' \in {fresh, (c # None /\ router.fatal) \/ fresh}
      /\ cur' = IF cur = None THEN None ELSE [cur EXCEPT !.moved = TRUE]
      /\ UNCHANGED <<bootstrap, seat, ledger, locking, protocol, down, astray>>
  BY ZenonT(30) DEF Focus
<1>3. /\ router \in Routers /\ router.devices \subseteq Keyboards
      /\ client \in [Clients -> SUBSET Keys] /\ phase \in Phases /\ router.focus \in Nat
      /\ held \subseteq Keys /\ fresh \in BOOLEAN
  BY ZenonT(30), <1>1, RouterFields DEF TypeOK
<1>4. Synced(u) /\ u.phase = Observe(phase, protocol)
  <2>1. phase = "Open" => ~protocol
    BY ZenonT(30), <1>1 DEF GateAgrees
  <2> QED
    BY ZenonT(30), <1>3, <2>1, SyncUnlockSyncs DEF SyncUnlock
<1>5. /\ cur # None => /\ cur' # None /\ cur' \in Callback
                       /\ cur'.event = cur.event /\ cur'.ticket = cur.ticket /\ cur'.result = cur.result
      /\ cur = None => cur' = None
  BY ZenonT(30), <1>2, CallbackMoves
<1> HIDE DEF u
<1>6. /\ router' \in Routers /\ router'.devices = router.devices /\ router'.owner = router.owner
      /\ router'.locked <=> u.router.locked
      /\ router'.pending = None /\ router'.released = router.released
      /\ router'.focus > router.focus
  <2>1. /\ u.router \in Routers /\ u.router.devices = router.devices /\ u.router.owner = router.owner
        /\ u.router.released = router.released /\ u.router.focus >= router.focus
    BY ZenonT(30), <1>4 DEF Synced, SameLedger
  <2>2. /\ router' \in Routers /\ router'.devices = u.router.devices /\ router'.owner = u.router.owner
        /\ router'.locked = u.router.locked
        /\ router'.pending = None /\ router'.released = u.router.released
        /\ router'.focus = u.router.focus + 1
    BY ZenonT(30), <1>2, <2>1, FocusChangedFields
  <2>3. u.router.focus \in Nat
    BY ZenonT(30), <2>1, RouterFields
  <2>4. router'.focus > router.focus
    BY SMTT(30), <1>3, <2>1, <2>2, <2>3
  <2> QED
    BY ZenonT(30), <2>1, <2>2, <2>4
\* The gate is as it was, or opens outside a callback.
<1>7. /\ phase' = Observe(phase, protocol)
      /\ \/ phase' = phase /\ held' = held /\ (router'.locked <=> router.locked)
         \/ /\ phase = "Locked" /\ ~protocol /\ phase' = "Open"
            /\ ~router'.locked /\ held' = HeldAs(router, "Forwarded") /\ cur = None
  <2>1. phase = "Locked" /\ ~protocol => cur = None
    BY ZenonT(30), <1>1 DEF CallbackOK, Observe
  <2>2. \/ u.phase = phase /\ u.held = held /\ u.router = router
        \/ /\ phase = "Locked" /\ ~protocol /\ u.phase = "Open"
           /\ ~u.router.locked /\ u.held = HeldAs(router, "Forwarded")
    BY ZenonT(30), <1>4 DEF Synced
  <2> QED
    BY ZenonT(30), <1>2, <1>4, <1>6, <2>1, <2>2
<1>8. /\ \A x, y : OwnerBefore(x, y)' = OwnerBefore(x, y)
      /\ \A o : HeldBefore(o)' = HeldBefore(o)
  <2>1. \A x, y : OwnerBefore(x, y)' = OwnerBefore(x, y)
    BY ZenonT(30), <1>5, <1>6 DEF OwnerBefore
  <2>2. \A o : HeldBefore(o)' = {y \in Keys : \E x \in router'.devices : OwnerBefore(x, y)' = o}
    BY ZenonT(30) DEF HeldBefore
  <2>3. \A o : HeldBefore(o) = {y \in Keys : \E x \in router.devices : OwnerBefore(x, y) = o}
    BY ZenonT(30) DEF HeldBefore
  <2> QED
    BY ZenonT(30), <1>6, <2>1, <2>2, <2>3
<1>9. TypeOK'
  <2>1. held' \subseteq Keys /\ phase' \in Phases
    BY ZenonT(30), <1>3, <1>7 DEF HeldAs, Phases
  <2>2. client' \in [Clients -> SUBSET Keys]
    BY ZenonT(30), <1>2, <1>3, <2>1
  <2>3. fresh' \in BOOLEAN
    BY ZenonT(30), <1>2, <1>3
  <2> QED
    BY ZenonT(30), <1>1, <1>2, <1>6, <2>1, <2>2, <2>3 DEF TypeOK, Free
<1>10. OwnedIsDown'
  BY ZenonT(30), <1>1, <1>2, <1>6 DEF OwnedIsDown
<1>11. NothingPending'
  BY ZenonT(30), <1>1, <1>5, <1>6 DEF NothingPending
<1>12. GateAgrees'
  <2>1. phase' = "Locked" => protocol
    BY ZenonT(30), <1>3, <1>7 DEF Observe, Phases
  <2>2. locking => phase' = "Entering"
    BY ZenonT(30), <1>1, <1>7 DEF GateAgrees
  <2>3. router'.locked => \A d \in Keyboards, k \in Keys : router'.owner[d][k] # "Forwarded"
    BY ZenonT(30), <1>1, <1>6, <1>7 DEF GateAgrees
  <2>4. /\ ~router'.locked => phase' = "Open"
        /\ phase' = "Open" => ~protocol /\ (bootstrap \/ ~router'.locked)
    BY ZenonT(30), <1>1, <1>7 DEF GateAgrees
  <2> QED
    BY ZenonT(30), <1>2, <2>1, <2>2, <2>3, <2>4 DEF GateAgrees
<1>13. CallbackOK'
  <2> SUFFICES ASSUME cur # None
      PROVE  /\ cur' \in Callback /\ ~locking' /\ cur'.event.dev \in router'.devices
             /\ phase' = Observe(phase', protocol')
             /\ cur'.ticket # None => cur'.ticket.focus < router'.focus
    <3>1. ASSUME cur'.ticket.focus < router'.focus, cur' \in Callback, cur'.ticket # None
          PROVE  cur'.ticket.focus <= router'.focus
      <4>1. cur'.ticket.focus \in Nat /\ router'.focus \in Nat
        BY ZenonT(30), <1>6, <3>1, RouterFields DEF Callback, Ticket
      <4> QED
        BY SMTT(30), <3>1, <4>1
    <3> QED
      BY ZenonT(30), <1>5, <3>1 DEF CallbackOK, Observe
  <2>1. cur.ticket # None => cur.ticket.focus < router'.focus
    <3>1. cur.ticket # None => cur.ticket.focus \in Nat /\ router'.focus \in Nat /\ cur.ticket.focus <= router.focus
      BY ZenonT(30), <1>1, <1>6, RouterFields DEF CallbackOK, Callback, Ticket
    <3> QED
      BY SMTT(30), <1>3, <1>6, <3>1
  <2> QED
    BY ZenonT(30), <1>1, <1>2, <1>5, <1>6, <1>7, <2>1 DEF CallbackOK, Observe
<1>14. DecisionAgrees'
  <2> SUFFICES ASSUME cur # None
      PROVE  DecisionAgrees'
    BY ZenonT(30), <1>5 DEF DecisionAgrees
  <2>1. (router'.locked <=> router.locked) /\ cur'.event = cur.event /\ cur'.result = cur.result
    BY ZenonT(30), <1>5, <1>7
  <2>2. OtherForwarded(router', cur.event.dev, cur.event.key) <=> OtherForwarded(router, cur.event.dev, cur.event.key)
    BY ZenonT(30), <1>6 DEF OtherForwarded
  <2>3. OwnerBefore(cur.event.dev, cur.event.key)' = OwnerBefore(cur.event.dev, cur.event.key)
    BY ZenonT(30), <1>5, <1>6 DEF OwnerBefore
  <2> QED
    BY ZenonT(30), <1>1, <1>5, <1>6, <2>1, <2>2, <2>3 DEF DecisionAgrees
<1>15. HeldAgrees'
  BY ZenonT(30), <1>1, <1>2, <1>7, <1>8, IdleBefore DEF HeldAgrees
<1>16. ClientAgrees'
  <2> SUFFICES ASSUME phase' = "Open", ~astray, c # None
      PROVE  client'[c] = held' /\ (router'.locked => held' = {})
    BY ZenonT(30), <1>2 DEF ClientAgrees
  <2>1. client'[c] = held'
    BY ZenonT(30), <1>2
  <2>2. ASSUME router'.locked
        PROVE  held' = {}
    <3>1. held' = HeldBefore("Forwarded") /\ router.locked
      BY ZenonT(30), <1>1, <1>7, <2>2 DEF HeldAgrees
    <3>2. \A x \in Keyboards, y \in Keys : router.owner[x][y] # "Forwarded"
      BY ZenonT(30), <1>1, <3>1 DEF GateAgrees
    <3>3. cur # None /\ cur.event.kind # "Down" => OwnerOf(cur.result.outcome) # "Forwarded"
      BY ZenonT(30), <1>1, <3>1 DEF DecisionAgrees
    <3>4. ASSUME NEW x \in Keyboards, NEW y \in Keys
          PROVE  OwnerBefore(x, y) # "Forwarded"
      BY ZenonT(30), <3>2, <3>3 DEF OwnerBefore
    <3> QED
      BY ZenonT(30), <1>3, <3>1, <3>4 DEF HeldBefore
  <2> QED
    BY ZenonT(30), <2>1, <2>2
<1>17. LedgerHeld'
  BY ZenonT(30), <1>1, <1>2, <1>7, <1>8 DEF LedgerHeld
<1> QED
  BY ZenonT(30), <1>9, <1>10, <1>11, <1>12, <1>13, <1>14, <1>15, <1>16, <1>17 DEF RoutingInv

\* Losing the fresh enter promises less.
LEMMA KeyboardResourceDestroyedStep ==
    ASSUME RoutingInv, KeyboardResourceDestroyed
    PROVE  RoutingInv'
<1>1. /\ fresh' = FALSE
      /\ UNCHANGED <<router, held, phase, bootstrap, seat, ledger, cur, locking, protocol, focused, client, down, astray>>
  BY ZenonT(30) DEF KeyboardResourceDestroyed, stock
<1>2. TypeOK'
  BY ZenonT(30), <1>1 DEF RoutingInv, TypeOK, Free
<1>a. OwnedIsDown' /\ NothingPending' /\ GateAgrees'
  BY ZenonT(30), <1>1 DEF RoutingInv, OwnedIsDown, NothingPending, GateAgrees
<1>b. CallbackOK'
  BY ZenonT(30), <1>1 DEF RoutingInv, CallbackOK, Observe
<1>3. DecisionAgrees'
  BY ZenonT(30), <1>1 DEF RoutingInv, DecisionAgrees, OwnerBefore
<1>4. \A o : HeldBefore(o)' = HeldBefore(o)
  BY ZenonT(30), <1>1 DEF HeldBefore, OwnerBefore
<1>5. HeldAgrees' /\ ClientAgrees' /\ LedgerHeld'
  BY ZenonT(30), <1>1, <1>4 DEF RoutingInv, HeldAgrees, ClientAgrees, LedgerHeld
<1> QED
  BY ZenonT(30), <1>2, <1>a, <1>b, <1>3, <1>5 DEF RoutingInv

\* With the ledger and the callback alone, what counts of them stays.
LEMMA IdleSteps ==
    ASSUME RoutingInv, cur = None, cur' = None, router' = router
    PROVE  /\ \A o : HeldBefore(o)' = HeldBefore(o)
           /\ OwnedIsDown' <=> \A d \in Keyboards, k \in Keys : router.owner[d][k] # "None" <=> k \in down'[d]
           /\ NothingPending' /\ CallbackOK' /\ DecisionAgrees'
<1>1. \A o : HeldBefore(o)' = HeldBefore(o)
  BY ZenonT(30) DEF HeldBefore, OwnerBefore
<1> QED
  BY ZenonT(30), <1>1 DEF RoutingInv, OwnedIsDown, NothingPending, CallbackOK, DecisionAgrees

\* The grant comes from inside the lock request.
LEMMA LockGrantedStep ==
    ASSUME RoutingInv, LockGranted
    PROVE  RoutingInv'
<1>1. /\ locking /\ protocol'
      /\ UNCHANGED <<router, held, phase, bootstrap, seat, ledger, fresh, cur, locking, focused, client, down, astray>>
  BY ZenonT(30) DEF LockGranted, adapter
<1>2. cur = None /\ phase = "Entering"
  BY ZenonT(30), <1>1 DEF RoutingInv, CallbackOK, GateAgrees
<1>3. TypeOK' /\ GateAgrees'
  BY ZenonT(30), <1>1, <1>2 DEF RoutingInv, TypeOK, GateAgrees, Free, LockGranted
<1>4. HeldAgrees' /\ ClientAgrees' /\ LedgerHeld'
  BY ZenonT(30), <1>1, <1>2, IdleSteps DEF RoutingInv, HeldAgrees, ClientAgrees, LedgerHeld
<1>5. OwnedIsDown' /\ NothingPending' /\ CallbackOK' /\ DecisionAgrees'
  BY ZenonT(30), <1>1, <1>2, IdleSteps DEF RoutingInv, OwnedIsDown
<1> QED
  BY ZenonT(30), <1>3, <1>4, <1>5 DEF RoutingInv

\* A lock request that returns stays closed.
LEMMA LockReturnStep ==
    ASSUME RoutingInv, LockReturn
    PROVE  RoutingInv'
<1>1. /\ locking /\ ~locking' /\ locking' \in BOOLEAN
      /\ phase' = IF phase = "Entering" /\ protocol THEN "Locked" ELSE phase
      /\ UNCHANGED <<router, held, bootstrap, seat, ledger, fresh, cur, protocol, focused, client, down, astray>>
  BY ZenonT(30) DEF LockReturn, stock
<1>2. cur = None /\ phase = "Entering"
  BY ZenonT(30), <1>1 DEF RoutingInv, CallbackOK, GateAgrees
<1>3. TypeOK' /\ GateAgrees'
  BY ZenonT(30), <1>1, <1>2 DEF RoutingInv, TypeOK, GateAgrees, Phases, Free
<1>4. HeldAgrees' /\ ClientAgrees' /\ LedgerHeld'
  BY ZenonT(30), <1>1, <1>2, IdleSteps DEF RoutingInv, HeldAgrees, ClientAgrees, LedgerHeld
<1>5. OwnedIsDown' /\ NothingPending' /\ CallbackOK' /\ DecisionAgrees'
  BY ZenonT(30), <1>1, <1>2, IdleSteps DEF RoutingInv, OwnedIsDown
<1> QED
  BY ZenonT(30), <1>3, <1>4, <1>5 DEF RoutingInv

\* An unlock nobody has seen yet takes the focus away.
LEMMA UnlockStep ==
    ASSUME RoutingInv, Unlock
    PROVE  RoutingInv'
<1>1. /\ cur = None /\ ~locking /\ protocol /\ ~protocol' /\ protocol' \in BOOLEAN /\ focused' = None
      /\ client' = [c \in Clients |-> IF c = focused THEN {} ELSE client[c]]
      /\ UNCHANGED <<router, held, phase, bootstrap, seat, ledger, fresh, cur, locking, down, astray>>
  BY ZenonT(30) DEF Unlock, adapter
<1>2. phase # "Open"
  BY ZenonT(30), <1>1 DEF RoutingInv, GateAgrees
<1>3. client' \in [Clients -> SUBSET Keys]
  BY ZenonT(30), <1>1 DEF RoutingInv, TypeOK
<1>4. TypeOK' /\ GateAgrees'
  BY ZenonT(30), <1>1, <1>2, <1>3 DEF RoutingInv, TypeOK, GateAgrees, Free
<1>5. HeldAgrees' /\ ClientAgrees' /\ LedgerHeld'
  BY SMTT(30), <1>1, <1>2, IdleSteps DEF RoutingInv, HeldAgrees, ClientAgrees, LedgerHeld
<1>6. OwnedIsDown' /\ NothingPending' /\ CallbackOK' /\ DecisionAgrees'
  BY ZenonT(30), <1>1, IdleSteps DEF RoutingInv, OwnedIsDown
<1> QED
  BY ZenonT(30), <1>4, <1>5, <1>6 DEF RoutingInv

\* Whatever is owned when the session locks is quarantined, and accounts for the
\* keys stock still has down.
LEMMA LockEnterStep ==
    ASSUME RoutingInv, LockEnter
    PROVE  RoutingInv'
<1>1. /\ cur = None /\ cur' = None /\ phase' = "Entering" /\ router' = Lock(router)
      /\ held' = Synchronize(router', FALSE)
      /\ client' = Told(seat, HeldAs(router, "Forwarded"))
      /\ fresh' = (fresh /\ HeldAs(router, "Forwarded") = {}) /\ locking' = TRUE
      /\ UNCHANGED <<bootstrap, seat, ledger, protocol, focused, down, astray>>
  BY ZenonT(30) DEF LockEnter
<1>2. /\ TypeOK /\ OwnedIsDown /\ LedgerHeld /\ NothingPending /\ router.released = None
      /\ router \in Routers /\ router.devices \subseteq Keyboards
      /\ client \in [Clients -> SUBSET Keys] /\ seat \in Clients \cup {None}
  BY ZenonT(30), <1>1, RouterFields DEF RoutingInv, TypeOK, NothingPending
<1>3. /\ router' \in Routers /\ router'.devices = router.devices /\ router'.locked
      /\ router'.pending = None /\ router'.released = router.released
      /\ \A d \in Keyboards, k \in Keys :
           router'.owner[d][k] = IF router.owner[d][k] = "None" THEN "None" ELSE "Quarantined"
  BY ZenonT(30), <1>1, <1>2, LockFields
<1>4. TypeOK'
  <2>1. \A x \in Keyboards \ router'.devices : router'.owner[x] = Free
    <3>1. router'.owner \in OwnerTable
      BY ZenonT(30), <1>3, RouterFields
    <3>2. \A x \in Keyboards \ router.devices, y \in Keys : router.owner[x][y] = "None"
      BY ZenonT(30), <1>2 DEF TypeOK, Free
    <3> QED
      BY SMTT(30), <1>3, <3>1, <3>2 DEF OwnerTable, Free
  <2>2. client' \in [Clients -> SUBSET Keys]
    BY ZenonT(30), <1>1, <1>2, ToldFields
  <2>3. held' \subseteq Keys /\ fresh' \in BOOLEAN /\ phase' \in Phases /\ locking' \in BOOLEAN
    BY ZenonT(30), <1>1 DEF Synchronize, HeldAs, Phases
  <2> QED
    BY ZenonT(30), <1>1, <1>2, <1>3, <2>1, <2>2, <2>3 DEF TypeOK, Free
<1>5. OwnedIsDown'
  BY ZenonT(30), <1>1, <1>2, <1>3 DEF OwnedIsDown
<1>6. NothingPending' /\ CallbackOK' /\ DecisionAgrees'
  BY ZenonT(30), <1>1, <1>2, <1>3 DEF NothingPending, CallbackOK, DecisionAgrees
<1>7. GateAgrees'
  BY ZenonT(30), <1>1, <1>3 DEF GateAgrees
<1>8. HeldAgrees' /\ ClientAgrees'
  BY ZenonT(30), <1>1 DEF HeldAgrees, ClientAgrees
<1>9. LedgerHeld'
  <2>1. ASSUME NEW o, o # "None", NEW k \in HeldAs(router, o)
        PROVE  k \in HeldAs(router', "Quarantined")
    BY ZenonT(30), <1>2, <1>3, <2>1 DEF HeldAs
  <2>2. ~astray => ledger \subseteq HeldAs(router', "Quarantined")
    <3>1. ~astray => ledger \subseteq HeldAs(router, "Forwarded") \cup HeldAs(router, "Quarantined")
                                      \cup HeldAs(router, "LockerOwned")
      BY ZenonT(30), <1>1, <1>2, IdleBefore DEF LedgerHeld
    <3> QED
      BY ZenonT(30), <2>1, <3>1
  <2>3. HeldBefore("Quarantined")' = HeldAs(router', "Quarantined")
    BY ZenonT(30), <1>1 DEF HeldBefore, OwnerBefore, HeldAs
  <2> QED
    BY ZenonT(30), <1>1, <2>2, <2>3 DEF LedgerHeld
<1> QED
  BY ZenonT(30), <1>4, <1>5, <1>6, <1>7, <1>8, <1>9 DEF RoutingInv

\* A keyboard that is added owns nothing yet.
LEMMA AddFields ==
    ASSUME NEW r \in Routers, NEW d \in Keyboards, NEW n, n = FocusChanged(Add(r, d))
    PROVE  /\ n \in Routers /\ n.devices = r.devices \cup {d} /\ n.owner = r.owner
           /\ (n.locked <=> r.locked) /\ (n.fatal <=> r.fatal)
           /\ n.pending = None /\ n.released = r.released
<1> DEFINE a == Add(r, d)
           D == r.devices \cup {d}
<1>1. D \in SUBSET Keyboards
  BY ZenonT(30), RouterFields
<1>2. a = [r EXCEPT !.devices = D]
  BY ZenonT(30) DEF Add
<1> HIDE DEF D, a
<1>3. a \in Routers
  BY ZenonT(30), <1>1, <1>2 DEF Routers
<1>4. /\ a.devices = D /\ a.owner = r.owner /\ a.locked = r.locked /\ a.fatal = r.fatal
      /\ a.released = r.released
  BY ZenonT(30), <1>2 DEF Routers
<1>5. n = FocusChanged(a)
  BY ZenonT(30) DEF a
<1>6. /\ n \in Routers /\ n.devices = a.devices /\ n.owner = a.owner
      /\ n.locked = a.locked /\ n.fatal = a.fatal
      /\ n.pending = None /\ n.released = a.released
  BY ZenonT(30), <1>3, <1>5, FocusChangedFields
<1> QED
  BY ZenonT(30), <1>4, <1>6 DEF D

\* A new keyboard changes nothing that counts.
LEMMA AttachKeyboardStep ==
    ASSUME RoutingInv, NEW d \in Keyboards, AttachKeyboard(d)
    PROVE  RoutingInv'
<1>1. /\ cur = None /\ cur' = None /\ d \notin router.devices /\ router' = FocusChanged(Add(router, d))
      /\ UNCHANGED <<held, phase, bootstrap, seat, ledger, fresh, locking, protocol, focused, client, down, astray>>
  BY ZenonT(30) DEF AttachKeyboard, MayAdd, stock
<1>2. /\ TypeOK /\ OwnedIsDown /\ GateAgrees /\ HeldAgrees /\ ClientAgrees /\ LedgerHeld
      /\ router.released = None /\ router \in Routers /\ router.owner[d] = Free
  BY ZenonT(30), <1>1 DEF RoutingInv, TypeOK, NothingPending
<1>3. /\ router' \in Routers /\ router'.devices = router.devices \cup {d} /\ router'.owner = router.owner
      /\ (router'.locked <=> router.locked) /\ (router'.fatal <=> router.fatal)
      /\ router'.pending = None /\ router'.released = router.released
  BY ZenonT(30), <1>1, <1>2, AddFields
<1>4. \A o : o # "None" => HeldBefore(o)' = HeldBefore(o)
  <2>1. \A k \in Keys : router.owner[d][k] = "None"
    BY ZenonT(30), <1>2 DEF Free
  <2>2. \A o : HeldBefore(o)' = HeldAs(router', o)
    BY ZenonT(30), <1>1 DEF HeldBefore, OwnerBefore, HeldAs
  <2>3. \A o : o # "None" => HeldAs(router', o) = HeldAs(router, o)
    BY ZenonT(30), <1>3, <2>1 DEF HeldAs
  <2> QED
    BY ZenonT(30), <1>1, <2>2, <2>3, IdleBefore
<1>5. TypeOK'
  BY ZenonT(30), <1>1, <1>2, <1>3 DEF TypeOK, Free
<1>6. OwnedIsDown' /\ GateAgrees'
  BY ZenonT(30), <1>1, <1>2, <1>3 DEF OwnedIsDown, GateAgrees
<1>7. NothingPending' /\ CallbackOK' /\ DecisionAgrees'
  BY ZenonT(30), <1>1, <1>2, <1>3 DEF NothingPending, CallbackOK, DecisionAgrees
<1>8. HeldBefore("Forwarded")' = HeldBefore("Forwarded") /\ HeldBefore("Quarantined")' = HeldBefore("Quarantined")
      /\ HeldBefore("LockerOwned")' = HeldBefore("LockerOwned")
  BY ZenonT(30), <1>4
<1>9. HeldAgrees' /\ ClientAgrees' /\ LedgerHeld'
  BY ZenonT(30), <1>1, <1>2, <1>3, <1>8 DEF HeldAgrees, ClientAgrees, LedgerHeld
<1> QED
  BY ZenonT(30), <1>5, <1>6, <1>7, <1>9 DEF RoutingInv

\* A keyboard that goes takes nothing along that anybody still counts on, or the
\* record says so.
LEMMA DestroyKeyboardStep ==
    ASSUME RoutingInv, NEW d \in Keyboards, DestroyKeyboard(d)
    PROVE  RoutingInv'
<1> DEFINE lost == OnlyForwardedBy(router, d)
<1>1. /\ cur = None /\ cur' = None /\ d \in router.devices /\ router' = Retire(FocusChanged(router), d)
      /\ client' = Told(seat, lost) /\ fresh' = (fresh /\ lost = {})
      /\ astray' = (astray \/ lost # {} \/
            \E k \in Keys : router.owner[d][k] \in {"LockerOwned", "Quarantined"})
      /\ down' = [down EXCEPT ![d] = {}]
      /\ UNCHANGED <<held, phase, bootstrap, seat, ledger, locking, protocol, focused>>
  BY ZenonT(30) DEF DestroyKeyboard
<1>2. /\ TypeOK /\ OwnedIsDown /\ GateAgrees /\ HeldAgrees /\ ClientAgrees /\ LedgerHeld
      /\ router.released = None /\ router \in Routers /\ router.devices \subseteq Keyboards
      /\ client \in [Clients -> SUBSET Keys] /\ seat \in Clients \cup {None}
      /\ down \in [Keyboards -> SUBSET Keys] /\ focused \in Clients \cup {None}
  BY ZenonT(30), <1>1, RouterFields DEF RoutingInv, TypeOK, NothingPending
<1>3. /\ router' \in Routers /\ router'.devices = router.devices \ {d}
      /\ (router'.locked <=> router.locked) /\ (router'.fatal <=> router.fatal \/ lost # {})
      /\ router'.pending = None /\ router'.released = None
      /\ \A x \in Keyboards, k \in Keys : router'.owner[x][k] = IF x = d THEN "None" ELSE router.owner[x][k]
      /\ router'.owner[d] = Free
      /\ \A x \in Keyboards \ {d} : router'.owner[x] = router.owner[x]
  <2> DEFINE r == FocusChanged(router)
  <2>1. /\ r \in Routers /\ r.devices = router.devices /\ r.owner = router.owner
        /\ r.locked = router.locked /\ r.fatal = router.fatal /\ r.released = router.released
    BY ZenonT(30), <1>2, FocusChangedFields
  <2> HIDE DEF r
  <2>2. Retired(r, d, router')
    <3>1. router' = Retire(r, d)
      BY ZenonT(30), <1>1 DEF r
    <3> QED
      BY ZenonT(30), <2>1, <3>1, RetireFields
  <2>3. OnlyForwardedBy(r, d) = lost
    BY ZenonT(30), <2>1 DEF OnlyForwardedBy, OtherForwarded
  <2> HIDE DEF lost
  <2> QED
    BY ZenonT(30), <1>2, <2>1, <2>2, <2>3 DEF Retired
<1>4. ASSUME ~astray'
      PROVE  /\ ~astray /\ lost = {} /\ client' = client
             /\ HeldBefore("Forwarded")' = HeldBefore("Forwarded")
             /\ HeldBefore("Quarantined")' = HeldBefore("Quarantined")
             /\ HeldBefore("LockerOwned")' = HeldBefore("LockerOwned")
  <2>1. ~astray /\ lost = {} /\ \A k \in Keys : router.owner[d][k] \notin {"LockerOwned", "Quarantined"}
    BY ZenonT(30), <1>1, <1>4
  <2>2. client' = client
    <3> HIDE DEF lost
    <3> QED BY ZenonT(30), <1>1, <1>2, <2>1 DEF Told
  <2>3. \A k \in Keys : router.owner[d][k] = "Forwarded" =>
           \E x \in router.devices \ {d} : router.owner[x][k] = "Forwarded"
    BY ZenonT(30), <2>1 DEF OnlyForwardedBy, OtherForwarded
  <2>4. \A o : HeldBefore(o)' = HeldAs(router', o)
    BY ZenonT(30), <1>1 DEF HeldBefore, OwnerBefore, HeldAs
  <2>5. HeldAs(router', "Forwarded") = HeldAs(router, "Forwarded")
    BY SMTT(30), <1>2, <1>3, <2>3 DEF HeldAs
  <2>6. HeldAs(router', "Quarantined") = HeldAs(router, "Quarantined")
        /\ HeldAs(router', "LockerOwned") = HeldAs(router, "LockerOwned")
    BY SMTT(30), <1>2, <1>3, <2>1 DEF HeldAs
  <2> QED
    BY ZenonT(30), <1>1, <2>1, <2>2, <2>4, <2>5, <2>6, IdleBefore
<1> HIDE DEF lost
<1>5. TypeOK'
  <2>1. \A x \in Keyboards \ router'.devices : router'.owner[x] = Free
    BY ZenonT(30), <1>2, <1>3 DEF TypeOK
  <2>2. client' \in [Clients -> SUBSET Keys] /\ fresh' \in BOOLEAN /\ astray' \in BOOLEAN
    BY ZenonT(30), <1>1, <1>2, ToldFields
  <2>3. down' \in [Keyboards -> SUBSET Keys]
    BY ZenonT(30), <1>1, <1>2
  <2> QED
    BY ZenonT(30), <1>1, <1>2, <1>3, <2>1, <2>2, <2>3 DEF TypeOK, Free
<1>6. OwnedIsDown'
  BY SMTT(30), <1>1, <1>2, <1>3 DEF OwnedIsDown
<1>7. GateAgrees'
  BY SMTT(30), <1>1, <1>2, <1>3 DEF GateAgrees
<1>8. NothingPending' /\ CallbackOK' /\ DecisionAgrees'
  BY ZenonT(30), <1>1, <1>3 DEF NothingPending, CallbackOK, DecisionAgrees
<1>9. HeldAgrees' /\ ClientAgrees' /\ LedgerHeld'
  BY ZenonT(30), <1>1, <1>2, <1>3, <1>4 DEF HeldAgrees, ClientAgrees, LedgerHeld
<1> QED
  BY ZenonT(30), <1>5, <1>6, <1>7, <1>8, <1>9 DEF RoutingInv

\* The router opens on a released desk, where nothing is held or counted.
LEMMA BootstrapStep ==
    ASSUME RoutingInv, Bootstrap
    PROVE  RoutingInv'
<1>1. /\ cur = None /\ cur' = None /\ ~locking /\ phase = "Open" /\ Quiescent(router) /\ held = {}
      /\ router' = UnlockConfirmed(router) /\ bootstrap' \in BOOLEAN
      /\ UNCHANGED <<held, phase, seat, ledger, fresh, locking, protocol, focused, client, down, astray>>
  BY ZenonT(30) DEF Bootstrap, RouteLocked, stock
<1>2. /\ TypeOK /\ OwnedIsDown /\ GateAgrees /\ HeldAgrees /\ ClientAgrees /\ LedgerHeld
      /\ router.released = None /\ router.pending = None /\ router \in Routers
  BY ZenonT(30), <1>1 DEF RoutingInv, TypeOK, NothingPending
<1>3. /\ router' \in Routers /\ router'.devices = router.devices /\ router'.owner = router.owner
      /\ ~router'.locked /\ (router'.fatal <=> router.fatal)
      /\ router'.pending = None /\ router'.released = None
  BY ZenonT(30), <1>1, <1>2, UnlockConfirmedFields
<1>4. \A o : o # "None" => HeldBefore(o) = {} /\ HeldBefore(o)' = {}
  <2>1. \A o : o # "None" => HeldAs(router, o) = {}
    BY ZenonT(30), <1>1 DEF Quiescent, OwnershipEmpty, TargetHeld, HeldAs
  <2>2. \A o : HeldBefore(o)' = HeldAs(router', o)
    BY ZenonT(30), <1>1 DEF HeldBefore, OwnerBefore, HeldAs
  <2>3. \A o : HeldAs(router', o) = HeldAs(router, o)
    BY ZenonT(30), <1>3 DEF HeldAs
  <2> QED
    BY ZenonT(30), <1>1, <2>1, <2>2, <2>3, IdleBefore
<1>5. TypeOK'
  BY ZenonT(30), <1>1, <1>2, <1>3 DEF TypeOK, Free
<1>6. OwnedIsDown' /\ GateAgrees'
  BY ZenonT(30), <1>1, <1>2, <1>3 DEF OwnedIsDown, GateAgrees
<1>7. NothingPending' /\ CallbackOK' /\ DecisionAgrees'
  BY ZenonT(30), <1>1, <1>3 DEF NothingPending, CallbackOK, DecisionAgrees
<1>8. ~router.fatal
  BY ZenonT(30), <1>1 DEF Quiescent
<1>9. HeldAgrees' /\ ClientAgrees' /\ LedgerHeld'
  BY ZenonT(30), <1>1, <1>2, <1>3, <1>4, <1>8 DEF HeldAgrees, ClientAgrees, LedgerHeld
<1> QED
  BY ZenonT(30), <1>5, <1>6, <1>7, <1>9 DEF RoutingInv

-----------------------------------------------------------------------------
(* The invariant.                                                          *)

\* A plugin that has just loaded owns, projects and owes nothing.
LEMMA InitHolds ==
    ASSUME Init
    PROVE  RoutingInv
<1>1. PICK D \in SUBSET Keyboards : router = [NewRouter EXCEPT !.devices = D]
  BY ZenonT(30) DEF Init
<1>2. NewRouter \in Routers
  BY ZenonT(30) DEF NewRouter, Routers, Free, Owners
<1>3. router \in Routers
  BY ZenonT(30), <1>1, <1>2 DEF Routers
<1>4. /\ router.owner = [d \in Keyboards |-> Free] /\ router.locked
      /\ router.pending = None /\ router.released = None
  BY ZenonT(30), <1>1 DEF NewRouter
<1>5. \A d \in Keyboards : router.owner[d] = Free /\ \A k \in Keys : router.owner[d][k] = "None"
  BY SMTT(30), <1>4 DEF Free
<1>6. /\ held = {} /\ ledger = {} /\ cur = None /\ bootstrap /\ ~locking
      /\ phase \in {"Open", "Locked"} /\ (phase = "Open" <=> ~protocol)
      /\ client = [c \in Clients |-> {}] /\ down = [d \in Keyboards |-> {}]
      /\ focused \in Clients \cup {None}
  BY ZenonT(30) DEF Init
<1>7. TypeOK
  <2>1. client \in [Clients -> SUBSET Keys] /\ down \in [Keyboards -> SUBSET Keys] /\ phase \in Phases
    BY ZenonT(30), <1>6 DEF Phases
  <2> QED
    BY ZenonT(30), <1>3, <1>5, <1>6, <2>1 DEF TypeOK, Init
<1>8. OwnedIsDown /\ NothingPending /\ CallbackOK /\ DecisionAgrees
  BY ZenonT(30), <1>4, <1>5, <1>6 DEF OwnedIsDown, NothingPending, CallbackOK, DecisionAgrees
<1>9. GateAgrees
  BY ZenonT(30), <1>4, <1>5, <1>6 DEF GateAgrees
<1>10. \A o : o # "None" => HeldBefore(o) = {}
  <2>1. router.devices \subseteq Keyboards
    BY ZenonT(30), <1>3, RouterFields
  <2> QED
    BY SMTT(30), <1>5, <1>6, <2>1, IdleBefore DEF HeldAs
<1>11. HeldAgrees /\ ClientAgrees /\ LedgerHeld
  BY ZenonT(30), <1>4, <1>6, <1>10 DEF HeldAgrees, ClientAgrees, LedgerHeld
<1> QED
  BY ZenonT(30), <1>7, <1>8, <1>9, <1>11 DEF RoutingInv

\* Every callback keeps it.
LEMMA NextKeeps ==
    ASSUME RoutingInv, [Next]_vars
    PROVE  RoutingInv'
<1>1. CASE UNCHANGED vars
  <2>1. UNCHANGED <<router, held, phase, bootstrap, seat, ledger, fresh, cur, locking,
                    protocol, focused, client, down, astray>>
    BY ZenonT(30), <1>1 DEF vars, adapter, stock
  <2>2. TypeOK' /\ OwnedIsDown' /\ NothingPending' /\ GateAgrees'
    BY ZenonT(30), <2>1 DEF RoutingInv, TypeOK, Free, OwnedIsDown, NothingPending, GateAgrees
  <2>3. CallbackOK'
    BY ZenonT(30), <2>1 DEF RoutingInv, CallbackOK, Observe
  <2>4. DecisionAgrees'
    BY ZenonT(30), <2>1 DEF RoutingInv, DecisionAgrees, OwnerBefore
  <2>5. \A o : HeldBefore(o)' = HeldBefore(o)
    BY ZenonT(30), <2>1 DEF HeldBefore, OwnerBefore
  <2>6. HeldAgrees' /\ ClientAgrees' /\ LedgerHeld'
    BY ZenonT(30), <2>1, <2>5 DEF RoutingInv, HeldAgrees, ClientAgrees, LedgerHeld
  <2> QED
    BY ZenonT(30), <2>2, <2>3, <2>4, <2>6 DEF RoutingInv
<1>2. ASSUME NEW d \in Keyboards, NEW k \in Keys, NEW kind \in Kinds, KeyEntry(d, k, kind)
      PROVE  RoutingInv'
  BY ZenonT(30), <1>2, KeyEntryStep
<1>3. CASE KeyFinish
  BY ZenonT(30), <1>3, KeyFinishStep
<1>4. ASSUME NEW c \in Clients \cup {None}, Focus(c)
      PROVE  RoutingInv'
  BY ZenonT(30), <1>4, FocusStep
<1>5. CASE KeyboardResourceDestroyed
  BY ZenonT(30), <1>5, KeyboardResourceDestroyedStep
<1>6. CASE LockEnter
  BY ZenonT(30), <1>6, LockEnterStep
<1>7. CASE LockGranted
  BY ZenonT(30), <1>7, LockGrantedStep
<1>8. CASE LockReturn
  BY ZenonT(30), <1>8, LockReturnStep
<1>9. CASE Unlock
  BY ZenonT(30), <1>9, UnlockStep
<1>10. ASSUME NEW d \in Keyboards, AttachKeyboard(d)
       PROVE  RoutingInv'
  BY ZenonT(30), <1>10, AttachKeyboardStep
<1>11. ASSUME NEW d \in Keyboards, DestroyKeyboard(d)
       PROVE  RoutingInv'
  BY ZenonT(30), <1>11, DestroyKeyboardStep
<1>12. CASE Bootstrap
  BY ZenonT(30), <1>12, BootstrapStep
<1> QED
  BY ZenonT(30), <1>1, <1>2, <1>3, <1>4, <1>5, <1>6, <1>7, <1>8, <1>9, <1>10, <1>11, <1>12 DEF Next

\* RoutingInv is inductive: the ledger of owners, the physical keyboards, the lock
\* phase, the projection a focus enter shows, what the focused client has and what
\* stock counts agree in every state of the compositor thread, inside a key
\* callback and between callbacks, for every set of keyboards, keys and clients.
THEOREM RoutingInductive == Spec => []RoutingInv
<1>1. Init => RoutingInv
  BY ZenonT(30), InitHolds
<1>2. RoutingInv /\ [Next]_vars => RoutingInv'
  BY NextKeeps
<1> QED
  BY <1>1, <1>2, PTL DEF Spec

\* ClientSeesForwarded: between callbacks of an open gate the focused client has
\* exactly the keys the router forwards to clients.
THEOREM ClientSees == Spec => []ClientSeesForwarded
<1>1. RoutingInv => ClientSeesForwarded
  <2> SUFFICES ASSUME RoutingInv, Open, focused # None, ~router.fatal, ~astray
      PROVE  client[focused] = HeldAs(router, "Forwarded")
    BY ZenonT(30) DEF ClientSeesForwarded
  <2>1. cur = None /\ ~router.locked /\ phase = "Open"
    BY ZenonT(30) DEF Open, Idle
  <2>2. client[focused] = held /\ held = HeldBefore("Forwarded")
    BY ZenonT(30), <2>1 DEF RoutingInv, ClientAgrees, HeldAgrees
  <2> QED
    BY ZenonT(30), <2>1, <2>2, IdleBefore
<1> QED
  BY <1>1, RoutingInductive, PTL

\* LedgerSettles: a desk with every key up leaves nothing in stock's ledger.
THEOREM LedgerEmpties == Spec => []LedgerSettles
<1>1. RoutingInv => LedgerSettles
  <2> SUFFICES ASSUME RoutingInv, cur = None, ~astray, \A d \in router.devices : down[d] = {}
      PROVE  ledger = {}
    BY ZenonT(30) DEF LedgerSettles, Idle
  <2>1. router.devices \subseteq Keyboards
    BY ZenonT(30), RouterFields DEF RoutingInv, TypeOK
  <2>2. \A d \in router.devices, k \in Keys : router.owner[d][k] = "None"
    BY ZenonT(30), <2>1 DEF RoutingInv, OwnedIsDown
  <2>3. \A o : o # "None" => HeldBefore(o) = {}
    BY SMTT(30), <2>2, IdleBefore DEF HeldAs
  <2>4. ledger \subseteq HeldBefore("Forwarded") \cup HeldBefore("Quarantined") \cup HeldBefore("LockerOwned")
    BY ZenonT(30) DEF RoutingInv, LedgerHeld
  <2> QED
    BY SMTT(30), <2>3, <2>4
<1> QED
  BY <1>1, RoutingInductive, PTL

\* OutcomeTruthful: whatever stock will answer, the code the daemon is going to be
\* sent says what will have happened, and no replacement follows a moved focus.
THEOREM OutcomesTruthful == Spec => []OutcomeTruthful
<1>1. RoutingInv => OutcomeTruthful
  <2> SUFFICES ASSUME RoutingInv, cur # None,
                      NEW admitted \in KeybindAnswers, NEW late \in BOOLEAN, NEW delivery \in Deliveries
      PROVE  LET f == Finish(admitted, late, delivery)
             IN  /\ f.code \in {1, 3, 6} => f.delivered
                 /\ f.code \in {4, 5, 7, 9} => ~f.delivered
                 /\ f.code = 0 => f.delivered = (cur.event.kind = "Up")
                 /\ cur.event.kind = "Up" /\ f.outcome \in {"Replaced", "PartialFatal"} => ~cur.moved
    BY ZenonT(30) DEF OutcomeTruthful
  <2> DEFINE f == Finish(admitted, late, delivery)
             e == cur.event
             result == cur.result
             taken == TakenByStock(router, e, result, admitted)
  <2>1. admitted \in BOOLEAN
    BY ZenonT(30), AnswersBoolean
  <2>2. FinishOutput(admitted, f)
    BY ZenonT(30), <2>1, FinishFacts
  <2>3. /\ e.kind \in Kinds /\ result.outcome \in Outcomes
        /\ result.outcome \in {"Merged", "Swallowed", "Replaced", "PartialFatal",
                               "StockConsumed", "Quarantined"} => ~result.client
        /\ e.kind # "Down" => result.outcome \notin {"Replaced", "PartialFatal", "Rejected"}
        /\ taken => e.kind = "Down" /\ ~admitted
    <3>1. e.kind \in Kinds /\ result.outcome \in Outcomes
      BY ZenonT(30), CallbackFields
    <3> QED
      BY ZenonT(30), <3>1 DEF RoutingInv, DecisionAgrees, TakenByStock
  <2>4. PICK invoked \in BOOLEAN :
           /\ invoked <=> Invoked(admitted)
           /\ f.code = OutcomeCode(f.outcome, e.kind, invoked, cur.reply)
    BY ZenonT(30), <2>2 DEF FinishOutput
  <2>5. \/ f.outcome = IF taken THEN "StockConsumed" ELSE result.outcome
        \/ e.kind = "Up" /\ f.outcome = "Rejected"
        \/ /\ e.kind = "Up" /\ f.outcome \in {"Replaced", "PartialFatal"} /\ Invoked(admitted)
           /\ cur.ticket # None /\ cur.ticket.focus = router.focus
    BY ZenonT(30), <2>2 DEF FinishOutput
  <2>6. /\ f.delivered <=> result.client /\ admitted /\ focused # None
        /\ Invoked(admitted) => f.delivered
    BY ZenonT(30), <2>2 DEF FinishOutput, Invoked
  <2>7. f.outcome \in Outcomes
    BY ZenonT(30), <2>3, <2>5 DEF Outcomes
  <2>8. f.delivered \in BOOLEAN
    BY ZenonT(30) DEF Finish
  <2> HIDE DEF f, e, result, taken
  <2>9. f.code \in {1, 3, 6} => f.delivered
    <3>1. f.code \in {1, 3, 6} => invoked
      BY SMTT(30), <2>4, <2>7 DEF OutcomeCode, Outcomes
    <3> QED
      BY ZenonT(30), <2>4, <2>6, <3>1
  <2>10. f.code \in {4, 5, 7, 9} => ~f.delivered
    <3>1. f.code \in {4, 5, 7, 9} => f.outcome \in {"Swallowed", "StockConsumed", "Merged", "Quarantined"}
      BY SMTT(30), <2>4, <2>7 DEF OutcomeCode, Outcomes
    <3> QED
      BY ZenonT(30), <2>3, <2>5, <2>6, <3>1
  <2>11. f.code = 0 => (f.delivered <=> e.kind = "Up")
    <3>1. f.code = 0 => f.outcome = "Replaced"
      BY SMTT(30), <2>4, <2>7 DEF OutcomeCode, Outcomes
    <3> QED
      BY ZenonT(30), <2>3, <2>5, <2>6, <3>1
  <2>12. f.code = 0 => f.delivered = (e.kind = "Up")
    <3> DEFINE up == e.kind = "Up"
    <3>1. up \in BOOLEAN
      OBVIOUS
    <3>2. f.code = 0 => (f.delivered <=> up)
      BY ZenonT(30), <2>11
    <3> HIDE DEF up
    <3>3. f.code = 0 => f.delivered = up
      BY ZenonT(30), <2>8, <3>1, <3>2
    <3> QED
      BY ZenonT(30), <3>3 DEF up
  <2>13. e.kind = "Up" /\ f.outcome \in {"Replaced", "PartialFatal"} => ~cur.moved
    <3>1. e.kind = "Up" /\ f.outcome \in {"Replaced", "PartialFatal"} =>
             cur.ticket # None /\ cur.ticket.focus = router.focus
      BY ZenonT(30), <2>3, <2>5
    <3>2. cur.ticket # None /\ cur.moved => cur.ticket.focus < router.focus
      BY ZenonT(30) DEF RoutingInv, CallbackOK
    <3>3. router.focus \in Nat
      BY ZenonT(30), RouterFields DEF RoutingInv, TypeOK
    <3> QED
      BY SMTT(30), <3>1, <3>2, <3>3
  <2> QED
    BY <2>9, <2>10, <2>12, <2>13 DEF f, e
<1> QED
  BY <1>1, RoutingInductive, PTL

\* ReopensAfterLock: the gate opens only where a callback sees a session that was
\* locked and no longer is.
THEOREM Reopens == Spec => ReopensAfterLock
<1> DEFINE A == RouteLocked(phase) /\ ~RouteLocked(phase') => phase = "Locked" /\ ~protocol /\ ~locking
<1>1. ASSUME RoutingInv, [Next]_vars
      PROVE  [A]_vars
  <2>0. /\ phase \in Phases /\ (phase = "Open" => ~protocol) /\ (locking => phase = "Entering")
    BY ZenonT(30), <1>1 DEF RoutingInv, TypeOK, GateAgrees
  <2>1. ASSUME phase' \in {phase, Observe(phase, protocol), "Entering", "Locked"}
        PROVE  A
    BY ZenonT(30), <2>0, <2>1 DEF RouteLocked, Observe, Phases
  <2>2. ASSUME Next
        PROVE  phase' \in {phase, Observe(phase, protocol), "Entering", "Locked"}
    <3>1. ASSUME NEW d \in Keyboards, NEW k \in Keys, NEW kind \in Kinds, KeyEntry(d, k, kind)
          PROVE  phase' = Observe(phase, protocol)
      BY ZenonT(30), <1>1, <3>1, EntryFacts DEF EntryGate
    <3>2. ASSUME NEW c \in Clients \cup {None}, Focus(c)
          PROVE  phase' = Observe(phase, protocol)
      BY ZenonT(30), <3>2 DEF Focus, SyncUnlock
    <3>3. ASSUME KeyFinish \/ KeyboardResourceDestroyed \/ LockGranted \/ Unlock \/ Bootstrap
          PROVE  phase' = phase
      BY ZenonT(30), <3>3 DEF KeyFinish, KeyboardResourceDestroyed, LockGranted, Unlock, Bootstrap, adapter
    <3>4. ASSUME NEW d \in Keyboards, AttachKeyboard(d) \/ DestroyKeyboard(d)
          PROVE  phase' = phase
      BY ZenonT(30), <3>4 DEF AttachKeyboard, DestroyKeyboard
    <3>5. ASSUME LockEnter \/ LockReturn
          PROVE  phase' \in {phase, "Entering", "Locked"}
      BY ZenonT(30), <3>5 DEF LockEnter, LockReturn
    <3> QED
      BY ZenonT(30), <2>2, <3>1, <3>2, <3>3, <3>4, <3>5 DEF Next
  <2> QED
    BY <1>1, <2>1, <2>2
<1> QED
  BY <1>1, RoutingInductive, PTL DEF Spec, ReopensAfterLock

\* QuarantineHolds: a lock quarantines every key that is down, and nothing but its
\* release or its keyboard's end gives such a key back.
THEOREM Quarantines == Spec => QuarantineHolds
<1> DEFINE A == /\ phase # "Entering" /\ phase' = "Entering" =>
                     \A d \in Keyboards, k \in Keys : router'.owner[d][k] \in {"None", "Quarantined"}
                /\ \A d \in Keyboards, k \in Keys :
                     router.owner[d][k] = "Quarantined" /\ router'.owner[d][k] # "Quarantined"
                         => k \notin down'[d]
           Given == phase # "Entering" /\ phase' = "Entering" =>
                      \A d \in Keyboards, k \in Keys : router'.owner[d][k] \in {"None", "Quarantined"}
           Kept == \A d \in Keyboards, k \in Keys :
                      router.owner[d][k] = "Quarantined" => router'.owner[d][k] \in {"None", "Quarantined"}
<1>1. ASSUME RoutingInv, RoutingInv', [Next]_vars
      PROVE  [A]_vars
  <2>0. router \in Routers /\ phase \in Phases /\ (phase = "Open" => ~protocol)
    BY ZenonT(30), <1>1 DEF RoutingInv, TypeOK, GateAgrees
  <2>1. ASSUME Given, Kept
        PROVE  A
    BY ZenonT(30), <1>1, <2>1 DEF RoutingInv, OwnedIsDown
  <2>2. ASSUME Next
        PROVE  Given /\ Kept
    <3>1. ASSUME NEW d \in Keyboards, NEW k \in Keys, NEW kind \in Kinds, KeyEntry(d, k, kind)
          PROVE  Given /\ Kept
      <4>1. EntryLedger(d, k) /\ EntryGate /\ EntryDecision(d, k, kind)
        BY ZenonT(30), <1>1, <3>1, EntryFacts
      <4>2. phase' = "Entering" => phase = "Entering"
        BY ZenonT(30), <2>0, <4>1 DEF EntryGate, Phases
      <4>3. router.owner[d][k] = "Quarantined" => router'.owner[d][k] \in {"None", "Quarantined"}
        BY ZenonT(30), <4>1 DEF EntryDecision, Kinds
      <4> QED
        BY ZenonT(30), <4>1, <4>2, <4>3 DEF EntryLedger
    <3>2. CASE KeyFinish
      <4>1. phase' = phase
        BY ZenonT(30), <3>2 DEF KeyFinish
      <4>2. PICK admitted \in KeybindAnswers : \E f, rec : FinishLedger(admitted, f) /\ FinishWrites(admitted, f, rec)
        BY ZenonT(30), <1>1, <3>2, FinishFound
      <4>3. PICK f, rec : FinishLedger(admitted, f) /\ FinishWrites(admitted, f, rec)
        BY ZenonT(30), <4>2
      <4>4. router'.owner = f.router.owner
        BY ZenonT(30), <4>3 DEF FinishWrites, Recovered, SameLedger
      <4>5. OwnerLeft(admitted) = router.owner[cur.event.dev][cur.event.key]
            \/ router.owner[cur.event.dev][cur.event.key] # "Quarantined"
        BY ZenonT(30) DEF OwnerLeft, TakenByStock
      <4>6. ASSUME NEW x \in Keyboards, NEW y \in Keys, router.owner[x][y] = "Quarantined"
            PROVE  f.router.owner[x][y] = "Quarantined"
        BY ZenonT(30), <4>3, <4>5, <4>6 DEF FinishLedger
      <4> QED
        BY ZenonT(30), <4>1, <4>4, <4>6
    <3>3. ASSUME NEW c \in Clients \cup {None}, Focus(c)
          PROVE  Given /\ Kept
      <4> DEFINE u == SyncUnlock
      <4>1. Synced(u)
        BY ZenonT(30), <2>0, SyncUnlockSyncs
      <4>2. phase' = u.phase /\ router' = FocusChanged(u.router)
        BY ZenonT(30), <3>3 DEF Focus
      <4> HIDE DEF u
      <4>3. phase' = "Entering" => phase = "Entering"
        BY ZenonT(30), <4>1, <4>2 DEF Synced
      <4>4. u.router \in Routers /\ u.router.owner = router.owner
        BY ZenonT(30), <4>1 DEF Synced, SameLedger
      <4>5. router'.owner = u.router.owner
        BY ZenonT(30), <4>2, <4>4, FocusChangedFields
      <4> QED
        BY ZenonT(30), <4>3, <4>4, <4>5
    <3>4. CASE KeyboardResourceDestroyed \/ LockGranted \/ Unlock
      BY ZenonT(30), <3>4 DEF KeyboardResourceDestroyed, LockGranted, Unlock, adapter
    <3>5. CASE LockEnter
      <4>1. router' = Lock(router)
        BY ZenonT(30), <3>5 DEF LockEnter
      <4>2. \A d \in Keyboards, k \in Keys :
               router'.owner[d][k] = IF router.owner[d][k] = "None" THEN "None" ELSE "Quarantined"
        BY ZenonT(30), <2>0, <4>1, LockFields
      <4> QED
        BY ZenonT(30), <4>2
    <3>6. CASE LockReturn
      <4>1. phase' \in {phase, "Locked"} /\ router' = router
        BY ZenonT(30), <3>6 DEF LockReturn
      <4> QED
        BY ZenonT(30), <4>1
    <3>7. ASSUME NEW d \in Keyboards, AttachKeyboard(d)
          PROVE  Given /\ Kept
      <4>1. phase' = phase /\ router' = FocusChanged(Add(router, d))
        BY ZenonT(30), <3>7 DEF AttachKeyboard
      <4>2. router'.owner = router.owner
        BY ZenonT(30), <2>0, <4>1, AddFields
      <4> QED
        BY ZenonT(30), <4>1, <4>2
    <3>8. ASSUME NEW d \in Keyboards, DestroyKeyboard(d)
          PROVE  Given /\ Kept
      <4> DEFINE r == FocusChanged(router)
      <4>1. phase' = phase /\ router' = Retire(r, d)
        BY ZenonT(30), <3>8 DEF DestroyKeyboard
      <4>2. r \in Routers /\ r.owner = router.owner
        BY ZenonT(30), <2>0, FocusChangedFields
      <4> HIDE DEF r
      <4>3. Retired(r, d, router')
        BY ZenonT(30), <4>1, <4>2, RetireFields
      <4>4. \A x \in Keyboards, k \in Keys : router'.owner[x][k] = IF x = d THEN "None" ELSE router.owner[x][k]
        BY ZenonT(30), <4>2, <4>3 DEF Retired
      <4> QED
        BY ZenonT(30), <4>1, <4>4
    <3>9. CASE Bootstrap
      <4>1. phase' = phase /\ router' = UnlockConfirmed(router)
        BY ZenonT(30), <3>9 DEF Bootstrap
      <4>2. router'.owner = router.owner
        BY ZenonT(30), <2>0, <4>1, UnlockConfirmedFields
      <4> QED
        BY ZenonT(30), <4>1, <4>2
    <3> HIDE DEF Given, Kept
    <3> QED
      BY ZenonT(30), <2>2, <3>1, <3>2, <3>3, <3>4, <3>5, <3>6, <3>7, <3>8, <3>9 DEF Next
  <2> QED
    BY <1>1, <2>1, <2>2
<1> QED
  BY <1>1, RoutingInductive, PTL DEF Spec, QuarantineHolds

=============================================================================
