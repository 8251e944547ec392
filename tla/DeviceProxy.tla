----------------------------- MODULE DeviceProxy -----------------------------
(***************************************************************************)
(* One keyboard of the Linux broker: DeviceProxy of                        *)
(* packages/linux/src/broker.rs with its KeyState of state.rs, between the *)
(* kernel's evdev queue and the virtual keyboard applications read.        *)
(*                                                                         *)
(* The keyboard keeps moving while the broker grabs it, reads a batch,     *)
(* waits for the client's answer or resynchronises.  The evdev queue is    *)
(* bounded: an overflow leaves SYN_DROPPED and the latest event.  The      *)
(* client answers Pass or Swallow; everything that can fail (the client,   *)
(* the session's authority, the devices) fails by way of Bypass.           *)
(*                                                                         *)
(* A packet of the keyboard (its key bits and its events) is one step.     *)
(* Of the output frame under construction the model keeps each key's last  *)
(* transition, which is all that decides what applications see.            *)
(***************************************************************************)
EXTENDS Naturals, Sequences, FiniteSets

CONSTANTS
  Keys,        \* key codes up to MAX_KEY
  NoKey,       \* the code of an EV_SYN event
  Packets,     \* the keys one packet of the keyboard moves, in order
  Capacity,    \* slots of the evdev queue
  Flushes      \* whether EVIOCGKEY discards queued key events: it may in this kernel

ASSUME ProxyAssumption ==
  /\ NoKey \notin Keys
  /\ Packets \subseteq Seq(Keys) \ {<<>>}
  /\ \A ks \in Packets : Len(ks) + 2 <= Capacity
  /\ Capacity \in Nat \ {0, 1, 2}
  /\ Flushes \subseteq BOOLEAN

VARIABLES
  pressed,     \* the keys physically down
  queue,       \* the open descriptor's evdev queue
  straddling,  \* auxiliary: presses others saw since this descriptor was opened
  at,          \* how far the proxy has come
  batch,       \* events fetched and not yet processed
  physical, output, committed_output, swallowed, dropping,   \* KeyState
  frame,       \* pending: the last transition of each key
  app          \* the keys applications see down on the virtual keyboard

keyState == <<physical, output, committed_output, swallowed, dropping>>
proxyVars == <<pressed, queue, straddling, at, batch, keyState, frame, app>>

Stages == {"closed", "opened", "checked", "grabbed", "fetched", "active"}
Grabbed == at \in {"grabbed", "fetched", "active"}
RawEvent == ({"down", "up", "repeat"} \X Keys) \cup ({"syn", "dropped"} \X {NoKey})
Syn == <<"syn", NoKey>>
Dropped == <<"dropped", NoKey>>
NoFrame == [k \in Keys |-> "none"]

ProxyInit ==
  /\ pressed = {} /\ queue = <<>> /\ straddling = {}
  /\ at = "closed" /\ batch = <<>>
  /\ physical = {} /\ output = {} /\ committed_output = {} /\ swallowed = {}
  /\ dropping = FALSE
  /\ frame = NoFrame /\ app = {}

-----------------------------------------------------------------------------
(* The keyboard and the kernel (external). *)

\* The queue after a packet: an overflow leaves SYN_DROPPED and what came after it.
Push(events) ==
  LET free == Capacity - Len(queue)
  IN  IF at = "closed" THEN <<>>
      ELSE IF Len(events) <= free THEN queue \o events
      ELSE <<Dropped>> \o SubSeq(events, free + 1, Len(events))

Moved(ks) == {ks[i] : i \in 1..Len(ks)}

\* Keys move, in one packet; while nobody has grabbed the keyboard, everyone sees it.
KeysMove(ks) ==
  LET transition(k) == <<IF k \in pressed THEN "up" ELSE "down", k>>
      up == Moved(ks) \cap pressed
      down == Moved(ks) \ pressed
  IN  /\ pressed' = (pressed \cup down) \ up
      /\ queue' = Push([i \in 1..Len(ks) |-> transition(ks[i])] \o <<Syn>>)
      /\ straddling' = IF Grabbed \/ at = "closed" THEN straddling
                       ELSE (straddling \cup down) \ up
      /\ UNCHANGED <<at, batch, keyState, frame, app>>

KeyRepeats(k) ==
  /\ k \in pressed
  /\ queue' = Push(<<<<"repeat", k>>, Syn>>)
  /\ UNCHANGED <<pressed, straddling, at, batch, keyState, frame, app>>

\* What a flush of its key events leaves of the queue: no empty packet but the first.
Flushed ==
  (IF queue # <<>> /\ Head(queue) = Dropped THEN <<Dropped>> ELSE <<>>) \o
  (IF \E i \in 1..Len(queue) : queue[i] = Syn THEN <<Syn>> ELSE <<>>)

\* get_key_state: EVIOCGKEY.
GetKeyState == \E flush \in Flushes : queue' = IF flush THEN Flushed ELSE queue

-----------------------------------------------------------------------------
(* Capture: from_authorized_fd, activate, check_post_grab. *)

Advance(from, to) ==
  /\ at = from
  /\ at' = to
  /\ UNCHANGED <<pressed, batch, keyState, frame, app>>

\* from_authorized_fd refuses a keyboard with a key held.
Open ==
  /\ Advance("closed", "opened")
  /\ pressed = {}
  /\ straddling' = {}
  /\ UNCHANGED queue

\* activate looks again, then grabs; keys may move in between.
CheckBeforeGrab ==
  /\ Advance("opened", "checked")
  /\ pressed = {}
  /\ GetKeyState
  /\ UNCHANGED straddling

Grab == Advance("checked", "grabbed") /\ UNCHANGED <<queue, straddling>>

\* A plausible slip: events queued before the grab are taken for input.
MutFetchQueued == Advance("grabbed", "fetched") /\ UNCHANGED <<queue, straddling>>

\* check_post_grab: any queued event means input changed during the grab.
FetchQueued ==
  /\ Advance("grabbed", "fetched")
  /\ queue = <<>>
  /\ UNCHANGED <<queue, straddling>>

CheckAfterGrab ==
  /\ Advance("fetched", "active")
  /\ pressed = {}
  /\ GetKeyState
  /\ UNCHANGED straddling

ReleaseAll == output \cup committed_output

\* bypass, and the drop that follows every failure: release, reset, ungrab, close.
Bypass ==
  /\ at # "closed"
  /\ at' = "closed"
  /\ app' = app \ ReleaseAll
  /\ queue' = <<>> /\ batch' = <<>>
  /\ physical' = {} /\ output' = {} /\ committed_output' = {} /\ swallowed' = {}
  /\ dropping' = FALSE
  /\ frame' = NoFrame
  /\ UNCHANGED <<pressed, straddling>>

-----------------------------------------------------------------------------
(* pump_inner. *)

\* One read of the queue, which need not return all of it.
ReadBatch(n) ==
  /\ at = "active"
  /\ batch = <<>>
  /\ batch' = SubSeq(queue, 1, n)
  /\ queue' = SubSeq(queue, n + 1, Len(queue))
  /\ UNCHANGED <<pressed, straddling, at, keyState, frame, app>>

\* The next event of the batch is this one.
Process(event) ==
  /\ at = "active"
  /\ batch # <<>>
  /\ Head(batch) = event
  /\ batch' = Tail(batch)
  /\ UNCHANGED <<pressed, straddling, at>>

\* The first down of a key latches the client's decision.
KeyDown(k, decision) ==
  /\ ~dropping
  /\ Process(<<"down", k>>)
  /\ physical' = physical \cup {k}
  /\ output' = IF k \notin physical /\ decision = "Pass" THEN output \cup {k} ELSE output
  /\ frame' = IF k \notin physical /\ decision = "Pass" THEN [frame EXCEPT ![k] = "down"] ELSE frame
  /\ swallowed' = IF k \notin physical /\ decision = "Swallow" THEN swallowed \cup {k} ELSE swallowed
  /\ UNCHANGED <<queue, committed_output, dropping, app>>

\* The release goes where its press went, whatever the client answers now.
ReleaseOf(k) ==
  /\ ~dropping
  /\ Process(<<"up", k>>)
  /\ physical' = physical \ {k}
  /\ output' = output \ {k}
  /\ frame' = IF k \in output THEN [frame EXCEPT ![k] = "up"] ELSE frame
  /\ UNCHANGED <<queue, committed_output, dropping, app>>

KeyUp(k) == ReleaseOf(k) /\ swallowed' = swallowed \ {k}

\* A repeat is forwarded with its press or not at all; it moves no key.
KeyRepeat(k) ==
  /\ ~dropping
  /\ Process(<<"repeat", k>>)
  /\ UNCHANGED <<queue, keyState, frame, app>>

\* The keys down once a frame has gone out.
After(keys, f) == {k \in Keys : f[k] = "down" \/ (f[k] = "none" /\ k \in keys)}

\* commit_output: what applications now hold.
Commit == output

\* SYN_REPORT: the frame goes out and is committed.
EmitFrame ==
  /\ ~dropping
  /\ Process(Syn)
  /\ app' = After(app, frame)
  /\ committed_output' = Commit
  /\ frame' = NoFrame
  /\ UNCHANGED <<queue, physical, output, swallowed, dropping>>

\* rollback_output: what applications still hold.
Rollback == committed_output

\* SYN_DROPPED: the frame is given up, output goes back to what was committed.
SynDropped ==
  /\ Process(Dropped)
  /\ frame' = NoFrame
  /\ output' = Rollback
  /\ dropping' = TRUE
  /\ UNCHANGED <<queue, physical, committed_output, swallowed, app>>

\* Until the next SYN_REPORT key events are ignored.
Ignore(k) ==
  /\ dropping
  /\ \E kind \in {"down", "up", "repeat"} : Process(<<kind, k>>)
  /\ UNCHANGED <<queue, keyState, frame, app>>

\* A plausible slip: keys the snapshot discovers do not reach applications.
MutResyncOutput == output \cap pressed

\* resync: releases first, swallowed ownership kept, newly discovered keys passed.
ResyncOutput == (output \cap pressed) \cup (pressed \ swallowed)

\* SYN_REPORT after SYN_DROPPED: snapshot the keys, tell the client, and emit the
\* difference as one frame.
Resync ==
  /\ dropping
  /\ Process(Syn)
  /\ GetKeyState
  /\ physical' = pressed
  /\ swallowed' = swallowed \cap pressed
  /\ output' = ResyncOutput
  /\ committed_output' = ResyncOutput
  /\ app' = ((app \ (output \ pressed)) \cup ResyncOutput)
  /\ dropping' = FALSE
  /\ frame' = NoFrame

Pump ==
  \/ \E n \in 1..Len(queue) : ReadBatch(n)
  \/ \E k \in Keys : \/ \E decision \in {"Pass", "Swallow"} : KeyDown(k, decision)
                     \/ KeyUp(k) \/ KeyRepeat(k) \/ Ignore(k)
  \/ EmitFrame \/ SynDropped \/ Resync

Capture == Open \/ CheckBeforeGrab \/ Grab \/ FetchQueued \/ CheckAfterGrab

Keyboard == (\E ks \in Packets : KeysMove(ks)) \/ (\E k \in Keys : KeyRepeats(k))

ProxyNext == Keyboard \/ Capture \/ Pump \/ Bypass

ProxySpec == ProxyInit /\ [][ProxyNext]_proxyVars

-----------------------------------------------------------------------------

\* Every variable keeps its type, and the evdev queue its capacity.
ProxyTypeOK ==
  /\ pressed \subseteq Keys /\ straddling \subseteq Keys
  /\ queue \in Seq(RawEvent) /\ Len(queue) <= Capacity
  /\ batch \in Seq(RawEvent)
  /\ at \in Stages
  /\ physical \subseteq Keys /\ output \subseteq Keys /\ committed_output \subseteq Keys
  /\ swallowed \subseteq Keys /\ dropping \in BOOLEAN
  /\ frame \in [Keys -> {"none", "up", "down"}]
  /\ app \subseteq Keys

\* Applications hold exactly the committed output, and sending the pending frame
\* would make them hold exactly the output: the three copies of the output state
\* (output, committed_output, pending) never drift, across rollback and resync, and
\* nothing is added to a frame while events are being dropped.
FrameAgrees ==
  /\ at # "closed" => app = committed_output /\ output = After(committed_output, frame)
  /\ dropping => frame = NoFrame

\* Outside a loss of events, every held key is forwarded or swallowed and nothing
\* else is: no press is left without an owner, no owner outlives its press.
OneOwner == ~dropping => physical = output \cup swallowed

\* Whenever capture ends, in the middle of a frame included, bypass has released
\* every key that applications saw go down.
NothingHeld == at = "closed" => app = {}

\* The grab is taken only between presses: a captured keyboard has no key whose
\* press went to others and whose release will be taken from them.
GrabClean == at = "active" => straddling = {}

\* Until the grab the presses others saw are the keys held, and from the last look
\* at the keys to the look at the queue such a press leaves an event in the queue:
\* why check_post_grab refuses every grab a press straddles.
GrabRace ==
  /\ at \in {"opened", "checked"} => straddling = pressed
  /\ at \in {"checked", "grabbed"} /\ straddling # {} => queue # <<>>
  /\ at \in {"fetched", "active"} => straddling = {}

\* A closed or not yet active proxy owns nothing.
IdleEmpty ==
  /\ at = "closed" => queue = <<>>
  /\ at # "active" => /\ physical = {} /\ output = {} /\ committed_output = {}
                      /\ swallowed = {} /\ ~dropping /\ frame = NoFrame /\ app = {}

\* The inductive invariant behind FrameAgrees, OneOwner, NothingHeld and GrabClean.
ProxyInv == ProxyTypeOK /\ FrameAgrees /\ OneOwner /\ GrabRace /\ IdleEmpty

\* Once everything read has been processed, the broker's idea of the keyboard is the
\* keyboard, and applications hold its keys but the swallowed ones.
Converged ==
  at = "active" /\ ~dropping /\ queue = <<>> /\ batch = <<>>
    => physical = pressed /\ output = pressed \ swallowed

-----------------------------------------------------------------------------
(* Why: what the events the broker has still to process say of the keyboard. *)

Unread == batch \o queue
Transition(event, k) == event \in {<<"down", k>>, <<"up", k>>}

\* The last transition of a key, unless a loss of events follows it, is its state.
LastTells(u, held) ==
  \A k \in Keys, i \in 1..Len(u) :
    (/\ Transition(u[i], k)
     /\ \A j \in 1..Len(u) : j > i => ~Transition(u[j], k) /\ u[j] # Dropped)
    => (u[i] = <<"down", k>> <=> k \in held)

\* A press never follows the release of its key in one frame, nor one that is pending.
FramesApart(u, f) ==
  /\ \A k \in Keys, i \in 1..Len(u), j \in 1..Len(u) :
        i < j /\ u[i] = <<"up", k>> /\ u[j] = <<"down", k>>
        => \E m \in 1..Len(u) : i < m /\ m < j /\ u[m] \in {Syn, Dropped}
  /\ \A k \in Keys, j \in 1..Len(u) :
        f[k] = "up" /\ u[j] = <<"down", k>>
        => \E m \in 1..Len(u) : m < j /\ u[m] \in {Syn, Dropped}

\* Events end with a report, and the one that will send the pending frame is among them.
EndsInReport(u, f) ==
  /\ u # <<>> => u[Len(u)] = Syn
  /\ f # NoFrame => u # <<>>

\* Unless events were lost, the broker is right about a key that no event is left of.
KnownElsewhere(u, known, held) ==
  (\A i \in 1..Len(u) : u[i] # Dropped) =>
    \A k \in Keys : (\A i \in 1..Len(u) : ~Transition(u[i], k)) => (k \in known <=> k \in held)

\* With ProxyInv, and unless EVIOCGKEY discards events, the inductive invariant behind
\* Converged.
UnreadInv ==
  /\ at = "closed" => batch = <<>>
  /\ at # "closed" => /\ LastTells(Unread, pressed) /\ FramesApart(Unread, frame)
                      /\ EndsInReport(Unread, frame)
  /\ at = "active" /\ ~dropping => KnownElsewhere(Unread, physical, pressed)
  /\ swallowed \cap (output \cup committed_output) = {}

=============================================================================
