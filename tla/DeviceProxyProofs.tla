-------------------------- MODULE DeviceProxyProofs --------------------------
(***************************************************************************)
(* Proofs about DeviceProxy, for every set of keys, every shape of packet, *)
(* every queue capacity and both behaviours of EVIOCGKEY.  The inductive   *)
(* invariant is ProxyInv.  Where EVIOCGKEY discards no event, UnreadInv is *)
(* inductive with it, and with that the broker's idea of the keyboard      *)
(* converges.                                                              *)
(***************************************************************************)
EXTENDS DeviceProxy, TLAPS

USE ProxyAssumption

\* A packet leaves the evdev queue well formed, within its capacity and, on an
\* open descriptor, not empty: overflow or not.
LEMMA PushFits ==
  ASSUME queue \in Seq(RawEvent), Len(queue) <= Capacity,
         NEW events \in Seq(RawEvent), Len(events) >= 1, Len(events) < Capacity
  PROVE  /\ Push(events) \in Seq(RawEvent)
         /\ Len(Push(events)) <= Capacity
         /\ at # "closed" => Push(events) # <<>>
<1> DEFINE free == Capacity - Len(queue)
<1>1. free \in Nat
  OBVIOUS
<1>2. Dropped \in RawEvent
  BY ZenonT(30) DEF Dropped, RawEvent
<1>3. CASE at = "closed"
  BY <1>3 DEF Push
<1>4. CASE at # "closed" /\ Len(events) <= free
  BY <1>4, <1>1 DEF Push
<1>5. CASE at # "closed" /\ ~(Len(events) <= free)
  <2> DEFINE rest == SubSeq(events, free + 1, Len(events))
  <2>1. rest \in Seq(RawEvent) /\ Len(rest) = Len(events) - free
    BY <1>5, <1>1
  <2>2. Push(events) = <<Dropped>> \o rest
    BY ZenonT(30), <1>5 DEF Push
  <2>3. <<Dropped>> \in Seq(RawEvent) /\ Len(<<Dropped>>) = 1
    BY <1>2
  <2> HIDE DEF rest
  <2>4. <<Dropped>> \o rest \in Seq(RawEvent) /\ Len(<<Dropped>> \o rest) = 1 + Len(rest)
    BY SMTT(30), <2>1, <2>3
  <2>5. Len(rest) + 1 <= Capacity
    BY <2>1, <1>1
  <2>6. <<Dropped>> \o rest # <<>>
    BY <2>4, <2>1, <1>5, <1>1
  <2> QED
    BY <2>2, <2>4, <2>5, <2>6
<1> QED
  BY ZenonT(30), <1>3, <1>4, <1>5

\* EVIOCGKEY's flush leaves a well-formed queue that is no longer than it was.
LEMMA FlushFits ==
  ASSUME queue \in Seq(RawEvent), Len(queue) <= Capacity
  PROVE  Flushed \in Seq(RawEvent) /\ Len(Flushed) <= Capacity
<1> DEFINE a == IF queue # <<>> /\ Head(queue) = Dropped THEN <<Dropped>> ELSE <<>>
           b == IF \E i \in 1..Len(queue) : queue[i] = Syn THEN <<Syn>> ELSE <<>>
<1>1. Dropped \in RawEvent /\ Syn \in RawEvent
  BY ZenonT(30) DEF Dropped, Syn, RawEvent
<1>2. a \in Seq(RawEvent) /\ Len(a) <= 1
  BY <1>1
<1>3. b \in Seq(RawEvent) /\ Len(b) <= 1
  BY <1>1
<1>4. Flushed = a \o b
  BY ZenonT(30) DEF Flushed
<1> HIDE DEF a, b
<1>5. a \o b \in Seq(RawEvent) /\ Len(a \o b) = Len(a) + Len(b)
  BY <1>2, <1>3
<1> QED
  BY <1>2, <1>3, <1>4, <1>5

\* Reading the key state keeps the queue well formed, flush or no flush.
LEMMA QueueAfterLook ==
  ASSUME queue \in Seq(RawEvent), Len(queue) <= Capacity, GetKeyState
  PROVE  queue' \in Seq(RawEvent) /\ Len(queue') <= Capacity
BY ZenonT(30), FlushFits DEF GetKeyState

\* Taking the head off a batch keeps it a sequence of events.
LEMMA ProcessTypes ==
  ASSUME ProxyTypeOK, NEW event, Process(event)
  PROVE  /\ batch' \in Seq(RawEvent) /\ at = "active" /\ at' = "active"
         /\ pressed' = pressed /\ straddling' = straddling
BY DEF ProxyTypeOK, Process

\* The keyboard's own steps: a press others see before the grab is in the queue.
LEMMA KeyboardStep ==
  ASSUME ProxyInv, Keyboard
  PROVE  ProxyInv'
<1> USE DEF ProxyInv
<1>1. ASSUME NEW ks \in Packets, KeysMove(ks)
      PROVE  ProxyInv'
  <2> DEFINE transition(k) == <<IF k \in pressed THEN "up" ELSE "down", k>>
             moves == [i \in 1..Len(ks) |-> transition(ks[i])]
             down == Moved(ks) \ pressed
             up == Moved(ks) \cap pressed
  <2>1. ks \in Seq(Keys) /\ Len(ks) \in Nat /\ Len(ks) + 2 <= Capacity
    OBVIOUS
  <2>2. \A i \in 1..Len(ks) : ks[i] \in Keys /\ transition(ks[i]) \in RawEvent
    BY <2>1 DEF RawEvent
  <2>3. moves \in Seq(RawEvent) /\ Len(moves) = Len(ks)
    BY <2>1, <2>2
  <2>4. <<Syn>> \in Seq(RawEvent) /\ Len(<<Syn>>) = 1
    BY DEF Syn, RawEvent
  <2>5. queue' = Push(moves \o <<Syn>>)
    BY ZenonT(30), <1>1 DEF KeysMove
  <2>6. Moved(ks) \subseteq Keys
    BY <2>1 DEF Moved
  <2>7. /\ pressed' = (pressed \cup down) \ up
        /\ straddling' = IF Grabbed \/ at = "closed" THEN straddling
                         ELSE (straddling \cup down) \ up
        /\ UNCHANGED <<at, batch, keyState, frame, app>>
    BY ZenonT(30), <1>1 DEF KeysMove
  <2> HIDE DEF moves
  <2>8. /\ moves \o <<Syn>> \in Seq(RawEvent)
        /\ Len(moves \o <<Syn>>) = Len(ks) + 1
    BY <2>3, <2>4
  <2>9. /\ queue' \in Seq(RawEvent) /\ Len(queue') <= Capacity
        /\ at # "closed" => queue' # <<>>
    <3>1. Len(moves \o <<Syn>>) >= 1 /\ Len(moves \o <<Syn>>) < Capacity
      BY <2>1, <2>8
    <3>2. queue \in Seq(RawEvent) /\ Len(queue) <= Capacity
      BY ZenonT(30) DEF ProxyTypeOK
    <3> QED
      BY ZenonT(30), <2>5, <2>8, <3>1, <3>2, PushFits
  <2>10. at = "closed" => queue' = <<>>
    BY ZenonT(30), <2>5 DEF Push
  <2>11. ProxyTypeOK'
    BY ZenonT(30), <2>6, <2>7, <2>9 DEF ProxyTypeOK, keyState
  <2>12. FrameAgrees' /\ OneOwner'
    BY ZenonT(30), <2>7 DEF FrameAgrees, OneOwner, keyState, After
  <2>13. GrabRace'
    BY ZenonT(30), <2>7, <2>9 DEF GrabRace, Grabbed, ProxyTypeOK
  <2>14. IdleEmpty'
    BY ZenonT(30), <2>7, <2>10 DEF IdleEmpty, keyState
  <2> QED
    BY ZenonT(30), <2>11, <2>12, <2>13, <2>14
<1>2. ASSUME NEW k \in Keys, KeyRepeats(k)
      PROVE  ProxyInv'
  <2> DEFINE events == <<<<"repeat", k>>, Syn>>
  <2>1. events \in Seq(RawEvent) /\ Len(events) = 2
    BY DEF Syn, RawEvent
  <2>2. queue' = Push(events) /\ UNCHANGED <<pressed, straddling, at, batch, keyState, frame, app>>
    BY ZenonT(30), <1>2 DEF KeyRepeats
  <2> HIDE DEF events
  <2>3. /\ queue' \in Seq(RawEvent) /\ Len(queue') <= Capacity
        /\ at # "closed" => queue' # <<>>
    <3>1. Len(events) >= 1 /\ Len(events) < Capacity
      BY <2>1
    <3>2. queue \in Seq(RawEvent) /\ Len(queue) <= Capacity
      BY ZenonT(30) DEF ProxyTypeOK
    <3> QED
      BY ZenonT(30), <2>1, <2>2, <3>1, <3>2, PushFits
  <2>4. at = "closed" => queue' = <<>>
    BY ZenonT(30), <2>2 DEF Push
  <2>5. ProxyTypeOK'
    BY ZenonT(30), <2>2, <2>3 DEF ProxyTypeOK, keyState
  <2>6. FrameAgrees' /\ OneOwner'
    BY ZenonT(30), <2>2 DEF FrameAgrees, OneOwner, keyState, After
  <2>7. GrabRace' /\ IdleEmpty'
    BY ZenonT(30), <2>2, <2>3, <2>4 DEF GrabRace, IdleEmpty, keyState, ProxyTypeOK
  <2> QED
    BY ZenonT(30), <2>5, <2>6, <2>7
<1> QED
  BY ZenonT(30), <1>1, <1>2 DEF Keyboard

\* The steps of capture: check_post_grab lets no straddling press through.
LEMMA CaptureStep ==
  ASSUME ProxyInv, Capture
  PROVE  ProxyInv'
<1> USE DEF ProxyInv
<1>1. /\ at \in {"closed", "opened", "checked", "grabbed", "fetched"}
      /\ UNCHANGED <<pressed, batch, keyState, frame, app>>
      /\ at' \in Stages
    BY ZenonT(30) DEF Capture, Open, CheckBeforeGrab, Grab, FetchQueued, CheckAfterGrab, Advance, Stages
<1>2. queue' \in Seq(RawEvent) /\ Len(queue') <= Capacity
  BY ZenonT(30), QueueAfterLook
  DEF Capture, Open, CheckBeforeGrab, Grab, FetchQueued, CheckAfterGrab, ProxyTypeOK
<1>3. straddling' \subseteq Keys
  BY ZenonT(30) DEF Capture, Open, CheckBeforeGrab, Grab, FetchQueued, CheckAfterGrab, ProxyTypeOK
<1>4. ProxyTypeOK'
  BY ZenonT(30), <1>1, <1>2, <1>3 DEF ProxyTypeOK, keyState
<1>5. OneOwner' /\ IdleEmpty'
  BY ZenonT(30), <1>1 DEF OneOwner, IdleEmpty, keyState, Capture, Open, CheckBeforeGrab, Grab,
              FetchQueued, CheckAfterGrab, Advance
<1>6. FrameAgrees'
  BY ZenonT(30), <1>1 DEF FrameAgrees, IdleEmpty, keyState, After, NoFrame
<1>7. GrabRace'
  <2>1. CASE Open
    BY ZenonT(30), <2>1 DEF GrabRace, Open, Advance
  <2>2. CASE CheckBeforeGrab
    BY ZenonT(30), <2>2 DEF GrabRace, CheckBeforeGrab, Advance
  <2>3. CASE Grab
    BY ZenonT(30), <2>3 DEF GrabRace, Grab, Advance
  <2>4. CASE FetchQueued
    BY ZenonT(30), <2>4 DEF GrabRace, FetchQueued, Advance
  <2>5. CASE CheckAfterGrab
    BY ZenonT(30), <2>5 DEF GrabRace, CheckAfterGrab, Advance
  <2> QED
    BY ZenonT(30), <2>1, <2>2, <2>3, <2>4, <2>5 DEF Capture
<1> QED
  BY ZenonT(30), <1>4, <1>5, <1>6, <1>7

\* bypass releases all that applications hold, since they hold committed_output.
LEMMA BypassStep ==
  ASSUME ProxyInv, Bypass
  PROVE  ProxyInv'
<1> USE DEF ProxyInv
<1>1. queue' \in Seq(RawEvent) /\ Len(queue') <= Capacity /\ batch' \in Seq(RawEvent)
  BY DEF Bypass
<1>2. app' = {}
  BY ZenonT(30) DEF Bypass, FrameAgrees, ReleaseAll
<1>3. ProxyTypeOK'
  BY ZenonT(30), <1>1, <1>2 DEF ProxyTypeOK, Bypass, Stages, NoFrame
<1> QED
  BY ZenonT(30), <1>2, <1>3 DEF Bypass, FrameAgrees, OneOwner, GrabRace, IdleEmpty

\* A fetch moves events from the queue to the batch.
LEMMA ReadStep ==
  ASSUME ProxyInv, NEW n \in 1..Len(queue), ReadBatch(n)
  PROVE  ProxyInv'
<1> USE DEF ProxyInv
<1>1. queue \in Seq(RawEvent) /\ Len(queue) \in Nat /\ Len(queue) <= Capacity
  BY DEF ProxyTypeOK
<1>2. batch' \in Seq(RawEvent)
  BY <1>1 DEF ReadBatch
<1>3. queue' \in Seq(RawEvent) /\ Len(queue') <= Capacity
  BY <1>1 DEF ReadBatch
<1>4. at = "active" /\ UNCHANGED <<pressed, straddling, at, keyState, frame, app>>
  BY ZenonT(30) DEF ReadBatch
<1>5. ProxyTypeOK'
  BY ZenonT(30), <1>2, <1>3, <1>4 DEF ProxyTypeOK, keyState
<1> QED
  BY ZenonT(30), <1>4, <1>5 DEF FrameAgrees, OneOwner, GrabRace, IdleEmpty, keyState, After

\* A step of pump_inner on one event, for a key that moves or not: the frame and the
\* output change together, and so do the key's place in physical and its owner.
LEMMA EventStep ==
  ASSUME ProxyInv, NEW k \in Keys,
         \/ \E decision \in {"Pass", "Swallow"} : KeyDown(k, decision)
         \/ KeyUp(k) \/ KeyRepeat(k) \/ Ignore(k)
  PROVE  ProxyInv'
<1> USE DEF ProxyInv
<1>1. ASSUME NEW decision \in {"Pass", "Swallow"}, KeyDown(k, decision)
      PROVE  ProxyInv'
  <2>1. /\ batch' \in Seq(RawEvent) /\ at = "active" /\ at' = "active"
        /\ pressed' = pressed /\ straddling' = straddling
    BY ZenonT(30), <1>1, ProcessTypes DEF KeyDown
  <2>2. ProxyTypeOK'
    BY ZenonT(30), <1>1, <2>1 DEF ProxyTypeOK, KeyDown
  <2>3. FrameAgrees'
    BY ZenonT(30), <1>1, <2>1 DEF FrameAgrees, KeyDown, After, ProxyTypeOK
  <2>4. OneOwner'
    BY ZenonT(30), <1>1 DEF OneOwner, KeyDown
  <2> QED
    BY ZenonT(30), <2>1, <2>2, <2>3, <2>4 DEF GrabRace, IdleEmpty
<1>2. CASE KeyUp(k)
  <2>1. /\ batch' \in Seq(RawEvent) /\ at = "active" /\ at' = "active"
        /\ pressed' = pressed /\ straddling' = straddling
    BY ZenonT(30), <1>2, ProcessTypes DEF KeyUp, ReleaseOf
  <2>2. ProxyTypeOK'
    BY ZenonT(30), <1>2, <2>1 DEF ProxyTypeOK, KeyUp, ReleaseOf
  <2>3. FrameAgrees'
    BY ZenonT(30), <1>2, <2>1 DEF FrameAgrees, KeyUp, ReleaseOf, After, ProxyTypeOK
  <2>4. OneOwner'
    BY ZenonT(30), <1>2 DEF OneOwner, KeyUp, ReleaseOf
  <2> QED
    BY ZenonT(30), <2>1, <2>2, <2>3, <2>4 DEF GrabRace, IdleEmpty
<1>3. CASE KeyRepeat(k) \/ Ignore(k)
  <2>1. /\ batch' \in Seq(RawEvent) /\ at = "active" /\ at' = "active"
        /\ pressed' = pressed /\ straddling' = straddling
    BY ZenonT(30), <1>3, ProcessTypes DEF KeyRepeat, Ignore
  <2>2. UNCHANGED <<queue, keyState, frame, app>>
    BY ZenonT(30), <1>3 DEF KeyRepeat, Ignore
  <2>3. ProxyTypeOK'
    BY ZenonT(30), <2>1, <2>2 DEF ProxyTypeOK, keyState
  <2> QED
    BY ZenonT(30), <2>1, <2>2, <2>3 DEF FrameAgrees, OneOwner, GrabRace, IdleEmpty, keyState, After
<1> QED
  BY ZenonT(30), <1>1, <1>2, <1>3

\* The two ends of a frame and its loss: commit, rollback and resync keep the three
\* copies of the output state together.
LEMMA FrameStep ==
  ASSUME ProxyInv, EmitFrame \/ SynDropped \/ Resync
  PROVE  ProxyInv'
<1> USE DEF ProxyInv
<1>1. NoFrame \in [Keys -> {"none", "up", "down"}] /\ \A K : After(K, NoFrame) = K \cap Keys
  BY ZenonT(30) DEF NoFrame, After
<1>2. CASE EmitFrame
  <2>1. /\ batch' \in Seq(RawEvent) /\ at = "active" /\ at' = "active"
        /\ pressed' = pressed /\ straddling' = straddling
    BY ZenonT(30), <1>2, ProcessTypes DEF EmitFrame
  <2>2. app' = output
    BY ZenonT(30), <1>2, <2>1 DEF EmitFrame, FrameAgrees
  <2>3. ProxyTypeOK'
    BY ZenonT(30), <1>1, <1>2, <2>1, <2>2 DEF ProxyTypeOK, EmitFrame, Commit
  <2>4. FrameAgrees'
    <3>1. frame' = NoFrame /\ output' = output /\ committed_output' = output
      BY ZenonT(30), <1>2 DEF EmitFrame, Commit
    <3>2. After(committed_output, frame)' = output
      BY ZenonT(30), <1>1, <3>1 DEF After, ProxyTypeOK, NoFrame
    <3> QED
      BY ZenonT(30), <2>2, <3>1, <3>2 DEF FrameAgrees
  <2>5. OneOwner'
    BY ZenonT(30), <1>2 DEF OneOwner, EmitFrame
  <2> QED
    BY ZenonT(30), <2>1, <2>3, <2>4, <2>5 DEF GrabRace, IdleEmpty
<1>3. CASE SynDropped
  <2>1. /\ batch' \in Seq(RawEvent) /\ at = "active" /\ at' = "active"
        /\ pressed' = pressed /\ straddling' = straddling
    BY ZenonT(30), <1>3, ProcessTypes DEF SynDropped
  <2>2. /\ frame' = NoFrame /\ output' = committed_output
        /\ dropping' = TRUE /\ UNCHANGED <<queue, physical, committed_output, swallowed, app>>
    BY ZenonT(30), <1>3 DEF SynDropped, Rollback
  <2>3. ProxyTypeOK'
    BY ZenonT(30), <1>1, <2>1, <2>2 DEF ProxyTypeOK
  <2>4. After(committed_output, frame)' = committed_output
    BY ZenonT(30), <2>2 DEF After, ProxyTypeOK, NoFrame
  <2>5. FrameAgrees'
    BY ZenonT(30), <2>1, <2>2, <2>4 DEF FrameAgrees
  <2> QED
    BY ZenonT(30), <2>1, <2>2, <2>3, <2>5 DEF OneOwner, GrabRace, IdleEmpty
<1>4. CASE Resync
  <2>1. /\ batch' \in Seq(RawEvent) /\ at = "active" /\ at' = "active"
        /\ pressed' = pressed /\ straddling' = straddling
    BY ZenonT(30), <1>4, ProcessTypes DEF Resync
  <2>2. queue' \in Seq(RawEvent) /\ Len(queue') <= Capacity
    BY ZenonT(30), <1>4, QueueAfterLook DEF Resync, ProxyTypeOK
  <2>3. /\ physical' = pressed /\ swallowed' = swallowed \cap pressed
        /\ output' = (output \cap pressed) \cup (pressed \ swallowed)
        /\ committed_output' = (output \cap pressed) \cup (pressed \ swallowed)
        /\ app' = (app \ (output \ pressed)) \cup ((output \cap pressed) \cup (pressed \ swallowed))
        /\ dropping' = FALSE /\ frame' = NoFrame
    BY ZenonT(30), <1>4 DEF Resync, ResyncOutput
  <2>4. ProxyTypeOK'
    BY ZenonT(30), <1>1, <2>1, <2>2, <2>3 DEF ProxyTypeOK
  <2>5. After(committed_output, frame)' = committed_output'
    BY ZenonT(30), <2>3 DEF After, ProxyTypeOK, NoFrame
  <2>6. app' = output'
    <3>1. dropping /\ frame = NoFrame /\ app = committed_output
      BY ZenonT(30), <1>4, <2>1 DEF FrameAgrees, Resync
    <3>2. output = After(committed_output, NoFrame) /\ committed_output \subseteq Keys
      BY ZenonT(30), <2>1, <3>1 DEF FrameAgrees, ProxyTypeOK
    <3>3. output = committed_output
      BY ZenonT(30), <3>2 DEF After, NoFrame
    <3> QED
      BY ZenonT(30), <2>3, <3>1, <3>3
  <2>7. OneOwner'
    BY ZenonT(30), <2>3 DEF OneOwner
  <2> QED
    BY ZenonT(30), <2>1, <2>3, <2>4, <2>5, <2>6, <2>7 DEF FrameAgrees, GrabRace, IdleEmpty
<1> QED
  BY ZenonT(30), <1>2, <1>3, <1>4

\* ProxyInv is inductive.
THEOREM ProxyInductive == ProxySpec => []ProxyInv
<1>1. ProxyInit => ProxyInv
  <2> SUFFICES ASSUME ProxyInit PROVE ProxyInv
    OBVIOUS
  <2>1. queue \in Seq(RawEvent) /\ Len(queue) <= Capacity /\ batch \in Seq(RawEvent)
    BY DEF ProxyInit
  <2>2. ProxyTypeOK
    BY ZenonT(30), <2>1 DEF ProxyInit, ProxyTypeOK, Stages, NoFrame
  <2> QED
    BY ZenonT(30), <2>2 DEF ProxyInit, ProxyInv, FrameAgrees, OneOwner, GrabRace, IdleEmpty
<1>2. ProxyInv /\ [ProxyNext]_proxyVars => ProxyInv'
  <2> SUFFICES ASSUME ProxyInv, [ProxyNext]_proxyVars
               PROVE  ProxyInv'
    OBVIOUS
  <2>1. CASE Keyboard
    BY ZenonT(30), <2>1, KeyboardStep
  <2>2. CASE Capture
    BY ZenonT(30), <2>2, CaptureStep
  <2>3. CASE Bypass
    BY ZenonT(30), <2>3, BypassStep
  <2>4. CASE Pump
    <3>1. CASE \E n \in 1..Len(queue) : ReadBatch(n)
      BY ZenonT(30), <3>1, ReadStep
    <3>2. CASE \E k \in Keys : \/ \E decision \in {"Pass", "Swallow"} : KeyDown(k, decision)
                              \/ KeyUp(k) \/ KeyRepeat(k) \/ Ignore(k)
      <4>1. PICK k \in Keys : \/ \E decision \in {"Pass", "Swallow"} : KeyDown(k, decision)
                              \/ KeyUp(k) \/ KeyRepeat(k) \/ Ignore(k)
        BY ZenonT(30), <3>2
      <4> QED
        BY ZenonT(30), <4>1, EventStep
    <3>3. CASE EmitFrame \/ SynDropped \/ Resync
      BY ZenonT(30), <3>3, FrameStep
    <3> QED
      BY ZenonT(30), <2>4, <3>1, <3>2, <3>3 DEF Pump
  <2>5. CASE UNCHANGED proxyVars
    BY ZenonT(30), <2>5 DEF proxyVars, keyState, ProxyInv, ProxyTypeOK, FrameAgrees, After, OneOwner,
                GrabRace, IdleEmpty
  <2> QED
    BY <2>1, <2>2, <2>3, <2>4, <2>5 DEF ProxyNext
<1> QED
  BY <1>1, <1>2, PTL DEF ProxySpec

\* The variables keep their types and the evdev queue its capacity.
THEOREM ProxyTypeCorrect == ProxySpec => []ProxyTypeOK
<1>1. ProxyInv => ProxyTypeOK
  BY DEF ProxyInv
<1> QED
  BY <1>1, ProxyInductive, PTL

\* output, committed_output and the pending frame never drift from what
\* applications hold, for any keys, packets and decisions of the client.
THEOREM OutputStateAgrees == ProxySpec => []FrameAgrees
<1>1. ProxyInv => FrameAgrees
  BY DEF ProxyInv
<1> QED
  BY <1>1, ProxyInductive, PTL

\* Every held key has an owner, and owners do not outlive their presses.
THEOREM EveryPressOwned == ProxySpec => []OneOwner
<1>1. ProxyInv => OneOwner
  BY DEF ProxyInv
<1> QED
  BY <1>1, ProxyInductive, PTL

\* However and whenever capture ends, applications are left holding no key.
THEOREM ReleasedOnBypass == ProxySpec => []NothingHeld
<1>1. ProxyInv => NothingHeld
  BY DEF ProxyInv, IdleEmpty, NothingHeld
<1> QED
  BY <1>1, ProxyInductive, PTL

\* No press straddles a successful grab, whatever the keyboard does meanwhile.
THEOREM GrabBetweenPresses == ProxySpec => []GrabClean
<1>1. ProxyInv => GrabClean
  BY DEF ProxyInv, GrabRace, GrabClean
<1> QED
  BY <1>1, ProxyInductive, PTL

-----------------------------------------------------------------------------
(* What the broker has still to read tells the state of the keyboard.      *)

\* v is u without its first event.
Shifted(u, v) ==
  /\ v \in Seq(RawEvent) /\ u \in Seq(RawEvent) /\ Len(u) = Len(v) + 1
  /\ \A i \in 1..Len(v) : v[i] = u[i + 1]

\* v is u with the events e after it.
Extended(u, e, v) ==
  /\ v \in Seq(RawEvent) /\ u \in Seq(RawEvent) /\ e \in Seq(RawEvent) /\ Len(v) = Len(u) + Len(e)
  /\ \A i \in 1..Len(u) : v[i] = u[i]
  /\ \A i \in 1..Len(e) : v[Len(u) + i] = e[i]

\* v is the first c events of u, a loss, and the events e but their first f.
Overflowed(u, c, e, f, v) ==
  /\ v \in Seq(RawEvent) /\ u \in Seq(RawEvent) /\ e \in Seq(RawEvent)
  /\ c \in 0..Len(u) /\ f \in 0..(Len(e) - 1) /\ Len(v) = c + 1 + (Len(e) - f)
  /\ \A i \in 1..c : v[i] = u[i]
  /\ v[c + 1] = Dropped
  /\ \A i \in 1..(Len(e) - f) : v[c + 1 + i] = e[f + i]

\* The events of two sequences, one after the other, by position.
LEMMA ConcatExtends ==
  ASSUME NEW s \in Seq(RawEvent), NEW t \in Seq(RawEvent)
  PROVE  Extended(s, t, s \o t)
<1>1. s \o t \in Seq(RawEvent) /\ Len(s \o t) = Len(s) + Len(t)
  BY SMTT(30)
<1>2. \A i \in 1..Len(s) : (s \o t)[i] = s[i]
  BY SMTT(30)
<1>3. \A i \in 1..Len(t) : (s \o t)[Len(s) + i] = t[i]
  BY SMTT(30)
<1> QED
  BY ZenonT(30), <1>1, <1>2, <1>3 DEF Extended

\* Sequences with the same events are the same.
LEMMA SameEvents ==
  ASSUME NEW s \in Seq(RawEvent), NEW t \in Seq(RawEvent), Len(s) = Len(t),
         \A i \in 1..Len(s) : s[i] = t[i]
  PROVE  s = t
<1>1. s \in [1..Len(s) -> RawEvent] /\ t \in [1..Len(s) -> RawEvent]
  BY SMTT(30)
<1>2. s = [i \in 1..Len(s) |-> s[i]] /\ t = [i \in 1..Len(s) |-> t[i]]
  BY ZenonT(30), <1>1
<1>3. [i \in 1..Len(s) |-> s[i]] = [i \in 1..Len(s) |-> t[i]]
  BY ZenonT(30)
<1> QED
  BY ZenonT(30), <1>2, <1>3

\* A processed event is the first of the unread ones.
LEMMA ProcessShifts ==
  ASSUME ProxyTypeOK, NEW event, Process(event), queue' = queue
  PROVE  Shifted(Unread, Unread') /\ Unread[1] = event
<1>1. batch \in Seq(RawEvent) /\ queue \in Seq(RawEvent) /\ batch # <<>>
  BY ZenonT(30) DEF ProxyTypeOK, Process
<1>2. batch' = Tail(batch) /\ Head(batch) = event
  BY ZenonT(30) DEF Process
<1> DEFINE rest == Tail(batch)
<1>3. /\ rest \in Seq(RawEvent) /\ Len(batch) = Len(rest) + 1 /\ batch[1] = event
      /\ \A i \in 1..Len(rest) : rest[i] = batch[i + 1]
  BY SMTT(30), <1>1, <1>2
<1>4. Unread' = rest \o queue
  BY ZenonT(30), <1>2 DEF Unread
<1> HIDE DEF rest
<1> QED
  BY SMTT(30), <1>1, <1>3, <1>4 DEF Shifted, Unread

\* A fetch changes nothing of what is left to process.
LEMMA ReadKeepsUnread ==
  ASSUME ProxyTypeOK, NEW n \in 1..Len(queue), ReadBatch(n)
  PROVE  Unread' = Unread
<1>1. queue \in Seq(RawEvent) /\ batch = <<>> /\ batch' = SubSeq(queue, 1, n)
  BY ZenonT(30) DEF ProxyTypeOK, ReadBatch
<1>2. queue' = SubSeq(queue, n + 1, Len(queue))
  BY ZenonT(30) DEF ReadBatch
<1> DEFINE p == SubSeq(queue, 1, n)
           q == SubSeq(queue, n + 1, Len(queue))
<1>3. /\ p \in Seq(RawEvent) /\ Len(p) = n /\ \A i \in 1..n : p[i] = queue[i]
  BY SMTT(30), <1>1
<1>4. /\ q \in Seq(RawEvent) /\ Len(q) = Len(queue) - n
      /\ \A i \in 1..(Len(queue) - n) : q[i] = queue[n + i]
  BY SMTT(30), <1>1
<1>5. Unread = queue
  BY SMTT(30), <1>1 DEF Unread
<1>6. Unread' = p \o q
  BY ZenonT(30), <1>1, <1>2 DEF Unread
<1> HIDE DEF p, q
<1>7. Extended(p, q, p \o q)
  BY ZenonT(30), <1>3, <1>4, ConcatExtends
<1>8. p \o q \in Seq(RawEvent) /\ Len(p \o q) = Len(queue)
  BY SMTT(30), <1>1, <1>3, <1>4, <1>7 DEF Extended
<1>9. \A i \in 1..Len(queue) : (p \o q)[i] = queue[i]
  <2> SUFFICES ASSUME NEW i \in 1..Len(queue) PROVE (p \o q)[i] = queue[i]
    BY ZenonT(30)
  <2>1. CASE i <= n
    BY SMTT(30), <2>1, <1>1, <1>3, <1>7 DEF Extended
  <2>2. CASE ~(i <= n)
    <3>1. i - n \in 1..(Len(queue) - n) /\ n + (i - n) = i
      BY SMTT(30), <2>2, <1>1
    <3>2. (p \o q)[Len(p) + (i - n)] = q[i - n] /\ q[i - n] = queue[n + (i - n)]
      BY ZenonT(30), <1>3, <1>4, <1>7, <3>1 DEF Extended
    <3> QED
      BY ZenonT(30), <3>1, <3>2, <1>3
  <2> QED
    BY ZenonT(30), <2>1, <2>2
<1>10. p \o q = queue
  BY ZenonT(30), <1>1, <1>8, <1>9, SameEvents
<1> QED
  BY ZenonT(30), <1>5, <1>6, <1>10

\* A packet of the keyboard, whose keys were held and are now held2: it ends with a
\* report, reports no loss, and moves each key at most one way.
Packet(e, held, held2) ==
  /\ e \in Seq(RawEvent) /\ Len(e) >= 1 /\ e[Len(e)] = Syn
  /\ \A i \in 1..Len(e) : e[i] # Dropped
  /\ \A k \in Keys, i \in 1..Len(e) : Transition(e[i], k) => (e[i] = <<"down", k>> <=> k \in held2)
  /\ \A k \in Keys : (\A i \in 1..Len(e) : ~Transition(e[i], k)) => (k \in held <=> k \in held2)

\* Kinds of events do not mix.
LEMMA Kinds ==
  ASSUME NEW k \in Keys
  PROVE  /\ ~Transition(Syn, k) /\ ~Transition(Dropped, k) /\ Syn # Dropped
         /\ <<"up", k>> \notin {Syn, Dropped} /\ <<"down", k>> \notin {Syn, Dropped}
         /\ <<"repeat", k>> \notin {Syn, Dropped}
         /\ <<"up", k>> # <<"down", k>>
         /\ Transition(<<"up", k>>, k) /\ Transition(<<"down", k>>, k)
         /\ \A l : /\ Transition(<<"up", k>>, l) => l = k
                   /\ Transition(<<"down", k>>, l) => l = k
                   /\ ~Transition(<<"repeat", k>>, l)
BY SMTT(30) DEF Transition, Syn, Dropped

\* Unless it overflows the queue, a packet leaves the events telling the keyboard's state.
LEMMA PacketExtends ==
  ASSUME NEW u, NEW e, NEW v, NEW held, NEW held2, NEW f, NEW known,
         Packet(e, held, held2), Extended(u, e, v),
         LastTells(u, held), FramesApart(u, f), EndsInReport(u, f), f \in [Keys -> {"none", "up", "down"}]
  PROVE  /\ LastTells(v, held2) /\ FramesApart(v, f) /\ EndsInReport(v, f)
         /\ KnownElsewhere(u, known, held) => KnownElsewhere(v, known, held2)
<1>1. u \in Seq(RawEvent) /\ v \in Seq(RawEvent) /\ e \in Seq(RawEvent) /\ Len(e) >= 1
  BY ZenonT(30) DEF Extended, Packet
<1>2. /\ Len(u) \in Nat /\ Len(e) \in Nat /\ Len(v) \in Nat
      /\ Len(v) = Len(u) + Len(e)
  BY SMTT(30), <1>1 DEF Extended
<1>3. \A i \in 1..Len(v) : \/ i \in 1..Len(u) /\ v[i] = u[i]
                           \/ \E m \in 1..Len(e) : i = Len(u) + m /\ v[i] = e[m]
  <2> TAKE i \in 1..Len(v)
  <2>1. CASE i <= Len(u)
    BY SMTT(30), <2>1, <1>2 DEF Extended
  <2>2. CASE ~(i <= Len(u))
    <3>1. i - Len(u) \in 1..Len(e) /\ i = Len(u) + (i - Len(u))
      BY SMTT(30), <2>2, <1>2
    <3> QED
      BY ZenonT(30), <3>1 DEF Extended
  <2> QED
    BY ZenonT(30), <2>1, <2>2
<1>4. /\ \A i \in 1..Len(u) : i \in 1..Len(v) /\ v[i] = u[i]
      /\ \A m \in 1..Len(e) : Len(u) + m \in 1..Len(v) /\ v[Len(u) + m] = e[m]
  BY SMTT(30), <1>2 DEF Extended
<1>5. \A i \in 1..Len(u), m \in 1..Len(e) : Len(u) + m > i /\ i < Len(u) + m
  BY SMTT(30), <1>2
<1>6. LastTells(v, held2)
  <2> SUFFICES ASSUME NEW k \in Keys, NEW i \in 1..Len(v), Transition(v[i], k),
                      \A j \in 1..Len(v) : j > i => ~Transition(v[j], k) /\ v[j] # Dropped
               PROVE  v[i] = <<"down", k>> <=> k \in held2
    BY ZenonT(30) DEF LastTells
  <2>1. CASE i \in 1..Len(u) /\ v[i] = u[i]
    <3>1. \A j \in 1..Len(u) : j > i => ~Transition(u[j], k) /\ u[j] # Dropped
      BY ZenonT(30), <1>4
    <3>2. u[i] = <<"down", k>> <=> k \in held
      BY ZenonT(30), <2>1, <3>1 DEF LastTells
    <3>3. \A m \in 1..Len(e) : ~Transition(e[m], k)
      BY ZenonT(30), <2>1, <1>4, <1>5
    <3> QED
      BY ZenonT(30), <2>1, <3>2, <3>3 DEF Packet
  <2>2. CASE \E m \in 1..Len(e) : i = Len(u) + m /\ v[i] = e[m]
    BY ZenonT(30), <2>2 DEF Packet
  <2> QED
    BY ZenonT(30), <1>3, <2>1, <2>2
<1>7. u # <<>> => Len(u) \in 1..Len(u) /\ u[Len(u)] = Syn
  <2>1. u # <<>> => Len(u) \in 1..Len(u)
    BY SMTT(30), <1>1
  <2> QED
    BY ZenonT(30), <2>1 DEF EndsInReport
<1>8. EndsInReport(v, f)
  <2>1. Len(e) \in 1..Len(e) /\ e[Len(e)] = Syn
    BY SMTT(30), <1>2 DEF Packet
  <2>2. v # <<>>
    BY SMTT(30), <1>1, <1>2
  <2> QED
    BY ZenonT(30), <2>1, <2>2, <1>2, <1>4 DEF EndsInReport
<1>9. ASSUME NEW k \in Keys, NEW j \in 1..Len(v), v[j] = <<"down", k>>, f[k] = "up"
      PROVE  \E m \in 1..Len(v) : m < j /\ v[m] \in {Syn, Dropped}
  <2>1. CASE j \in 1..Len(u) /\ v[j] = u[j]
    <3>1. u[j] = <<"down", k>>
      BY ZenonT(30), <1>9, <2>1
    <3>2. PICK m \in 1..Len(u) : m < j /\ u[m] \in {Syn, Dropped}
      BY ZenonT(30), <3>1, <1>9, <2>1 DEF FramesApart
    <3>3. m \in 1..Len(v) /\ v[m] \in {Syn, Dropped}
      BY ZenonT(30), <1>4, <3>2
    <3> QED
      BY ZenonT(30), <3>2, <3>3
  <2>2. CASE \E m \in 1..Len(e) : j = Len(u) + m /\ v[j] = e[m]
    <3>1. f # NoFrame
      BY ZenonT(30), <1>9 DEF NoFrame
    <3>2. Len(u) \in 1..Len(u) /\ u[Len(u)] = Syn
      BY ZenonT(30), <3>1, <1>7 DEF EndsInReport
    <3>3. Len(u) < j
      BY ZenonT(30), <2>2, <3>2, <1>5
    <3>4. Len(u) \in 1..Len(v) /\ v[Len(u)] = Syn
      BY ZenonT(30), <3>2, <1>4
    <3> QED
      BY ZenonT(30), <3>3, <3>4
  <2> QED
    BY ZenonT(30), <1>3, <2>1, <2>2
<1>10. ASSUME NEW k \in Keys, NEW i \in 1..Len(v), NEW j \in 1..Len(v), i < j,
              v[i] = <<"up", k>>, v[j] = <<"down", k>>
       PROVE  \E m \in 1..Len(v) : i < m /\ m < j /\ v[m] \in {Syn, Dropped}
  <2>1. CASE j \in 1..Len(u) /\ v[j] = u[j]
    <3>1. i \in 1..Len(u)
      BY SMTT(30), <2>1, <1>2, <1>10
    <3>2. u[i] = <<"up", k>> /\ u[j] = <<"down", k>>
      BY ZenonT(30), <3>1, <2>1, <1>4, <1>10
    <3>3. PICK m \in 1..Len(u) : i < m /\ m < j /\ u[m] \in {Syn, Dropped}
      BY ZenonT(30), <3>1, <3>2, <1>10, <2>1 DEF FramesApart
    <3>4. m \in 1..Len(v) /\ v[m] \in {Syn, Dropped}
      BY ZenonT(30), <1>4, <3>3
    <3> QED
      BY ZenonT(30), <3>3, <3>4
  <2>2. CASE i \in 1..Len(u) /\ v[i] = u[i] /\ \E m \in 1..Len(e) : j = Len(u) + m /\ v[j] = e[m]
    <3>1. u # <<>> /\ i # Len(u)
      <4>1. u # <<>>
        BY SMTT(30), <2>2, <1>1
      <4> QED
        BY ZenonT(30), <4>1, <1>7, <2>2, <1>10, Kinds
    <3>2. i < Len(u)
      BY SMTT(30), <3>1, <2>2, <1>2
    <3>3. Len(u) \in 1..Len(u) /\ u[Len(u)] = Syn
      BY ZenonT(30), <3>1, <1>7
    <3>4. Len(u) < j
      BY ZenonT(30), <3>3, <2>2, <1>5
    <3>5. Len(u) \in 1..Len(v) /\ v[Len(u)] = Syn
      BY ZenonT(30), <3>3, <1>4
    <3> QED
      BY ZenonT(30), <3>2, <3>4, <3>5
  <2>3. ~ ((\E m \in 1..Len(e) : i = Len(u) + m /\ v[i] = e[m])
           /\ (\E m \in 1..Len(e) : j = Len(u) + m /\ v[j] = e[m]))
    <3>1. <<"up", k>> # <<"down", k>> /\ Transition(<<"up", k>>, k) /\ Transition(<<"down", k>>, k)
      BY ZenonT(30), Kinds
    <3>2. Transition(v[i], k) /\ Transition(v[j], k)
      BY ZenonT(30), <1>10, <3>1
    <3> QED
      BY ZenonT(30), <1>10, <3>1, <3>2 DEF Packet
  <2> QED
    BY ZenonT(30), <1>3, <2>1, <2>2, <2>3
<1>11. FramesApart(v, f)
  BY ZenonT(30), <1>9, <1>10 DEF FramesApart
<1>12. KnownElsewhere(u, known, held) => KnownElsewhere(v, known, held2)
  BY ZenonT(30), <1>4 DEF KnownElsewhere, Packet
<1> QED
  BY ZenonT(30), <1>6, <1>8, <1>11, <1>12

\* A packet that overflows the queue leaves a loss in front of what it adds.
LEMMA PacketOverflows ==
  ASSUME NEW u, NEW c, NEW e, NEW n, NEW v, NEW held, NEW held2, NEW f, NEW known,
         Packet(e, held, held2), Overflowed(u, c, e, n, v), FramesApart(u, f)
  PROVE  /\ LastTells(v, held2) /\ FramesApart(v, f) /\ EndsInReport(v, f)
         /\ KnownElsewhere(v, known, held2)
<1>1. /\ u \in Seq(RawEvent) /\ v \in Seq(RawEvent) /\ e \in Seq(RawEvent) /\ Len(e) >= 1
      /\ c \in 0..Len(u) /\ n \in 0..(Len(e) - 1) /\ Len(v) = c + 1 + (Len(e) - n)
      /\ v[c + 1] = Dropped
  BY ZenonT(30) DEF Overflowed, Packet
<1>2. /\ Len(u) \in Nat /\ Len(e) \in Nat /\ Len(v) \in Nat /\ c \in Nat /\ n \in Nat
      /\ c + 1 \in 1..Len(v)
  BY SMTT(30), <1>1
<1>3. \A i \in 1..Len(v) : \/ i \in 1..c /\ v[i] = u[i]
                           \/ i = c + 1
                           \/ i > c + 1 /\ \E m \in 1..Len(e) : v[i] = e[m]
  <2> TAKE i \in 1..Len(v)
  <2>1. i \in 1..c \/ i = c + 1 \/ i > c + 1
    BY SMTT(30), <1>2
  <2>2. CASE i \in 1..c
    BY ZenonT(30), <2>2 DEF Overflowed
  <2>3. CASE i > c + 1
    <3>1. /\ i - (c + 1) \in 1..(Len(e) - n) /\ c + 1 + (i - (c + 1)) = i
          /\ n + (i - (c + 1)) \in 1..Len(e)
      BY SMTT(30), <2>3, <1>1, <1>2
    <3>2. v[c + 1 + (i - (c + 1))] = e[n + (i - (c + 1))]
      BY ZenonT(30), <3>1 DEF Overflowed
    <3> QED
      BY ZenonT(30), <3>1, <3>2, <2>3
  <2> QED
    BY ZenonT(30), <2>1, <2>2, <2>3
<1>4. \A i \in 1..c : i \in 1..Len(u) /\ i \in 1..Len(v) /\ v[i] = u[i] /\ i < c + 1 /\ c + 1 > i
  <2>1. \A i \in 1..c : i \in 1..Len(u) /\ i \in 1..Len(v) /\ i < c + 1 /\ c + 1 > i
    BY SMTT(30), <1>1, <1>2
  <2> QED
    BY ZenonT(30), <2>1 DEF Overflowed
<1>5. LastTells(v, held2)
  <2> SUFFICES ASSUME NEW k \in Keys, NEW i \in 1..Len(v), Transition(v[i], k),
                      \A j \in 1..Len(v) : j > i => ~Transition(v[j], k) /\ v[j] # Dropped
               PROVE  v[i] = <<"down", k>> <=> k \in held2
    BY ZenonT(30) DEF LastTells
  <2>1. i \notin 1..c
    BY ZenonT(30), <1>1, <1>2, <1>4
  <2>2. i # c + 1
    BY ZenonT(30), <1>1, Kinds
  <2> QED
    BY ZenonT(30), <1>3, <2>1, <2>2 DEF Packet
<1>6. EndsInReport(v, f)
  <2>1. Len(e) - n \in 1..(Len(e) - n) /\ c + 1 + (Len(e) - n) = Len(v) /\ n + (Len(e) - n) = Len(e)
    BY SMTT(30), <1>1, <1>2
  <2>2. v # <<>>
    BY SMTT(30), <1>1, <1>2
  <2>3. v[c + 1 + (Len(e) - n)] = e[n + (Len(e) - n)]
    BY ZenonT(30), <2>1 DEF Overflowed
  <2> QED
    BY ZenonT(30), <2>1, <2>2, <2>3 DEF EndsInReport, Packet
<1>7. \A j \in 1..Len(v) : j > c + 1 => c + 1 < j
  BY SMTT(30), <1>2
<1>8. ASSUME NEW k \in Keys, NEW j \in 1..Len(v), v[j] = <<"down", k>>, f[k] = "up"
      PROVE  \E m \in 1..Len(v) : m < j /\ v[m] \in {Syn, Dropped}
  <2>1. CASE j \in 1..c
    <3>1. u[j] = <<"down", k>> /\ j \in 1..Len(u)
      BY ZenonT(30), <1>4, <1>8, <2>1
    <3>2. PICK m \in 1..Len(u) : m < j /\ u[m] \in {Syn, Dropped}
      BY ZenonT(30), <3>1, <1>8 DEF FramesApart
    <3>3. m \in 1..c
      BY SMTT(30), <1>2, <2>1, <3>2
    <3> QED
      BY ZenonT(30), <1>4, <3>2, <3>3
  <2>2. CASE j > c + 1
    BY ZenonT(30), <2>2, <1>1, <1>2, <1>7
  <2>3. j # c + 1
    BY ZenonT(30), <1>1, <1>8, Kinds
  <2> QED
    BY ZenonT(30), <1>3, <2>1, <2>2, <2>3
<1>9. ASSUME NEW k \in Keys, NEW i \in 1..Len(v), NEW j \in 1..Len(v), i < j,
              v[i] = <<"up", k>>, v[j] = <<"down", k>>
       PROVE  \E m \in 1..Len(v) : i < m /\ m < j /\ v[m] \in {Syn, Dropped}
  <2>1. i # c + 1 /\ j # c + 1
    BY ZenonT(30), <1>1, <1>9, Kinds
  <2>2. CASE j \in 1..c
    <3>1. i \in 1..c
      BY SMTT(30), <2>2, <1>2, <1>9
    <3>2. u[i] = <<"up", k>> /\ u[j] = <<"down", k>> /\ i \in 1..Len(u) /\ j \in 1..Len(u)
      BY ZenonT(30), <3>1, <2>2, <1>4, <1>9
    <3>3. PICK m \in 1..Len(u) : i < m /\ m < j /\ u[m] \in {Syn, Dropped}
      BY ZenonT(30), <3>1, <3>2, <1>9 DEF FramesApart
    <3>4. m \in 1..c
      BY SMTT(30), <1>2, <2>2, <3>3
    <3> QED
      BY ZenonT(30), <1>4, <3>3, <3>4
  <2>3. CASE i \in 1..c /\ j > c + 1
    BY ZenonT(30), <2>3, <1>1, <1>2, <1>4, <1>7
  <2>4. ~ ((\E m \in 1..Len(e) : v[i] = e[m]) /\ (\E m \in 1..Len(e) : v[j] = e[m]))
    <3>1. <<"up", k>> # <<"down", k>> /\ Transition(v[i], k) /\ Transition(v[j], k)
      BY ZenonT(30), <1>9, Kinds
    <3> QED
      BY ZenonT(30), <1>9, <3>1 DEF Packet
  <2> QED
    BY ZenonT(30), <1>3, <2>1, <2>2, <2>3, <2>4
<1>10. FramesApart(v, f)
  BY ZenonT(30), <1>8, <1>9 DEF FramesApart
<1>11. KnownElsewhere(v, known, held2)
  BY ZenonT(30), <1>1, <1>2 DEF KnownElsewhere
<1> QED
  BY ZenonT(30), <1>5, <1>6, <1>10, <1>11

\* What a packet makes of the unread events, overflow or not.
LEMMA PushUnread ==
  ASSUME ProxyTypeOK, at # "closed", NEW e \in Seq(RawEvent), Len(e) >= 1, Len(e) < Capacity,
         queue' = Push(e), batch' = batch
  PROVE  \/ Extended(Unread, e, Unread')
         \/ \E c, n : Overflowed(Unread, c, e, n, Unread')
<1> DEFINE free == Capacity - Len(queue)
<1>1. batch \in Seq(RawEvent) /\ queue \in Seq(RawEvent) /\ Len(queue) <= Capacity
  BY ZenonT(30) DEF ProxyTypeOK
<1>2. Len(queue) \in Nat /\ Len(e) \in Nat /\ Len(batch) \in Nat /\ free \in Nat
  BY SMTT(30), <1>1
<1>3. Unread' = batch \o queue'
  BY ZenonT(30) DEF Unread
<1>4. Extended(batch, queue, Unread)
  BY ZenonT(30), <1>1, ConcatExtends DEF Unread
<1>5. CASE Len(e) <= free
  <2>1. queue' = queue \o e
    BY ZenonT(30), <1>5 DEF Push
  <2>2. Extended(queue, e, queue')
    BY ZenonT(30), <1>1, <2>1, ConcatExtends
  <2>3. Extended(batch, queue', Unread')
    <3>1. queue' \in Seq(RawEvent)
      BY ZenonT(30), <2>2 DEF Extended
    <3> QED
      BY ZenonT(30), <1>1, <1>3, <3>1, ConcatExtends
  <2>4. Unread' \in Seq(RawEvent) /\ Unread \in Seq(RawEvent) /\ Len(Unread') = Len(Unread) + Len(e)
    BY SMTT(30), <1>2, <1>4, <2>2, <2>3 DEF Extended
  <2>5. \A i \in 1..Len(Unread) : Unread'[i] = Unread[i]
    <3> TAKE i \in 1..Len(Unread)
    <3>1. CASE i <= Len(batch)
      BY SMTT(30), <3>1, <1>2, <1>4, <2>3 DEF Extended
    <3>2. CASE ~(i <= Len(batch))
      <4>1. /\ i - Len(batch) \in 1..Len(queue) /\ i - Len(batch) \in 1..Len(queue')
            /\ Len(batch) + (i - Len(batch)) = i
        BY SMTT(30), <3>2, <1>2, <1>4, <2>2 DEF Extended
      <4>2. /\ Unread[Len(batch) + (i - Len(batch))] = queue[i - Len(batch)]
            /\ Unread'[Len(batch) + (i - Len(batch))] = queue'[i - Len(batch)]
            /\ queue'[i - Len(batch)] = queue[i - Len(batch)]
        BY ZenonT(30), <4>1, <1>4, <2>2, <2>3 DEF Extended
      <4> QED
        BY ZenonT(30), <4>1, <4>2
    <3> QED
      BY ZenonT(30), <3>1, <3>2
  <2>6. \A i \in 1..Len(e) : Unread'[Len(Unread) + i] = e[i]
    <3> TAKE i \in 1..Len(e)
    <3>1. /\ Len(queue) + i \in 1..Len(queue') /\ Len(Unread) + i = Len(batch) + (Len(queue) + i)
      BY SMTT(30), <1>2, <1>4, <2>2 DEF Extended
    <3>2. Unread'[Len(batch) + (Len(queue) + i)] = queue'[Len(queue) + i] /\ queue'[Len(queue) + i] = e[i]
      BY ZenonT(30), <3>1, <2>2, <2>3 DEF Extended
    <3> QED
      BY ZenonT(30), <3>1, <3>2
  <2> QED
    BY ZenonT(30), <2>4, <2>5, <2>6 DEF Extended
<1>6. CASE ~(Len(e) <= free)
  <2> DEFINE rest == SubSeq(e, free + 1, Len(e))
             tail == <<Dropped>> \o rest
  <2>1. /\ rest \in Seq(RawEvent) /\ Len(rest) = Len(e) - free
        /\ \A i \in 1..(Len(e) - free) : rest[i] = e[free + i]
    BY SMTT(30), <1>2, <1>6
  <2>2. queue' = tail
    BY ZenonT(30), <1>6 DEF Push
  <2>3. <<Dropped>> \in Seq(RawEvent) /\ Len(<<Dropped>>) = 1 /\ <<Dropped>>[1] = Dropped
    <3>1. Dropped \in RawEvent
      BY ZenonT(30) DEF Dropped, RawEvent
    <3> QED
      BY SMTT(30), <3>1
  <2> HIDE DEF rest
  <2>4. Extended(<<Dropped>>, rest, tail)
    BY ZenonT(30), <2>1, <2>3, ConcatExtends
  <2> HIDE DEF tail
  <2>5. Extended(batch, tail, Unread')
    <3>1. tail \in Seq(RawEvent)
      BY ZenonT(30), <2>4 DEF Extended
    <3> QED
      BY ZenonT(30), <1>1, <1>3, <2>2, <3>1, ConcatExtends
  <2>6. /\ tail \in Seq(RawEvent) /\ Len(tail) = 1 + (Len(e) - free) /\ tail[1] = Dropped
        /\ \A i \in 1..(Len(e) - free) : tail[1 + i] = rest[i]
    <3>1. 1 \in 1..1
      BY SMTT(30)
    <3> QED
      BY ZenonT(30), <3>1, <2>1, <2>3, <2>4 DEF Extended
  <2>7. /\ Unread \in Seq(RawEvent) /\ Unread' \in Seq(RawEvent) /\ Len(batch) \in 0..Len(Unread)
        /\ free \in 0..(Len(e) - 1) /\ Len(Unread') = Len(batch) + 1 + (Len(e) - free)
    BY SMTT(30), <1>2, <1>4, <1>6, <2>5, <2>6 DEF Extended
  <2>8. \A i \in 1..Len(batch) : Unread'[i] = Unread[i]
    BY ZenonT(30), <1>4, <2>5 DEF Extended
  <2>9. Unread'[Len(batch) + 1] = Dropped
    <3>1. 1 \in 1..Len(tail)
      BY SMTT(30), <2>6, <1>2, <1>6
    <3> QED
      BY ZenonT(30), <3>1, <2>5, <2>6 DEF Extended
  <2>10. \A i \in 1..(Len(e) - free) : Unread'[Len(batch) + 1 + i] = e[free + i]
    <3> TAKE i \in 1..(Len(e) - free)
    <3>1. 1 + i \in 1..Len(tail) /\ Len(batch) + 1 + i = Len(batch) + (1 + i)
      BY SMTT(30), <1>2, <1>6, <2>6
    <3>2. Unread'[Len(batch) + (1 + i)] = tail[1 + i]
      BY ZenonT(30), <3>1, <2>5 DEF Extended
    <3> QED
      BY ZenonT(30), <3>1, <3>2, <2>1, <2>6
  <2> HIDE DEF free
  <2>11. Overflowed(Unread, Len(batch), e, free, Unread')
    BY ZenonT(30), <2>7, <2>8, <2>9, <2>10 DEF Overflowed
  <2> QED
    BY ZenonT(30), <2>11
<1> QED
  BY ZenonT(30), <1>5, <1>6

\* Positions before and after the first event is taken.
Places(u, v) ==
  /\ Len(u) \in Nat /\ Len(v) \in Nat /\ 1 \in 1..Len(u)
  /\ \A i \in 1..Len(v) : i + 1 \in 1..Len(u) /\ v[i] = u[i + 1]
  /\ \A i \in 1..Len(u) : i # 1 => \E m \in 1..Len(v) : i = m + 1 /\ u[i] = v[m]
  /\ \A i, j \in 1..Len(v) : (i + 1 < j + 1 => i < j) /\ (i < j => i + 1 < j + 1)
  /\ \A j \in 1..Len(v) : 1 < j + 1

\* That is what taking it does to positions.
LEMMA ShiftPlaces ==
  ASSUME NEW u, NEW v, Shifted(u, v)
  PROVE  Places(u, v)
<1>1. u \in Seq(RawEvent) /\ v \in Seq(RawEvent) /\ Len(u) = Len(v) + 1
  BY ZenonT(30) DEF Shifted
<1>2. Len(u) \in Nat /\ Len(v) \in Nat /\ 1 \in 1..Len(u)
  BY SMTT(30), <1>1
<1>3. \A i \in 1..Len(v) : i + 1 \in 1..Len(u)
  BY SMTT(30), <1>1, <1>2
<1>4. \A i \in 1..Len(u) : i # 1 => i - 1 \in 1..Len(v) /\ i = (i - 1) + 1
  BY SMTT(30), <1>1, <1>2
<1>5. /\ \A i, j \in 1..Len(v) : (i + 1 < j + 1 => i < j) /\ (i < j => i + 1 < j + 1)
      /\ \A j \in 1..Len(v) : 1 < j + 1
  BY SMTT(30), <1>2
<1>6. \A i \in 1..Len(v) : v[i] = u[i + 1]
  BY ZenonT(30) DEF Shifted
<1>7. \A i \in 1..Len(u) : i # 1 => \E m \in 1..Len(v) : i = m + 1 /\ u[i] = v[m]
  BY ZenonT(30), <1>4, <1>6
<1> QED
  BY ZenonT(30), <1>2, <1>3, <1>5, <1>6, <1>7 DEF Places

\* Taking the first event leaves the others telling the keyboard's state.
LEMMA ShiftTells ==
  ASSUME NEW u, NEW v, NEW held, Shifted(u, v), LastTells(u, held)
  PROVE  LastTells(v, held)
<1>1. Places(u, v)
  BY ZenonT(30), ShiftPlaces
<1> SUFFICES ASSUME NEW k \in Keys, NEW i \in 1..Len(v), Transition(v[i], k),
                    \A j \in 1..Len(v) : j > i => ~Transition(v[j], k) /\ v[j] # Dropped
             PROVE  v[i] = <<"down", k>> <=> k \in held
  BY ZenonT(30) DEF LastTells
<1>2. i + 1 \in 1..Len(u) /\ v[i] = u[i + 1]
  BY ZenonT(30), <1>1 DEF Places
<1>3. \A j \in 1..Len(u) : j > i + 1 => ~Transition(u[j], k) /\ u[j] # Dropped
  <2> SUFFICES ASSUME NEW j \in 1..Len(u), j > i + 1
               PROVE  ~Transition(u[j], k) /\ u[j] # Dropped
    OBVIOUS
  <2>1. j # 1
    BY SMTT(30)
  <2>2. PICK m \in 1..Len(v) : j = m + 1 /\ u[j] = v[m]
    BY ZenonT(30), <2>1, <1>1 DEF Places
  <2>3. m > i
    BY SMTT(30), <2>2
  <2> QED
    BY ZenonT(30), <2>2, <2>3
<1> QED
  BY ZenonT(30), <1>2, <1>3 DEF LastTells

\* A pending release comes from a pending release or from the event just taken.
LEMMA ShiftApart ==
  ASSUME NEW u, NEW v, NEW f, NEW f2, Shifted(u, v), FramesApart(u, f),
         \A k \in Keys : f2[k] = "up" => \/ f[k] = "up" /\ u[1] \notin {Syn, Dropped}
                                         \/ u[1] = <<"up", k>>
  PROVE  FramesApart(v, f2)
<1>1. Places(u, v)
  BY ZenonT(30), ShiftPlaces
<1>2. ASSUME NEW k \in Keys, NEW i \in 1..Len(v), NEW j \in 1..Len(v),
             i < j, v[i] = <<"up", k>>, v[j] = <<"down", k>>
      PROVE  \E m \in 1..Len(v) : i < m /\ m < j /\ v[m] \in {Syn, Dropped}
  <2>1. /\ i + 1 \in 1..Len(u) /\ j + 1 \in 1..Len(u) /\ i + 1 < j + 1
        /\ u[i + 1] = <<"up", k>> /\ u[j + 1] = <<"down", k>>
    BY ZenonT(30), <1>2, <1>1 DEF Places
  <2>2. PICK n \in 1..Len(u) : i + 1 < n /\ n < j + 1 /\ u[n] \in {Syn, Dropped}
    BY ZenonT(30), <2>1 DEF FramesApart
  <2>3. n # 1
    BY SMTT(30), <2>2
  <2>4. PICK m \in 1..Len(v) : n = m + 1 /\ u[n] = v[m]
    BY ZenonT(30), <2>3, <1>1 DEF Places
  <2>5. i < m /\ m < j
    BY ZenonT(30), <2>2, <2>4, <1>1 DEF Places
  <2> QED
    BY ZenonT(30), <2>2, <2>4, <2>5
<1>3. ASSUME NEW k \in Keys, NEW j \in 1..Len(v), f2[k] = "up", v[j] = <<"down", k>>
      PROVE  \E m \in 1..Len(v) : m < j /\ v[m] \in {Syn, Dropped}
  <2>1. j + 1 \in 1..Len(u) /\ u[j + 1] = <<"down", k>> /\ 1 \in 1..Len(u) /\ 1 < j + 1
    BY ZenonT(30), <1>3, <1>1 DEF Places
  <2>2. \E n \in 1..Len(u) : n # 1 /\ n < j + 1 /\ u[n] \in {Syn, Dropped}
    <3>1. CASE f[k] = "up" /\ u[1] \notin {Syn, Dropped}
      <4>1. PICK n \in 1..Len(u) : n < j + 1 /\ u[n] \in {Syn, Dropped}
        BY ZenonT(30), <2>1, <3>1 DEF FramesApart
      <4> QED
        BY ZenonT(30), <3>1, <4>1
    <3>2. CASE u[1] = <<"up", k>>
      <4>1. PICK n \in 1..Len(u) : 1 < n /\ n < j + 1 /\ u[n] \in {Syn, Dropped}
        BY ZenonT(30), <2>1, <3>2 DEF FramesApart
      <4>2. n # 1
        BY SMTT(30), <4>1
      <4> QED
        BY ZenonT(30), <4>1, <4>2
    <3> QED
      BY ZenonT(30), <1>3, <3>1, <3>2
  <2>3. PICK n \in 1..Len(u) : n # 1 /\ n < j + 1 /\ u[n] \in {Syn, Dropped}
    BY ZenonT(30), <2>2
  <2>4. PICK m \in 1..Len(v) : n = m + 1 /\ u[n] = v[m]
    BY ZenonT(30), <2>3, <1>1 DEF Places
  <2>5. m < j
    BY ZenonT(30), <2>3, <2>4, <1>1 DEF Places
  <2> QED
    BY ZenonT(30), <2>3, <2>4, <2>5
<1> QED
  BY ZenonT(30), <1>2, <1>3 DEF FramesApart

\* Until its report is taken, a frame under construction still has it to come.
LEMMA ShiftEnds ==
  ASSUME NEW u, NEW v, NEW f, NEW f2, Shifted(u, v), EndsInReport(u, f),
         f2 # NoFrame => u[1] # Syn
  PROVE  EndsInReport(v, f2)
<1>1. u \in Seq(RawEvent) /\ v \in Seq(RawEvent) /\ Len(u) = Len(v) + 1
  BY ZenonT(30) DEF Shifted
<1>2. u # <<>> /\ (v # <<>> => Len(v) \in 1..Len(v)) /\ (v = <<>> => Len(u) = 1)
  BY SMTT(30), <1>1
<1>3. u[Len(u)] = Syn
  BY ZenonT(30), <1>2 DEF EndsInReport
<1>4. v # <<>> => v[Len(v)] = Syn
  BY ZenonT(30), <1>1, <1>2, <1>3 DEF Shifted
<1>5. f2 # NoFrame => v # <<>>
  BY ZenonT(30), <1>2, <1>3
<1> QED
  BY ZenonT(30), <1>4, <1>5 DEF EndsInReport

\* A transition taken makes the broker right about its key, if it was the last.
LEMMA ShiftKnown ==
  ASSUME NEW u, NEW v, NEW held, NEW known, NEW known2, Shifted(u, v),
         LastTells(u, held), KnownElsewhere(u, known, held), u[1] # Dropped,
         \A k \in Keys : /\ ~Transition(u[1], k) => (k \in known2 <=> k \in known)
                         /\ Transition(u[1], k) => (k \in known2 <=> u[1] = <<"down", k>>)
  PROVE  KnownElsewhere(v, known2, held)
<1>1. Places(u, v)
  BY ZenonT(30), ShiftPlaces
<1> SUFFICES ASSUME \A i \in 1..Len(v) : v[i] # Dropped,
                    NEW k \in Keys, \A i \in 1..Len(v) : ~Transition(v[i], k)
             PROVE  k \in known2 <=> k \in held
  BY ZenonT(30) DEF KnownElsewhere
<1>2. \A i \in 1..Len(u) : u[i] # Dropped
  <2> TAKE i \in 1..Len(u)
  <2>1. CASE i # 1
    <3>1. PICK m \in 1..Len(v) : i = m + 1 /\ u[i] = v[m]
      BY ZenonT(30), <2>1, <1>1 DEF Places
    <3> QED
      BY ZenonT(30), <3>1
  <2> QED
    BY ZenonT(30), <2>1
<1>3. \A i \in 1..Len(u) : i # 1 => ~Transition(u[i], k)
  BY ZenonT(30), <1>1 DEF Places
<1>4. CASE ~Transition(u[1], k)
  <2>1. \A i \in 1..Len(u) : ~Transition(u[i], k)
    BY ZenonT(30), <1>3, <1>4
  <2> QED
    BY ZenonT(30), <1>2, <1>4, <2>1 DEF KnownElsewhere
<1>5. CASE Transition(u[1], k)
  <2>1. \A j \in 1..Len(u) : j > 1 => ~Transition(u[j], k) /\ u[j] # Dropped
    <3>1. \A j \in 1..Len(u) : j > 1 => j # 1
      BY SMTT(30)
    <3> QED
      BY ZenonT(30), <1>2, <1>3, <3>1
  <2>2. 1 \in 1..Len(u)
    BY ZenonT(30), <1>1 DEF Places
  <2>3. u[1] = <<"down", k>> <=> k \in held
    BY ZenonT(30), <1>5, <2>1, <2>2 DEF LastTells
  <2> QED
    BY ZenonT(30), <1>5, <2>3
<1> QED
  BY ZenonT(30), <1>4, <1>5

\* A packet keeps the unread events telling the keyboard's state, overflow or not.
LEMMA PacketUnread ==
  ASSUME ProxyInv, UnreadInv, NEW e \in Seq(RawEvent), Len(e) >= 1, Len(e) < Capacity,
         queue' = Push(e), Packet(e, pressed, pressed'),
         UNCHANGED <<at, batch, keyState, frame, app>>
  PROVE  UnreadInv'
<1>1. ProxyTypeOK /\ frame \in [Keys -> {"none", "up", "down"}]
  BY ZenonT(30) DEF ProxyInv, ProxyTypeOK
<1>2. /\ at' = at /\ batch' = batch /\ frame' = frame /\ physical' = physical /\ dropping' = dropping
      /\ swallowed' = swallowed /\ output' = output /\ committed_output' = committed_output
  BY ZenonT(30) DEF keyState
<1>3. CASE at = "closed"
  BY ZenonT(30), <1>2, <1>3 DEF UnreadInv
<1>4. CASE at # "closed"
  <2>1. LastTells(Unread, pressed) /\ FramesApart(Unread, frame) /\ EndsInReport(Unread, frame)
    BY ZenonT(30), <1>4 DEF UnreadInv
  <2> DEFINE Kept == /\ LastTells(Unread', pressed') /\ FramesApart(Unread', frame)
                     /\ EndsInReport(Unread', frame)
                     /\ KnownElsewhere(Unread, physical, pressed)
                          => KnownElsewhere(Unread', physical, pressed')
  <2>2. ASSUME Extended(Unread, e, Unread') PROVE Kept
    BY ZenonT(30), <1>1, <2>1, <2>2, PacketExtends
  <2>3. ASSUME NEW c, NEW n, Overflowed(Unread, c, e, n, Unread') PROVE Kept
    BY ZenonT(30), <2>1, <2>3, PacketOverflows
  <2> HIDE DEF Kept
  <2>4. Kept
    <3>1. Extended(Unread, e, Unread') \/ \E c, n : Overflowed(Unread, c, e, n, Unread')
      BY ZenonT(30), <1>1, <1>2, <1>4, PushUnread
    <3> QED
      BY ZenonT(30), <2>2, <2>3, <3>1
  <2> USE DEF Kept
  <2> QED
    BY ZenonT(30), <1>2, <1>4, <2>4 DEF UnreadInv
<1> QED
  BY ZenonT(30), <1>3, <1>4

\* The keyboard moves: its packet tells what it did.
LEMMA MoveUnread ==
  ASSUME ProxyInv, UnreadInv, NEW ks \in Packets, KeysMove(ks)
  PROVE  UnreadInv'
<1> DEFINE transition(k) == <<IF k \in pressed THEN "up" ELSE "down", k>>
           moves == [i \in 1..Len(ks) |-> transition(ks[i])]
           e == moves \o <<Syn>>
<1>1. ks \in Seq(Keys) /\ Len(ks) \in Nat /\ Len(ks) + 2 <= Capacity
  OBVIOUS
<1>2. \A i \in 1..Len(ks) : ks[i] \in Keys /\ transition(ks[i]) \in RawEvent
  BY <1>1 DEF RawEvent
<1>3. /\ moves \in Seq(RawEvent) /\ Len(moves) = Len(ks)
      /\ \A i \in 1..Len(ks) : moves[i] = transition(ks[i])
  BY <1>1, <1>2
<1>4. <<Syn>> \in Seq(RawEvent) /\ Len(<<Syn>>) = 1 /\ <<Syn>>[1] = Syn /\ 1 \in 1..1
  BY DEF Syn, RawEvent
<1>5. queue' = Push(e)
  BY ZenonT(30) DEF KeysMove
<1>6. /\ pressed' = (pressed \cup (Moved(ks) \ pressed)) \ (Moved(ks) \cap pressed)
      /\ UNCHANGED <<at, batch, keyState, frame, app>>
  BY ZenonT(30) DEF KeysMove
<1> HIDE DEF moves
<1>7. Extended(moves, <<Syn>>, e)
  BY ZenonT(30), <1>3, <1>4, ConcatExtends
<1> HIDE DEF e
<1>8. /\ e \in Seq(RawEvent) /\ Len(e) = Len(ks) + 1 /\ e[Len(ks) + 1] = Syn
      /\ \A i \in 1..Len(ks) : e[i] = moves[i]
  BY ZenonT(30), <1>3, <1>4, <1>7 DEF Extended
<1>9. Len(e) >= 1 /\ Len(e) < Capacity
  BY SMTT(30), <1>1, <1>8
<1>10. \A i \in 1..Len(e) : \/ i \in 1..Len(ks) /\ ks[i] \in Keys /\ e[i] = transition(ks[i])
                            \/ e[i] = Syn
  <2>1. \A i \in 1..Len(e) : i \in 1..Len(ks) \/ i = Len(ks) + 1
    BY SMTT(30), <1>1, <1>8
  <2> QED
    BY ZenonT(30), <2>1, <1>2, <1>3, <1>8
<1>11. \A i \in 1..Len(ks) : i \in 1..Len(e)
  BY SMTT(30), <1>1, <1>8
<1>12. Packet(e, pressed, pressed')
  <2>1. \A k \in Keys : transition(k) # Dropped /\ Syn # Dropped
                        /\ Transition(transition(k), k) /\ ~Transition(Syn, k)
                        /\ (transition(k) = <<"down", k>> <=> k \notin pressed)
                        /\ \A l \in Keys : Transition(transition(k), l) => l = k
    BY ZenonT(30), Kinds
  <2> HIDE DEF transition
  <2>2. \A k \in Keys : k \in Moved(ks) => (k \in pressed' <=> k \notin pressed)
    BY ZenonT(30), <1>6
  <2>3. \A k \in Keys : k \notin Moved(ks) => (k \in pressed' <=> k \in pressed)
    BY ZenonT(30), <1>6
  <2>4. \A i \in 1..Len(e) : e[i] # Dropped
    BY SMTT(30), <1>10, <2>1
  <2>5. ASSUME NEW k \in Keys, NEW i \in 1..Len(e), Transition(e[i], k)
        PROVE  e[i] = <<"down", k>> <=> k \in pressed'
    <3>1. i \in 1..Len(ks) /\ ks[i] = k /\ e[i] = transition(k)
      BY SMTT(30), <1>10, <2>1, <2>5
    <3>2. k \in Moved(ks)
      BY ZenonT(30), <3>1 DEF Moved
    <3> QED
      BY ZenonT(30), <3>1, <3>2, <2>1, <2>2
  <2>6. ASSUME NEW k \in Keys, \A i \in 1..Len(e) : ~Transition(e[i], k)
        PROVE  k \in pressed <=> k \in pressed'
    <3>1. k \notin Moved(ks)
      <4> SUFFICES ASSUME NEW i \in 1..Len(ks), ks[i] = k PROVE FALSE
        BY ZenonT(30) DEF Moved
      <4>1. e[i] = transition(k)
        BY ZenonT(30), <1>3, <1>8
      <4> QED
        BY SMTT(30), <4>1, <1>11, <2>1, <2>6
    <3> QED
      BY ZenonT(30), <3>1, <2>3
  <2> QED
    BY ZenonT(30), <1>8, <1>9, <2>4, <2>5, <2>6 DEF Packet
<1> QED
  BY ZenonT(30), <1>5, <1>6, <1>8, <1>9, <1>12, PacketUnread

\* A repeat tells nothing new.
LEMMA RepeatUnread ==
  ASSUME ProxyInv, UnreadInv, NEW k \in Keys, KeyRepeats(k)
  PROVE  UnreadInv'
<1> DEFINE e == <<<<"repeat", k>>, Syn>>
<1>1. e \in Seq(RawEvent) /\ Len(e) = 2 /\ e[1] = <<"repeat", k>> /\ e[2] = Syn
  BY DEF Syn, RawEvent
<1>2. queue' = Push(e) /\ pressed' = pressed /\ UNCHANGED <<at, batch, keyState, frame, app>>
  BY ZenonT(30) DEF KeyRepeats
<1> HIDE DEF e
<1>3. Len(e) >= 1 /\ Len(e) < Capacity
  BY SMTT(30), <1>1
<1>4. \A i \in 1..Len(e) : e[i] \in {<<"repeat", k>>, Syn}
  <2>1. \A i \in 1..Len(e) : i \in {1, 2}
    BY SMTT(30), <1>1
  <2> QED
    BY ZenonT(30), <1>1, <2>1
<1>5. \A i \in 1..Len(e) : e[i] # Dropped /\ \A l \in Keys : ~Transition(e[i], l)
  <2>1. /\ <<"repeat", k>> # Dropped /\ Syn # Dropped
        /\ \A l \in Keys : ~Transition(<<"repeat", k>>, l) /\ ~Transition(Syn, l)
    BY ZenonT(30), Kinds
  <2> QED
    BY ZenonT(30), <1>4, <2>1
<1>6. Packet(e, pressed, pressed')
  BY ZenonT(30), <1>1, <1>2, <1>3, <1>5 DEF Packet
<1> QED
  BY ZenonT(30), <1>1, <1>2, <1>3, <1>6, PacketUnread

\* The events left after one is processed, and how the frame may have changed.
LEMMA TakenKeeps ==
  ASSUME ProxyInv, UnreadInv, NEW event, Process(event), queue' = queue,
         \A k \in Keys : frame'[k] = "up" => \/ frame[k] = "up" /\ event \notin {Syn, Dropped}
                                             \/ event = <<"up", k>>,
         frame' # NoFrame => event # Syn
  PROVE  /\ at = "active" /\ at' = "active" /\ pressed' = pressed
         /\ LastTells(Unread', pressed') /\ FramesApart(Unread', frame')
         /\ EndsInReport(Unread', frame')
<1>1. at = "active" /\ at' = "active" /\ pressed' = pressed
  BY ZenonT(30) DEF Process
<1>2. Shifted(Unread, Unread') /\ Unread[1] = event
  BY ZenonT(30), ProcessShifts DEF ProxyInv
<1>3. LastTells(Unread, pressed) /\ FramesApart(Unread, frame) /\ EndsInReport(Unread, frame)
  BY ZenonT(30), <1>1 DEF UnreadInv
<1>4. LastTells(Unread', pressed)
  BY ZenonT(30), <1>2, <1>3, ShiftTells
<1>5. FramesApart(Unread', frame')
  <2>1. \A k \in Keys : frame'[k] = "up" =>
          \/ frame[k] = "up" /\ Unread[1] \notin {Syn, Dropped}
          \/ Unread[1] = <<"up", k>>
    BY ZenonT(30), <1>2
  <2> QED
    BY ZenonT(30), <1>2, <1>3, <2>1, ShiftApart
<1>6. EndsInReport(Unread', frame')
  BY ZenonT(30), <1>2, <1>3, ShiftEnds
<1> QED
  BY ZenonT(30), <1>1, <1>4, <1>5, <1>6

\* What the broker knows of the keys, once an event is processed.
LEMMA TakenKnown ==
  ASSUME ProxyInv, UnreadInv, NEW event, Process(event), queue' = queue, ~dropping,
         event # Dropped,
         \A k \in Keys : /\ ~Transition(event, k) => (k \in physical' <=> k \in physical)
                         /\ Transition(event, k) => (k \in physical' <=> event = <<"down", k>>)
  PROVE  KnownElsewhere(Unread', physical', pressed')
<1>1. at = "active" /\ pressed' = pressed
  BY ZenonT(30) DEF Process
<1>2. Shifted(Unread, Unread') /\ Unread[1] = event
  BY ZenonT(30), ProcessShifts DEF ProxyInv
<1>3. LastTells(Unread, pressed) /\ KnownElsewhere(Unread, physical, pressed)
  BY ZenonT(30), <1>1 DEF UnreadInv
<1> QED
  BY ZenonT(30), <1>1, <1>2, <1>3, ShiftKnown

\* The parts of UnreadInv that a step of an active proxy has to show.
LEMMA UnreadParts ==
  ASSUME at' = "active", LastTells(Unread', pressed'), FramesApart(Unread', frame'),
         EndsInReport(Unread', frame'),
         ~dropping' => KnownElsewhere(Unread', physical', pressed'),
         swallowed' \cap (output' \cup committed_output') = {}
  PROVE  UnreadInv'
BY ZenonT(30) DEF UnreadInv

\* A press is swallowed only once applications have no press of its key left: a
\* release of it that is still pending would have been sent by an earlier report.
LEMMA DownUnread ==
  ASSUME ProxyInv, UnreadInv, NEW k \in Keys, NEW decision \in {"Pass", "Swallow"},
         KeyDown(k, decision)
  PROVE  UnreadInv'
<1>1. /\ Process(<<"down", k>>) /\ queue' = queue /\ ~dropping /\ ~dropping'
      /\ physical' = physical \cup {k} /\ committed_output' = committed_output
  BY ZenonT(30) DEF KeyDown
<1>2. frame \in [Keys -> {"none", "up", "down"}]
  BY ZenonT(30) DEF ProxyInv, ProxyTypeOK
<1>3. /\ \A l \in Keys : frame'[l] = "up" => frame[l] = "up"
      /\ <<"down", k>> \notin {Syn, Dropped}
  <2>1. frame' \in {frame, [frame EXCEPT ![k] = "down"]}
    BY ZenonT(30) DEF KeyDown
  <2>2. \A l \in Keys : [frame EXCEPT ![k] = "down"][l] = "up" => frame[l] = "up"
    BY ZenonT(30), <1>2
  <2> QED
    BY ZenonT(30), <2>1, <2>2, Kinds
<1>4. /\ at = "active" /\ at' = "active" /\ pressed' = pressed
      /\ LastTells(Unread', pressed') /\ FramesApart(Unread', frame')
      /\ EndsInReport(Unread', frame')
  BY ZenonT(30), <1>1, <1>3, TakenKeeps
<1>5. KnownElsewhere(Unread', physical', pressed')
  <2>1. \A l \in Keys : /\ ~Transition(<<"down", k>>, l) => (l \in physical' <=> l \in physical)
                        /\ Transition(<<"down", k>>, l)
                             => (l \in physical' <=> <<"down", k>> = <<"down", l>>)
    BY ZenonT(30), <1>1, Kinds
  <2> QED
    BY ZenonT(30), <1>1, <1>3, <2>1, TakenKnown
<1>6. swallowed' \cap (output' \cup committed_output') = {}
  <2>1. physical = output \cup swallowed /\ output = After(committed_output, frame)
    BY ZenonT(30), <1>1, <1>4 DEF ProxyInv, OneOwner, FrameAgrees
  <2>2. swallowed \cap (output \cup committed_output) = {}
    BY ZenonT(30) DEF UnreadInv
  <2>3. k \notin physical => k \notin committed_output
    <3> SUFFICES ASSUME k \notin physical, k \in committed_output PROVE FALSE
      OBVIOUS
    <3>1. frame[k] = "up"
      BY ZenonT(30), <1>2, <2>1 DEF After
    <3>2. Shifted(Unread, Unread') /\ Unread[1] = <<"down", k>>
      BY ZenonT(30), <1>1, ProcessShifts DEF ProxyInv
    <3>3. 1 \in 1..Len(Unread)
      BY ZenonT(30), <3>2, ShiftPlaces DEF Places
    <3>4. FramesApart(Unread, frame)
      BY ZenonT(30), <1>4 DEF UnreadInv
    <3>5. PICK m \in 1..Len(Unread) : m < 1
      BY ZenonT(30), <3>1, <3>2, <3>3, <3>4 DEF FramesApart
    <3> QED
      BY SMTT(30), <3>5
  <2>4. CASE k \in physical
    BY ZenonT(30), <1>1, <2>2, <2>4 DEF KeyDown
  <2>5. CASE k \notin physical /\ decision = "Pass"
    BY ZenonT(30), <1>1, <2>1, <2>2, <2>5 DEF KeyDown
  <2>6. CASE k \notin physical /\ decision = "Swallow"
    BY ZenonT(30), <1>1, <2>1, <2>2, <2>3, <2>6 DEF KeyDown
  <2> QED
    BY ZenonT(30), <2>4, <2>5, <2>6
<1> QED
  BY ZenonT(30), <1>4, <1>5, <1>6, UnreadParts

\* A release pending in the frame still has its report to come.
LEMMA UpUnread ==
  ASSUME ProxyInv, UnreadInv, NEW k \in Keys, KeyUp(k)
  PROVE  UnreadInv'
<1>1. /\ Process(<<"up", k>>) /\ queue' = queue /\ ~dropping /\ ~dropping'
      /\ physical' = physical \ {k} /\ committed_output' = committed_output
      /\ output' = output \ {k} /\ swallowed' = swallowed \ {k}
  BY ZenonT(30) DEF KeyUp, ReleaseOf
<1>2. frame \in [Keys -> {"none", "up", "down"}]
  BY ZenonT(30) DEF ProxyInv, ProxyTypeOK
<1>3. <<"up", k>> \notin {Syn, Dropped} /\ <<"up", k>> # <<"down", k>>
  BY ZenonT(30), Kinds
<1>4. \A l \in Keys : frame'[l] = "up" => frame[l] = "up" \/ <<"up", k>> = <<"up", l>>
  <2>1. frame' \in {frame, [frame EXCEPT ![k] = "up"]}
    BY ZenonT(30) DEF KeyUp, ReleaseOf
  <2>2. \A l \in Keys : l # k => [frame EXCEPT ![k] = "up"][l] = frame[l]
    BY ZenonT(30), <1>2
  <2> QED
    BY ZenonT(30), <2>1, <2>2
<1>5. /\ at = "active" /\ at' = "active" /\ pressed' = pressed
      /\ LastTells(Unread', pressed') /\ FramesApart(Unread', frame')
      /\ EndsInReport(Unread', frame')
  BY ZenonT(30), <1>1, <1>3, <1>4, TakenKeeps
<1>6. KnownElsewhere(Unread', physical', pressed')
  <2>1. \A l \in Keys : /\ ~Transition(<<"up", k>>, l) => (l \in physical' <=> l \in physical)
                        /\ Transition(<<"up", k>>, l)
                             => (l \in physical' <=> <<"up", k>> = <<"down", l>>)
    BY ZenonT(30), <1>1, <1>3, Kinds
  <2> QED
    BY ZenonT(30), <1>1, <1>3, <2>1, TakenKnown
<1>7. swallowed' \cap (output' \cup committed_output') = {}
  BY ZenonT(30), <1>1 DEF UnreadInv
<1> QED
  BY ZenonT(30), <1>5, <1>6, <1>7, UnreadParts

\* Events that move no key: a repeat, and what is ignored until the next report.
LEMMA QuietUnread ==
  ASSUME ProxyInv, UnreadInv, NEW k \in Keys, KeyRepeat(k) \/ Ignore(k)
  PROVE  UnreadInv'
<1>1. UNCHANGED <<queue, keyState, frame, app>>
  BY ZenonT(30) DEF KeyRepeat, Ignore
<1>2. PICK kind \in {"down", "up", "repeat"} :
        Process(<<kind, k>>) /\ (~dropping => kind = "repeat")
  BY ZenonT(30) DEF KeyRepeat, Ignore
<1>3. <<kind, k>> \notin {Syn, Dropped}
  BY ZenonT(30), Kinds
<1>4. /\ at = "active" /\ at' = "active" /\ pressed' = pressed
      /\ LastTells(Unread', pressed') /\ FramesApart(Unread', frame')
      /\ EndsInReport(Unread', frame')
  BY ZenonT(30), <1>1, <1>2, <1>3, TakenKeeps
<1>5. ~dropping => KnownElsewhere(Unread', physical', pressed')
  <2> SUFFICES ASSUME ~dropping PROVE KnownElsewhere(Unread', physical', pressed')
    OBVIOUS
  <2>1. \A l \in Keys : ~Transition(<<kind, k>>, l)
    BY ZenonT(30), <1>2, Kinds
  <2>2. physical' = physical /\ queue' = queue
    BY ZenonT(30), <1>1 DEF keyState
  <2> QED
    BY ZenonT(30), <1>2, <1>3, <2>1, <2>2, TakenKnown
<1>6. swallowed' \cap (output' \cup committed_output') = {} /\ dropping' = dropping
  BY ZenonT(30), <1>1 DEF UnreadInv, keyState
<1> QED
  BY ZenonT(30), <1>4, <1>5, <1>6, UnreadParts

\* The end of a frame, its loss, and the snapshot that makes up for the loss.
LEMMA FrameUnread ==
  ASSUME ProxyInv, UnreadInv, Flushes \subseteq {FALSE}, EmitFrame \/ SynDropped \/ Resync
  PROVE  UnreadInv'
<1>1. queue' = queue
  BY ZenonT(30) DEF EmitFrame, SynDropped, Resync, GetKeyState
<1>2. PICK event \in {Syn, Dropped} : Process(event) /\ (EmitFrame \/ Resync => event = Syn)
  BY ZenonT(30) DEF EmitFrame, SynDropped, Resync
<1>3. frame' = NoFrame /\ \A l \in Keys : NoFrame[l] # "up"
  BY ZenonT(30) DEF EmitFrame, SynDropped, Resync, NoFrame
<1>4. /\ at = "active" /\ at' = "active" /\ pressed' = pressed
      /\ LastTells(Unread', pressed') /\ FramesApart(Unread', frame')
      /\ EndsInReport(Unread', frame')
  BY ZenonT(30), <1>1, <1>2, <1>3, TakenKeeps
<1>5. ~dropping' => KnownElsewhere(Unread', physical', pressed')
  <2>1. CASE EmitFrame
    <3>1. physical' = physical /\ ~dropping /\ Process(Syn)
      BY ZenonT(30), <2>1 DEF EmitFrame
    <3>2. Syn # Dropped /\ \A l \in Keys : ~Transition(Syn, l)
      BY SMTT(30) DEF Transition, Syn, Dropped
    <3> QED
      BY ZenonT(30), <1>1, <3>1, <3>2, TakenKnown
  <2>2. CASE SynDropped
    BY ZenonT(30), <2>2 DEF SynDropped
  <2>3. CASE Resync
    BY ZenonT(30), <1>4, <2>3 DEF Resync, KnownElsewhere
  <2> QED
    BY ZenonT(30), <2>1, <2>2, <2>3
<1>6. swallowed' \cap (output' \cup committed_output') = {}
  BY ZenonT(30) DEF UnreadInv, EmitFrame, Commit, SynDropped, Rollback, Resync, ResyncOutput
<1> QED
  BY ZenonT(30), <1>4, <1>5, <1>6, UnreadParts

\* Capture starts with nothing unread; it ends with no key held and none known.
LEMMA CaptureUnread ==
  ASSUME ProxyInv, UnreadInv, Flushes \subseteq {FALSE}, Capture
  PROVE  UnreadInv'
<1>1. /\ at # "active" /\ at' # "closed" /\ UNCHANGED <<pressed, batch, keyState, frame, app>>
      /\ at = "closed" <=> at' = "opened"
  BY ZenonT(30) DEF Capture, Open, CheckBeforeGrab, Grab, FetchQueued, CheckAfterGrab, Advance
<1>2. queue' = queue /\ (at' = "active" => pressed = {})
  BY ZenonT(30) DEF Capture, Open, CheckBeforeGrab, Grab, FetchQueued, CheckAfterGrab, Advance, GetKeyState
<1>3. Unread' = Unread
  BY ZenonT(30), <1>1, <1>2 DEF Unread
<1>4. physical = {} /\ frame = NoFrame
  BY ZenonT(30), <1>1 DEF ProxyInv, IdleEmpty
<1>5. LastTells(Unread, pressed) /\ FramesApart(Unread, frame) /\ EndsInReport(Unread, frame)
  <2>1. CASE at = "closed"
    <3>1. batch = <<>> /\ queue = <<>>
      BY ZenonT(30), <2>1 DEF ProxyInv, IdleEmpty, UnreadInv
    <3>2. Unread = <<>> /\ 1..Len(Unread) = {}
      BY SMTT(30), <3>1 DEF Unread
    <3> QED
      BY ZenonT(30), <3>2, <1>4 DEF LastTells, FramesApart, EndsInReport
  <2>2. CASE at # "closed"
    BY ZenonT(30), <2>2 DEF UnreadInv
  <2> QED
    BY ZenonT(30), <2>1, <2>2
<1>6. at' = "active" => KnownElsewhere(Unread', physical', pressed')
  BY ZenonT(30), <1>1, <1>2, <1>4 DEF KnownElsewhere, keyState
<1>7. swallowed' \cap (output' \cup committed_output') = {}
  BY ZenonT(30), <1>1 DEF UnreadInv, keyState
<1> QED
  BY ZenonT(30), <1>1, <1>3, <1>5, <1>6, <1>7 DEF UnreadInv

\* Unless EVIOCGKEY discards events, UnreadInv is preserved by every step.
LEMMA UnreadStep ==
  ASSUME ProxyInv, UnreadInv, Flushes \subseteq {FALSE}, [ProxyNext]_proxyVars
  PROVE  UnreadInv'
<1>1. CASE Keyboard
  BY ZenonT(30), <1>1, MoveUnread, RepeatUnread DEF Keyboard
<1>2. CASE Capture
  BY ZenonT(30), <1>2, CaptureUnread
<1>3. CASE Bypass
  BY ZenonT(30), <1>3 DEF Bypass, UnreadInv
<1>4. CASE Pump
  <2>1. ASSUME NEW n \in 1..Len(queue), ReadBatch(n)
        PROVE  UnreadInv'
    <3>1. Unread' = Unread
      BY ZenonT(30), <2>1, ReadKeepsUnread DEF ProxyInv
    <3> QED
      BY ZenonT(30), <2>1, <3>1 DEF ReadBatch, UnreadInv, keyState
  <2>2. ASSUME NEW k \in Keys, NEW decision \in {"Pass", "Swallow"}, KeyDown(k, decision)
        PROVE  UnreadInv'
    BY ZenonT(30), <2>2, DownUnread
  <2>3. ASSUME NEW k \in Keys, KeyUp(k) \/ KeyRepeat(k) \/ Ignore(k)
        PROVE  UnreadInv'
    BY ZenonT(30), <2>3, UpUnread, QuietUnread
  <2>4. CASE EmitFrame \/ SynDropped \/ Resync
    BY ZenonT(30), <2>4, FrameUnread
  <2> QED
    BY ZenonT(30), <1>4, <2>1, <2>2, <2>3, <2>4 DEF Pump
<1>5. CASE UNCHANGED proxyVars
  <2>1. Unread' = Unread
    BY ZenonT(30), <1>5 DEF proxyVars, Unread
  <2> QED
    BY ZenonT(30), <1>5, <2>1 DEF proxyVars, keyState, UnreadInv
<1> QED
  BY ZenonT(30), <1>1, <1>2, <1>3, <1>4, <1>5 DEF ProxyNext

\* Where reading the key state discards no event, the broker that has processed all it
\* has read knows exactly the keys held, and applications hold them but the swallowed
\* ones: through batches, overflows, lost frames and resync, for any capacity.
THEOREM ConvergesUnflushed ==
  ASSUME Flushes \subseteq {FALSE}
  PROVE  ProxySpec => []Converged
<1>1. ProxyInit => UnreadInv
  BY ZenonT(30) DEF ProxyInit, UnreadInv
<1>2. ProxyInv /\ UnreadInv /\ [ProxyNext]_proxyVars => UnreadInv'
  BY ZenonT(30), UnreadStep
<1>3. ProxyInv /\ UnreadInv => Converged
  <2> SUFFICES ASSUME ProxyInv, UnreadInv, at = "active", ~dropping, queue = <<>>, batch = <<>>
               PROVE  physical = pressed /\ output = pressed \ swallowed
    BY ZenonT(30) DEF Converged
  <2>1. 1..Len(Unread) = {}
    BY SMTT(30) DEF Unread
  <2>2. KnownElsewhere(Unread, physical, pressed)
    BY ZenonT(30) DEF UnreadInv
  <2>3. physical \subseteq Keys /\ pressed \subseteq Keys /\ physical = output \cup swallowed
    BY ZenonT(30) DEF ProxyInv, ProxyTypeOK, OneOwner
  <2>4. physical = pressed
    BY ZenonT(30), <2>1, <2>2, <2>3 DEF KnownElsewhere
  <2> QED
    BY ZenonT(30), <2>3, <2>4 DEF UnreadInv
<1> QED
  BY <1>1, <1>2, <1>3, ProxyInductive, PTL DEF ProxySpec

=============================================================================
