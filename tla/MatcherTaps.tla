----------------------------- MODULE MatcherTaps -----------------------------
(***************************************************************************)
(* Which modifier releases fire a tap rule, read off the history of the    *)
(* stream rather than off recogniser state.  The matcher of Matcher.tla is *)
(* fed one keyboard's events, any of them repeated or stray, interleaved   *)
(* with reloads, disqualified input and stream resets; log records what it *)
(* was fed.  The reference reads only the log.                             *)
(***************************************************************************)
EXTENDS Matcher

CONSTANTS
  Foreign,   \* modifier bits held on other keyboards
  MaxLog     \* bound on the history

VARIABLE log

ASSUME TapsAssumption == MaxLog \in Nat /\ Foreign \subseteq Bits

\* The stream's events: a modifier with a bit is reported as ModifiersChanged,
\* one without (Caps Lock) as a physical transition.
Moves(key, down, foreign) ==
  LET held == {m \in ModKeys : \E p \in modifier_state : p[2] = m}
      after == IF down THEN held \cup {key} ELSE held \ {key}
      kind == IF key \in ModKeys /\ ModifierBit[key] # {} THEN "ModifiersChanged"
              ELSE IF down THEN "KeyDown" ELSE "KeyUp"
  IN  [code |-> key, kind |-> kind,
       mods |-> foreign \cup UNION {ModifierBit[m] \cup GenericBit[m] : m \in after \cap ModKeys}]

Note(what, key, alone) == log' = Append(log, [what |-> what, key |-> key, alone |-> alone, at |-> now])

Feed(d, key, down, foreign, app) ==
  LET e == Moves(key, down, foreign)
  IN  /\ Dispatch(d, e, app, FALSE)
      /\ CASE key \notin ModKeys -> Note("other", NoKey, FALSE)
           [] key \in ModKeys /\ ~down -> Note("up", key, FALSE)
           [] OTHER -> Note("down", key, e.mods \subseteq ModifierBit[key] \cup GenericBit[key])

TapsInit == Init /\ log = <<>>

TapsNext ==
  \/ /\ Len(log) < MaxLog
     /\ \/ \E d \in Devices, key \in ModKeys, app \in Focus :
             \/ \E foreign \in SUBSET Foreign : Feed(d, key, TRUE, foreign, app)
             \/ Feed(d, key, FALSE, {}, app)
        \/ \E d \in Devices, key \in Keys \ ModKeys, app \in Focus : Feed(d, key, TRUE, {}, app)
        \/ \E rs \in RuleSets : SwapRules(rs) /\ Note("other", NoKey, FALSE)
        \/ InvalidateSpeculation /\ Note("other", NoKey, FALSE)
        \/ DisqualifyTaps /\ Note("other", NoKey, FALSE)
        \/ \E d \in Devices : ResetDevice(d) /\ Note("lost", NoKey, FALSE)
  \/ Tick /\ UNCHANGED log

TapsSpec == TapsInit /\ [][TapsNext]_<<vars, log>>

-----------------------------------------------------------------------------
(* The reference. *)

\* key is down after the first n entries.
DownAfter(n, key) ==
  \E i \in 1..n :
    /\ log[i].key = key /\ log[i].what = "down"
    /\ \A j \in i+1..n : log[j].what # "lost" /\ ~(log[j].key = key /\ log[j].what = "up")

IsPress(i) == log[i].what = "down" /\ ~DownAfter(i - 1, log[i].key)
IsRelease(i) == log[i].what = "up" /\ DownAfter(i - 1, log[i].key)

\* Pressed with no other modifier held, here or on another keyboard.
IsCleanPress(i) ==
  IsPress(i) /\ log[i].alone /\ \A m \in ModKeys \ {log[i].key} : ~DownAfter(i - 1, m)

\* Entry i ends every count of key: other input, a lost stream, a press of
\* another modifier, or an overlapped press of key itself.
Breaks(i, key) ==
  \/ log[i].what \in {"other", "lost"}
  \/ IsPress(i) /\ ~(log[i].key = key /\ IsCleanPress(i))

\* A release of key after the first n entries would end a clean press.
EndsTap(n, key) ==
  \E i \in 1..n :
    /\ log[i].key = key /\ IsCleanPress(i)
    /\ \A j \in i+1..n : ~Breaks(j, key) /\ ~(log[j].key = key /\ log[j].what = "up")

IsTapAt(i) == IsRelease(i) /\ EndsTap(i - 1, log[i].key)

\* Clean taps of key in a row, each released within w of the one before,
\* counting one released at time t after the first n entries.
Run(key, w, n, t) ==
  LET run[i \in 0..n, at \in 0..MaxNow] ==
        LET before == {j \in 1..i : log[j].key = key /\ IsTapAt(j)
                                    /\ \A h \in j+1..i : ~Breaks(h, key)}
            last == CHOOSE j \in before : \A h \in before : h <= j
        IN  IF before # {} /\ at - log[last].at <= w THEN 1 + run[last - 1, log[last].at] ELSE 1
  IN  run[n, t]

\* The tap rules that a release of key should fire now.
ShouldFire(key, app) ==
  {i \in DOMAIN rules.taps :
     /\ rules.taps[i].tap = key
     /\ EndsTap(Len(log), key)
     /\ Run(key, rules.taps[i].within, Len(log), now) = rules.taps[i].count
     /\ app \in rules.taps[i].scope}

-----------------------------------------------------------------------------
\* The next release of a modifier fires exactly the first rule whose count
\* equals the run of clean taps it completes ("Any non-modifier key press, or a
\* press of a different modifier, resets the counter"; the window is between
\* consecutive releases and inclusive), and passes when there is none.
TapsMatchHistory ==
  \A d \in Devices, key \in ModKeys, app \in Focus :
    LET e == Moves(key, FALSE, {})
    IN  Verdict(d, e, app) = IF ShouldFire(key, app) # {}
                             THEN <<"Replace", "tap", First(ShouldFire(key, app))>>
                             ELSE <<"Pass">>

=============================================================================
