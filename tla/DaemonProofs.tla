---------------------------- MODULE DaemonProofs -----------------------------
(***************************************************************************)
(* Proofs about Daemon, for every number of connections, every set of      *)
(* texts that the file may have and every number of saves: the inductive   *)
(* invariant DaemonInv and what follows of it.                             *)
(***************************************************************************)
EXTENDS Daemon, TLAPS, FiniteSetTheorems

USE DaemonAssumption

-----------------------------------------------------------------------------
(* The threads, their locks and what they publish.                         *)

Core ==
    DaemonTypeOK /\ LocksAgree /\ BusyAgree /\ StartsAlone /\ PortOutlivesWatchdog /\ NeverMixed /\ CountAgrees

\* Core under a name of its own: what lemmas state is not expanded where Core is.
Inv == Core

Stages == {"load", "installed", "serve", "running", "unwinding", "draining", "joining", "exit"}
WatcherStates == {"off", "starting", "recv", "window", "reload", "end"}
ReloadStates == [pc : {"idle", "lock", "load", "publish", "aliases", "count"}, file : Files \cup {None}]
ConnStates == {"free", "reading", "writing"} \cup Busy
TapType == [port : {"none", "live", "freed"}, enabled : BOOLEAN, watchdog : {"off", "sleep", "check", "end"},
            running : BOOLEAN]

\* It holds when the process starts.
LEMMA InitCore == Init => Inv
<1> SUFFICES ASSUME Init PROVE Core
  BY ZenonT(30) DEF Inv
<1> USE DEF Init
<1>1. /\ \A t \in Threads : reloading[t].pc = "idle" /\ \A c \in Conns : conns[c] = "free"
      /\ Conns \subseteq Threads /\ "watcher" \in Threads
  BY ZenonT(30) DEF Idle, Threads
<1>2. BusyAgree
  BY ZenonT(30), <1>1 DEF BusyAgree, Busy
<1>3. tap \in TapType
  BY ZenonT(30) DEF TapType
<1>4. reloading \in [Threads -> ReloadStates]
  BY ZenonT(30) DEF Idle, ReloadStates
<1>5. file \in Files
  BY DEF Files
<1>6. DaemonTypeOK
  <2>1. noticed \in BOOLEAN
    BY ZenonT(30)
  <2>2. conns \in [Conns -> ConnStates]
    BY ZenonT(30) DEF ConnStates
  <2> QED
    BY SMTT(30), <1>3, <1>4, <1>5, <2>1, <2>2 DEF DaemonTypeOK, TapType, ConnStates, ReloadStates
<1>7. LocksAgree /\ StartsAlone /\ PortOutlivesWatchdog /\ NeverMixed /\ CountAgrees
  BY <1>1, <1>5 DEF LocksAgree, Files, StartsAlone, Booting, PortOutlivesWatchdog, NeverMixed, CountAgrees, Threads
<1> QED
  BY ZenonT(30), <1>2, <1>6, <1>7 DEF Core

\* A step that leaves the matching state and the reloads alone.
LEMMA CoreFrame ==
    ASSUME Inv,
           UNCHANGED <<mode, rules, aliases, lock, event, reloading, reloadLock, counted, reloaded>>,
           conns' \in [Conns -> ConnStates], \A c \in Conns : conns'[c] \in Busy <=> conns[c] \in Busy,
           file' \in Files, file.version <= file'.version, noticed' \in BOOLEAN, stage' \in Stages,
           Booting' => (Booting /\ watcher' = "off" /\ conns' = conns), stage' \in {"load", "installed"} => stage' = stage,
           watcher' \in WatcherStates, watcher' = "reload" <=> watcher = "reload",
           tap' \in TapType, PortOutlivesWatchdog'
    PROVE  Inv'
<1> SUFFICES ASSUME Core PROVE Core'
  BY ZenonT(30) DEF Inv
<1>1. DaemonTypeOK'
  BY ZenonT(30) DEF Core, DaemonTypeOK, Stages, WatcherStates, TapType, ConnStates
<1>2. LocksAgree'
  <2>1. /\ file.version \in Nat /\ file'.version \in Nat /\ rules \in Nat /\ aliases \in Nat
        /\ \A n \in rules..file.version : n \in rules..file'.version
    BY SMTT(30) DEF Core, DaemonTypeOK, Files
  <2>2. rules <= file.version => rules <= file'.version
    BY ONLY SMTT(30), <2>1, file.version <= file'.version
  <2> QED
    BY ZenonT(30), <2>1, <2>2 DEF Core, LocksAgree
<1>3. BusyAgree' /\ NeverMixed' /\ CountAgrees'
  BY ZenonT(30) DEF Core, BusyAgree, NeverMixed, CountAgrees
<1>4. StartsAlone'
  BY ZenonT(30) DEF Core, StartsAlone, Booting
<1> QED
  BY ZenonT(30), <1>1, <1>2, <1>3, <1>4 DEF Core

\* Such steps are those of the user, of the watcher and the signal thread between reloads,
\* of the tap and its watchdog, and of main when it starts and ends: the port is freed only
\* when the watchdog has ended.
LEMMA QuietCore ==
    ASSUME Inv,
           \/ (\E text \in Documents : Save(text)) \/ Touch \/ Serve
           \/ WatchBegins \/ Drain \/ WatchEnds \/ Terminate \/ ServerDrained \/ Exit
           \/ TapDisabled \/ InstallTap \/ WatchdogWakes \/ WatchdogChecks \/ DestroyTap \/ MainEnds
    PROVE  Inv'
<1> SUFFICES ASSUME Core PROVE Core'
  BY ZenonT(30) DEF Inv
<1>1. UNCHANGED <<mode, rules, aliases, lock, event, reloading, reloadLock, counted, reloaded, conns>>
  BY ZenonT(30) DEF Save, Touch, Serve, WatchBegins, Drain, WatchEnds, Terminate, ServerDrained, Exit, TapDisabled,
     InstallTap, WatchdogWakes, WatchdogChecks, DestroyTap, MainEnds, world, matching, reloads, serving
<1>2. file' \in Files /\ file.version <= file'.version /\ noticed' \in BOOLEAN
  <2>1. file \in Files /\ noticed \in BOOLEAN /\ file.version \in 0..MaxSaves
    BY ZenonT(30) DEF Core, DaemonTypeOK, Files
  <2>2. ASSUME NEW text \in Documents, Save(text)
        PROVE  file' \in Files /\ file.version <= file'.version
    <3>1. Kind(Compiled(text)) \in {"valid", "unsupported", "invalid"}
      BY ZenonT(30) DEF Kind
    <3> QED
      BY SMTT(30), <2>1, <2>2, <3>1 DEF Save, Files
  <2>3. ASSUME NEW text \in Documents, Save(text)
        PROVE  noticed' \in BOOLEAN
    <3>1. noticed' = (watcher \in {"recv", "window", "reload"})
      BY ZenonT(30), <2>3 DEF Save
    <3> QED
      BY ONLY <3>1
  <2>4. CASE UNCHANGED world
    <3>1. file' = file /\ noticed' = noticed /\ file.version <= file.version
      BY <2>1, <2>4 DEF world
    <3> QED
      BY ZenonT(30), <2>1, <3>1
  <2> QED
    BY ZenonT(30), <2>2, <2>3, <2>4 DEF Touch, Serve, WatchBegins, Drain, WatchEnds, Terminate, ServerDrained, Exit, TapDisabled,
       InstallTap, WatchdogWakes, WatchdogChecks, DestroyTap, MainEnds
<1>3. stage \in Stages /\ watcher \in WatcherStates /\ tap \in TapType
  BY ZenonT(30) DEF Core, DaemonTypeOK, Stages, WatcherStates, TapType
<1>4. /\ stage' \in Stages /\ (Booting' => (Booting /\ watcher' = "off"))
      /\ stage' \in {"load", "installed"} => stage' = stage
      /\ watcher' \in WatcherStates /\ (watcher' = "reload" <=> watcher = "reload")
  <2>1. Booting => watcher = "off"
    BY ZenonT(30) DEF Core, StartsAlone
  <2>2. CASE UNCHANGED <<stage, watcher>>
    BY ZenonT(30), <1>3, <2>1, <2>2 DEF Booting
  <2>3. CASE Serve \/ ServerDrained \/ Exit \/ MainEnds
    BY ZenonT(30), <1>3, <2>3 DEF Serve, ServerDrained, Exit, MainEnds, watching, Stages, WatcherStates, Booting,
                                Core, StartsAlone
  <2>4. CASE WatchBegins \/ Drain \/ WatchEnds
    BY ZenonT(30), <1>3, <2>1, <2>4 DEF WatchBegins, Drain, WatchEnds, WatcherStates, Booting
  <2> QED
    BY ZenonT(30), <2>2, <2>3, <2>4 DEF Save, Touch, Terminate, TapDisabled, InstallTap, WatchdogWakes, WatchdogChecks,
       DestroyTap, watching
<1>5. tap' \in TapType /\ PortOutlivesWatchdog'
  <2> USE DEF PortOutlivesWatchdog, TapType
  <2>1. CASE TapDisabled
    BY ZenonT(30), <1>3, <2>1 DEF TapDisabled, Core
  <2>2. CASE InstallTap
    BY ZenonT(30), <2>2 DEF InstallTap
  <2>3. CASE WatchdogWakes
    BY ZenonT(30), <1>3, <2>3 DEF WatchdogWakes, Core
  <2>4. CASE WatchdogChecks
    BY ZenonT(30), <1>3, <2>4 DEF WatchdogChecks, Core
  <2>5. CASE DestroyTap
    BY ZenonT(30), <1>3, <2>5 DEF DestroyTap, Core
  <2>6. CASE MainEnds
    BY ZenonT(30), <1>3, <2>6 DEF MainEnds, Core
  <2>7. CASE UNCHANGED tap
    BY ZenonT(30), <1>3, <2>7 DEF Core
  <2> QED
    BY ONLY ZenonT(30), <2>1, <2>2, <2>3, <2>4, <2>5, <2>6, <2>7,
       \/ (\E text \in Documents : Save(text)) \/ Touch \/ Serve
       \/ WatchBegins \/ Drain \/ WatchEnds \/ Terminate \/ ServerDrained \/ Exit
       \/ TapDisabled \/ InstallTap \/ WatchdogWakes \/ WatchdogChecks \/ DestroyTap \/ MainEnds
    DEF Save, Touch, Serve, WatchBegins, Drain, WatchEnds, Terminate, ServerDrained, Exit
<1>6. conns' = conns /\ conns \in [Conns -> ConnStates]
  BY ZenonT(30), <1>1 DEF Core, DaemonTypeOK, ConnStates
<1> HIDE DEF Core
<1> QED
  BY ZenonT(30), <1>1, <1>2, <1>4, <1>5, <1>6, CoreFrame DEF Inv

\* What main loads when it starts, and the key events.
LEMMA MatchingCore ==
    ASSUME Inv, Load \/ LoadInstalled \/ Dispatch \/ Settle
    PROVE  Inv'
<1> SUFFICES ASSUME Core PROVE Core'
  BY ZenonT(30) DEF Inv
<1>1. /\ UNCHANGED <<mode, file, noticed, reloading, reloadLock, reloaded, watcher, conns, tap>>
      /\ file.version \in 0..MaxSaves
  <2>1. file.version \in 0..MaxSaves
    BY ZenonT(30) DEF Core, DaemonTypeOK, Files
  <2> QED
    BY ZenonT(30), <2>1 DEF Load, LoadInstalled, Dispatch, Settle, world, reloads, watching, serving
<1>2. CASE Load \/ LoadInstalled
  <2>1. /\ UNCHANGED <<lock, event>> /\ Booting
        /\ \/ stage' = "exit" /\ UNCHANGED <<rules, aliases, counted>>
           \/ /\ rules' = file.version /\ aliases' = file.version
              /\ \/ stage = "load" /\ counted' = file.version /\ stage' = IF mode = "installed" THEN "installed" ELSE "serve"
                 \/ stage = "installed" /\ counted' = counted /\ stage' = "serve"
    BY ZenonT(30), <1>2 DEF Load, LoadInstalled, reloads, Booting
  <2>2. /\ event = None /\ lock = None /\ ~reloaded /\ watcher = "off"
        /\ \A t \in Threads : reloading[t].pc = "idle"
        /\ \A c \in Conns : conns[c] = "free"
        /\ stage = "installed" => mode = "installed"
        /\ stage = "load" => rules = 0 /\ counted = 0
    BY ZenonT(30), <2>1 DEF Core, StartsAlone
  <2>3. DaemonTypeOK'
    BY SMTT(30), <1>1, <2>1 DEF Core, DaemonTypeOK
  <2>4. LocksAgree'
    <3>1. \/ UNCHANGED <<rules, aliases>>
          \/ aliases' <= rules' /\ rules' <= file.version /\ rules' = aliases'
      BY SMTT(30), <1>1, <2>1
    <3> QED
      BY ZenonT(30), <1>1, <2>1, <2>2, <3>1 DEF Core, LocksAgree
  <2>5. BusyAgree' /\ NeverMixed' /\ PortOutlivesWatchdog'
    BY ZenonT(30), <1>1, <2>1, <2>2 DEF Core, BusyAgree, NeverMixed, PortOutlivesWatchdog
  <2>6. StartsAlone'
    BY ZenonT(30), <1>1, <2>1, <2>2 DEF StartsAlone, Booting
  <2>7. CountAgrees'
    BY ZenonT(30), <1>1, <2>1, <2>2 DEF Core, CountAgrees
  <2> QED
    BY ZenonT(30), <2>3, <2>4, <2>5, <2>6, <2>7 DEF Core
<1>3. CASE Dispatch \/ Settle
  <2>1. /\ UNCHANGED <<stage, rules, aliases, counted>>
        /\ \/ /\ stage = "running" /\ lock = None /\ event = None
              /\ lock' = "event" /\ event' = [rules |-> rules, aliases |-> aliases]
           \/ event # None /\ lock' = None /\ event' = None
    BY ZenonT(30), <1>3 DEF Dispatch, Settle, reloads
  <2>2. lock' \notin Threads /\ lock \notin Threads
    BY ZenonT(30), <2>1 DEF Core, LocksAgree, Threads
  <2>3. DaemonTypeOK'
    BY SMTT(30), <1>1, <2>1 DEF Core, DaemonTypeOK
  <2>4. LocksAgree'
    BY ZenonT(30), <1>1, <2>1, <2>2 DEF Core, LocksAgree
  <2>5. BusyAgree' /\ PortOutlivesWatchdog' /\ CountAgrees'
    BY ZenonT(30), <1>1, <2>1 DEF Core, BusyAgree, PortOutlivesWatchdog, CountAgrees
  <2>6. StartsAlone'
    BY ZenonT(30), <1>1, <2>1 DEF Core, StartsAlone, Booting
  <2>7. NeverMixed'
    BY SMTT(30), <2>1, <2>2 DEF Core, LocksAgree, NeverMixed
  <2> QED
    BY ZenonT(30), <2>3, <2>4, <2>5, <2>6, <2>7 DEF Core
<1> QED
  BY ZenonT(30), <1>2, <1>3

\* A thread starts a reload, or takes a step of one: what is left to show are the locks,
\* the count and what its caller is told.
LEMMA ThreadMoves ==
    ASSUME Inv, NEW t \in Threads, NEW r \in ReloadStates, reloading' = [reloading EXCEPT ![t] = r], ~Booting,
           UNCHANGED <<mode, file, noticed, stage, event, tap>>,
           rules' \in 0..MaxSaves, aliases' \in 0..MaxSaves, counted' \in 0..MaxSaves,
           reloadLock' \in Threads \cup {None}, lock' \in Threads \cup {"event", None},
           watcher' \in WatcherStates, conns' \in [Conns -> ConnStates],
           LocksAgree', BusyAgree', NeverMixed', CountAgrees'
    PROVE  Inv'
<1>1. reloading' \in [Threads -> ReloadStates]
  BY ZenonT(30) DEF Inv, Core, DaemonTypeOK, ReloadStates
<1>2. DaemonTypeOK'
  BY ZenonT(30), <1>1 DEF Inv, Core, DaemonTypeOK, ReloadStates, WatcherStates, ConnStates
<1>3. StartsAlone' /\ PortOutlivesWatchdog'
  BY ZenonT(30) DEF Inv, Core, StartsAlone, Booting, PortOutlivesWatchdog
<1> QED
  BY ZenonT(30), <1>2, <1>3 DEF Inv, Core

\* What the lemmas below need of it: the types,
LEMMA CoreTypes ==
    ASSUME Inv
    PROVE  /\ reloading \in [Threads -> ReloadStates] /\ conns \in [Conns -> ConnStates] /\ watcher \in WatcherStates
           /\ rules \in 0..MaxSaves /\ aliases \in 0..MaxSaves /\ counted \in 0..MaxSaves
           /\ file \in Files /\ file.version \in 0..MaxSaves
           /\ reloadLock \in Threads \cup {None} /\ lock \in Threads \cup {"event", None}
           /\ None \notin Threads /\ "event" \notin Threads /\ "watcher" \in Threads /\ Conns \subseteq Threads
<1>1. file.version \in 0..MaxSaves
  BY ZenonT(30) DEF Inv, Core, DaemonTypeOK, Files
<1>2. None \notin Threads /\ "event" \notin Threads /\ "watcher" \in Threads /\ Conns \subseteq Threads
  BY ZenonT(30) DEF Threads
<1> QED
  BY ZenonT(30), <1>1, <1>2 DEF Inv, Core, DaemonTypeOK, ReloadStates, ConnStates, WatcherStates

\* and what the threads agree on.
LEMMA CoreAgrees ==
    ASSUME Inv
    PROVE  /\ LocksAgree /\ BusyAgree /\ NeverMixed /\ CountAgrees
           /\ \A t \in Threads : reloading[t].pc # "idle" => ~Booting
BY ZenonT(30) DEF Inv, Core, StartsAlone

\* A reload is asked for: by the watcher, by SIGHUP or by a connection.
LEMMA EnterCore ==
    ASSUME Inv, WindowCloses \/ Hangup \/ \E c \in Conns : RequestReload(c)
    PROVE  Inv'
<1>1. ASSUME NEW t \in Threads, reloading[t].pc = "idle", reloading' = Enter(t), ~Booting,
             UNCHANGED <<mode, file, noticed, stage, rules, aliases, lock, event, reloadLock, counted, reloaded, tap>>,
             watcher' \in WatcherStates, conns' \in [Conns -> ConnStates], BusyAgree'
      PROVE  Inv'
  <2> DEFINE r == [pc |-> "lock", file |-> None]
  <2>1. r \in ReloadStates /\ reloading' = [reloading EXCEPT ![t] = r]
    BY ZenonT(30), <1>1 DEF ReloadStates, Enter
  <2>2. reloading'[t] = r /\ \A u \in Threads : u # t => reloading'[u] = reloading[u]
    BY ZenonT(30), <2>1, CoreTypes
  <2>3. LocksAgree'
    BY SMTT(30), <1>1, <2>2, CoreTypes, CoreAgrees DEF LocksAgree
  <2>4. NeverMixed' /\ CountAgrees'
    BY ZenonT(30), <1>1, <2>2, CoreTypes, CoreAgrees DEF NeverMixed, CountAgrees
  <2> HIDE DEF r
  <2> QED
    BY ZenonT(30), <1>1, <2>1, <2>3, <2>4, CoreTypes, CoreAgrees, ThreadMoves
<1>2. CASE WindowCloses
  <2>1. /\ UNCHANGED <<mode, file, noticed, stage, rules, aliases, lock, event, reloadLock, counted, reloaded, tap, conns>>
        /\ watcher = "window" /\ watcher' = "reload" /\ reloading' = Enter("watcher")
    BY ZenonT(30), <1>2 DEF WindowCloses, world, matching, serving
  <2>2. reloading["watcher"].pc = "idle" /\ ~Booting
    BY ZenonT(30), <2>1 DEF Inv, Core, BusyAgree, StartsAlone
  <2>3. BusyAgree'
    <3>1. "watcher" \notin Conns /\ reloading'["watcher"].pc = "lock" /\ \A c \in Conns : reloading'[c] = reloading[c]
      BY ZenonT(30), <2>1, CoreTypes DEF Enter
    <3> QED
      BY ZenonT(30), <2>1, <3>1, CoreTypes, CoreAgrees DEF BusyAgree
  <2> QED
    BY ZenonT(30), <1>1, <2>1, <2>2, <2>3, CoreTypes DEF WatcherStates
<1>3. CASE Hangup
  <2>1. /\ UNCHANGED <<mode, file, noticed, stage, rules, aliases, lock, event, reloadLock, counted, reloaded, tap, conns, watcher>>
        /\ stage \in Up /\ reloading["signal"].pc = "idle" /\ reloading' = Enter("signal")
    BY ZenonT(30), <1>3 DEF Hangup, world, matching, serving, watching
  <2>2. ~Booting /\ "signal" \in Threads
    BY ZenonT(30), <2>1 DEF Booting, Up, Threads
  <2>3. BusyAgree'
    <3>1. reloading'["watcher"] = reloading["watcher"] /\ \A c \in Conns : reloading'[c] = reloading[c]
      BY ZenonT(30), <2>1, CoreTypes DEF Enter
    <3> QED
      BY ZenonT(30), <2>1, <3>1, CoreTypes, CoreAgrees DEF BusyAgree
  <2> QED
    BY ZenonT(30), <1>1, <2>1, <2>2, <2>3, CoreTypes
<1>4. ASSUME NEW c \in Conns, RequestReload(c)
      PROVE  Inv'
  <2>1. /\ UNCHANGED <<mode, file, noticed, stage, rules, aliases, lock, event, reloadLock, counted, reloaded, tap, watcher>>
        /\ stage \in Up /\ conns[c] = "reading" /\ conns' = [conns EXCEPT ![c] = "blocking"] /\ reloading' = Enter(c)
    BY ZenonT(30), <1>4 DEF RequestReload, world, matching, watching
  <2>2. ~Booting /\ c \in Threads /\ c # "watcher" /\ reloading[c].pc = "idle" /\ conns' \in [Conns -> ConnStates]
    BY ZenonT(30), <2>1, CoreTypes, CoreAgrees DEF Booting, Up, BusyAgree, Busy, ConnStates
  <2>3. BusyAgree'
    <3>1. /\ reloading'["watcher"] = reloading["watcher"] /\ reloading'[c].pc = "lock" /\ conns'[c] = "blocking"
          /\ \A d \in Conns : d # c => reloading'[d] = reloading[d] /\ conns'[d] = conns[d]
      BY ZenonT(30), <2>1, <2>2, CoreTypes DEF Enter
    <3> QED
      BY SMTT(30), <2>1, <3>1, CoreTypes, CoreAgrees DEF BusyAgree, Busy
  <2> QED
    BY ZenonT(30), <1>1, <2>1, <2>2, <2>3, CoreTypes
<1> QED
  BY ZenonT(30), <1>2, <1>3, <1>4

\* The reload closure's return, which tells its caller.
LEMMA LeaveCore ==
    ASSUME Inv, NEW t \in Threads, reloading[t].pc \in {"load", "publish", "count"}, Leave(t),
           UNCHANGED <<mode, file, noticed, stage, rules, aliases, lock, event, tap>>,
           \/ reloading[t].pc # "count" /\ UNCHANGED <<counted, reloaded>>
           \/ reloading[t].pc = "count" /\ counted' = reloading[t].file.version
    PROVE  Inv'
<1>1. Idle \in ReloadStates /\ reloading' = [reloading EXCEPT ![t] = Idle] /\ reloadLock' = None /\ ~Booting
  BY ZenonT(30), CoreTypes, CoreAgrees DEF Leave, Idle, ReloadStates
<1>2. reloading'[t].pc = "idle" /\ \A u \in Threads : u # t => reloading'[u] = reloading[u]
  BY ZenonT(30), <1>1, CoreTypes DEF Idle
<1>3. \A u \in Threads : u # t => reloading[u].pc \notin {"load", "publish", "aliases", "count"}
  BY ZenonT(30), CoreTypes, CoreAgrees DEF LocksAgree
<1>4. LocksAgree'
  BY ZenonT(30), <1>1, <1>2, <1>3, CoreTypes, CoreAgrees DEF LocksAgree
<1>5. counted' \in 0..MaxSaves /\ CountAgrees' /\ NeverMixed'
  <2>1. reloading[t].pc = "count" => reloading[t].file.version = rules
    BY ZenonT(30), CoreTypes, CoreAgrees DEF LocksAgree
  <2> QED
    BY SMTT(30), <1>2, <1>3, <2>1, CoreTypes, CoreAgrees DEF CountAgrees, NeverMixed
<1>6. /\ watcher' = (IF t = "watcher" THEN "recv" ELSE watcher) /\ watcher' \in WatcherStates
      /\ conns' \in [Conns -> ConnStates]
      /\ \A c \in Conns : IF c = t THEN conns'[c] \notin Busy ELSE conns'[c] = conns[c]
  BY ZenonT(30), CoreTypes DEF Leave, serving, WatcherStates, ConnStates, Busy
<1>7. BusyAgree'
  <2>1. \A c \in Conns : reloading'[c].pc # "idle" <=> conns'[c] \in Busy
    BY ZenonT(30), <1>2, <1>6, CoreTypes, CoreAgrees DEF BusyAgree
  <2>2. reloading'["watcher"].pc # "idle" <=> watcher' = "reload"
    BY ZenonT(30), <1>2, <1>6, CoreTypes, CoreAgrees DEF BusyAgree
  <2> QED
    BY ZenonT(30), <2>1, <2>2 DEF BusyAgree
<1>8. reloadLock' \in Threads \cup {None} /\ lock' \in Threads \cup {"event", None}
      /\ rules' \in 0..MaxSaves /\ aliases' \in 0..MaxSaves
  BY ZenonT(30), <1>1, CoreTypes
<1> QED
  BY ZenonT(30), <1>1, <1>4, <1>5, <1>6, <1>7, <1>8, ThreadMoves

\* A step of the reload closure, in any thread: only the thread that holds reload_lock goes
\* past it, and only under the matching lock can rules and aliases differ.
LEMMA ReloadCore ==
    ASSUME Inv, NEW t \in Threads, Reload(t)
    PROVE  Inv'
<1>1. ASSUME NEW r \in ReloadStates, reloading' = [reloading EXCEPT ![t] = r], reloading[t].pc # "idle", r.pc # "idle",
             UNCHANGED <<mode, file, noticed, stage, event, tap, counted, watcher, conns>>,
             rules' \in 0..MaxSaves, aliases' \in 0..MaxSaves,
             reloadLock' \in Threads \cup {None}, lock' \in Threads \cup {"event", None},
             LocksAgree', NeverMixed', CountAgrees'
      PROVE  Inv'
  <2>1. reloading'[t] = r /\ \A u \in Threads : u # t => reloading'[u] = reloading[u]
    BY ZenonT(30), <1>1, CoreTypes
  <2>2. BusyAgree'
    <3>1. \A u \in Threads : reloading'[u].pc = "idle" <=> reloading[u].pc = "idle"
      BY ZenonT(30), <1>1, <2>1
    <3> QED
      BY ZenonT(30), <1>1, <3>1, CoreTypes, CoreAgrees DEF BusyAgree
  <2> QED
    BY ZenonT(30), <1>1, <2>2, CoreTypes, CoreAgrees, ThreadMoves
<1>2. CASE ReloadLock(t)
  <2> DEFINE r == [reloading[t] EXCEPT !.pc = "load"]
  <2>1. /\ UNCHANGED <<mode, file, noticed, stage, rules, aliases, lock, event, tap, counted, reloaded, watcher, conns>>
        /\ reloading[t].pc = "lock" /\ reloadLock = None /\ reloadLock' = t
        /\ reloading' = [reloading EXCEPT ![t] = r]
    BY ZenonT(30), <1>2 DEF ReloadLock, world, matching, watching, serving
  <2>2. r \in ReloadStates /\ r.pc = "load"
    BY ZenonT(30), CoreTypes DEF ReloadStates
  <2> HIDE DEF r
  <2>3. reloading'[t] = r /\ \A u \in Threads : u # t => reloading'[u] = reloading[u]
    BY ZenonT(30), <2>1, CoreTypes
  <2>4. LocksAgree'
    BY ZenonT(30), <2>1, <2>2, <2>3, CoreTypes, CoreAgrees DEF LocksAgree
  <2>5. NeverMixed' /\ CountAgrees'
    BY ZenonT(30), <2>1, <2>2, <2>3, CoreTypes, CoreAgrees DEF NeverMixed, CountAgrees
  <2> QED
    BY ZenonT(30), <1>1, <2>1, <2>2, <2>4, <2>5, CoreTypes
<1>3. CASE ReloadLoad(t)
  <2>1. /\ reloading[t].pc = "load"
        /\ UNCHANGED <<mode, file, noticed, stage, rules, aliases, lock, event, tap, counted, reloaded>>
    BY ZenonT(30), <1>3 DEF ReloadLoad, world, matching
  <2>2. CASE Leave(t)
    BY ZenonT(30), <2>1, <2>2, LeaveCore
  <2>3. CASE ~Leave(t)
    <3> DEFINE r == [pc |-> "publish", file |-> file]
    <3>1. reloading' = [reloading EXCEPT ![t] = r] /\ UNCHANGED <<reloadLock, watcher, conns>>
      BY ZenonT(30), <1>3, <2>3 DEF ReloadLoad, watching, serving
    <3>2. r \in ReloadStates /\ r.pc = "publish" /\ r.file = file
      BY ZenonT(30), CoreTypes DEF ReloadStates
    <3> HIDE DEF r
    <3>3. reloading'[t] = r /\ \A u \in Threads : u # t => reloading'[u] = reloading[u]
      BY ZenonT(30), <3>1, CoreTypes
    <3>4. LocksAgree'
      BY SMTT(30), <2>1, <3>1, <3>2, <3>3, CoreTypes, CoreAgrees DEF LocksAgree
    <3>5. NeverMixed' /\ CountAgrees'
      BY ZenonT(30), <2>1, <3>1, <3>2, <3>3, CoreTypes, CoreAgrees DEF NeverMixed, CountAgrees
    <3> QED
      BY ZenonT(30), <1>1, <2>1, <3>1, <3>2, <3>4, <3>5, CoreTypes
  <2> QED
    BY ZenonT(30), <2>2, <2>3
<1>4. CASE ReplaceRules(t)
  <2>1. /\ reloading[t].pc = "publish" /\ lock = None
        /\ UNCHANGED <<mode, file, noticed, stage, aliases, event, tap, counted, reloaded>>
    BY ZenonT(30), <1>4 DEF ReplaceRules, world
  <2>2. CASE Leave(t) /\ UNCHANGED <<rules, lock>>
    BY ZenonT(30), <2>1, <2>2, LeaveCore
  <2>3. CASE ~(Leave(t) /\ UNCHANGED <<rules, lock>>)
    <3> DEFINE r == [reloading[t] EXCEPT !.pc = "aliases"]
    <3>1. /\ rules' = reloading[t].file.version /\ lock' = t
          /\ reloading' = [reloading EXCEPT ![t] = r] /\ UNCHANGED <<reloadLock, watcher, conns>>
      BY ZenonT(30), <1>4, <2>3 DEF ReplaceRules, watching, serving
    <3>2. r \in ReloadStates /\ r.pc = "aliases" /\ r.file = reloading[t].file
      BY ZenonT(30), CoreTypes DEF ReloadStates
    <3> HIDE DEF r
    <3>3. reloading'[t] = r /\ \A u \in Threads : u # t => reloading'[u] = reloading[u]
      BY ZenonT(30), <3>1, CoreTypes
    <3>4. /\ reloading[t].file \in Files /\ reloading[t].file.version \in rules..file.version /\ reloadLock = t
          /\ \A u \in Threads : u # t => reloading[u].pc \notin {"load", "publish", "aliases", "count"}
          /\ event = None /\ rules = aliases
      BY ZenonT(30), <2>1, CoreTypes, CoreAgrees DEF LocksAgree
    <3>5. rules' \in 0..MaxSaves /\ aliases' <= rules' /\ rules' <= file.version /\ rules' \in rules'..file.version
      BY SMTT(30), <2>1, <3>1, <3>4, CoreTypes
    <3>6. LocksAgree'
      BY ZenonT(30), <2>1, <3>1, <3>2, <3>3, <3>4, <3>5, CoreTypes, CoreAgrees DEF LocksAgree
    <3>7. NeverMixed' /\ CountAgrees'
      BY ZenonT(30), <2>1, <3>2, <3>3, <3>4 DEF NeverMixed, CountAgrees
    <3> QED
      BY ZenonT(30), <1>1, <2>1, <3>1, <3>2, <3>5, <3>6, <3>7, CoreTypes
  <2> QED
    BY ZenonT(30), <2>2, <2>3
<1>5. CASE ReplaceAliases(t)
  <2> DEFINE r == [reloading[t] EXCEPT !.pc = "count"]
  <2>1. /\ UNCHANGED <<mode, file, noticed, stage, rules, event, tap, counted, reloaded, reloadLock, watcher, conns>>
        /\ reloading[t].pc = "aliases" /\ aliases' = reloading[t].file.version /\ lock' = None
        /\ reloading' = [reloading EXCEPT ![t] = r]
    BY ZenonT(30), <1>5 DEF ReplaceAliases, world, watching, serving
  <2>2. r \in ReloadStates /\ r.pc = "count" /\ r.file = reloading[t].file
    BY ZenonT(30), CoreTypes DEF ReloadStates
  <2> HIDE DEF r
  <2>3. reloading'[t] = r /\ \A u \in Threads : u # t => reloading'[u] = reloading[u]
    BY ZenonT(30), <2>1, CoreTypes
  <2>4. aliases' = rules /\ lock = t /\ event = None /\ reloadLock = t /\ rules \in Nat
    BY <2>1, CoreTypes, CoreAgrees DEF LocksAgree
  <2>5. LocksAgree'
    BY SMTT(30), <2>1, <2>2, <2>3, <2>4, CoreTypes, CoreAgrees DEF LocksAgree
  <2>6. NeverMixed' /\ CountAgrees'
    BY ZenonT(30), <2>1, <2>2, <2>3, <2>4 DEF NeverMixed, CountAgrees
  <2> QED
    BY ZenonT(30), <1>1, <2>1, <2>2, <2>4, <2>5, <2>6, CoreTypes
<1>6. CASE Count(t)
  BY ZenonT(30), <1>6, LeaveCore DEF Count, world, matching
<1> QED
  BY ZenonT(30), <1>2, <1>3, <1>4, <1>5, <1>6 DEF Reload

\* The other steps of the IPC server leave busy connections busy and the others not.
LEMMA ServerCore ==
    ASSUME Inv, (\E c \in Conns : Accept(c) \/ Closes(c) \/ TimesOut(c)) \/ StopServer
    PROVE  Inv'
<1>1. /\ UNCHANGED <<mode, rules, aliases, lock, event, reloading, reloadLock, counted, reloaded>>
      /\ UNCHANGED <<file, noticed, watcher, tap>>
  BY ZenonT(30) DEF Accept, Closes, TimesOut, StopServer, world, matching, reloads, watching
<1>2. /\ file \in Files /\ noticed \in BOOLEAN /\ stage \in Stages /\ watcher \in WatcherStates /\ tap \in TapType
      /\ PortOutlivesWatchdog
  BY ZenonT(30) DEF Inv, Core, DaemonTypeOK, Stages, WatcherStates, TapType
<1>3. file.version <= file'.version /\ PortOutlivesWatchdog'
  BY <1>1, <1>2 DEF Files, PortOutlivesWatchdog
<1>4. /\ conns' \in [Conns -> ConnStates] /\ \A c \in Conns : conns'[c] \in Busy <=> conns[c] \in Busy
      /\ stage' \in Stages /\ ~Booting'
      /\ stage' \in {"load", "installed"} => stage' = stage
  <2>1. Booting => \A c \in Conns : conns[c] = "free"
    BY ZenonT(30) DEF Inv, Core, StartsAlone
  <2>2. ASSUME NEW c \in Conns, Accept(c) \/ Closes(c) \/ TimesOut(c)
        PROVE  /\ conns' \in [Conns -> ConnStates] /\ \A d \in Conns : conns'[d] \in Busy <=> conns[d] \in Busy
               /\ stage' = stage /\ ~Booting
    <3>1. CASE Accept(c)
      BY ZenonT(30), <3>1, CoreTypes DEF Accept, ConnStates, Busy, Up, Booting
    <3>2. CASE Closes(c)
      BY ZenonT(30), <2>1, <3>2, CoreTypes DEF Closes, ConnStates, Busy
    <3>3. CASE TimesOut(c)
      BY ZenonT(30), <2>1, <3>3, CoreTypes DEF TimesOut, ConnStates, Busy
    <3> QED
      BY ZenonT(30), <2>2, <3>1, <3>2, <3>3
  <2>3. CASE StopServer
    BY ZenonT(30), <2>3, CoreTypes DEF StopServer, ConnStates, Busy, Stages, Booting
  <2> QED
    BY ZenonT(30), <1>2, <2>2, <2>3 DEF Booting
<1> QED
  BY ZenonT(30), <1>1, <1>2, <1>3, <1>4, CoreFrame

\* Every step preserves it.
LEMMA NextCore == Inv /\ [Next]_vars => Inv'
<1> SUFFICES ASSUME Inv, [Next]_vars PROVE Inv'
  OBVIOUS
<1>1. CASE UNCHANGED vars
  <2>1. /\ UNCHANGED <<mode, rules, aliases, lock, event, reloading, reloadLock, counted, reloaded, conns>>
        /\ UNCHANGED <<file, noticed, stage, watcher, tap>>
    BY ZenonT(30), <1>1 DEF vars, world, matching, reloads, watching, serving
  <2>2. /\ file \in Files /\ noticed \in BOOLEAN /\ stage \in Stages /\ watcher \in WatcherStates /\ tap \in TapType
        /\ (Booting => watcher = "off") /\ PortOutlivesWatchdog
    BY ZenonT(30) DEF Inv, Core, DaemonTypeOK, StartsAlone, Stages, WatcherStates, TapType
  <2>3. file.version <= file'.version
    BY SMTT(30), <2>1, <2>2 DEF Files
  <2>4. (Booting' <=> Booting) /\ PortOutlivesWatchdog'
    BY ZenonT(30), <2>1, <2>2 DEF Booting, PortOutlivesWatchdog
  <2> QED
    BY ZenonT(30), <2>1, <2>2, <2>3, <2>4, CoreTypes, CoreFrame
<1>2. CASE Next
  <2>1. "signal" \in Threads /\ "watcher" \in Threads /\ Conns \subseteq Threads
    BY ZenonT(30) DEF Threads
  <2> QED
    BY ZenonT(30), <1>2, <2>1, QuietCore, MatchingCore, EnterCore, ReloadCore, ServerCore
    DEF Next, Main, Watcher, Watchdog, Request, MainStops, MainFails
<1> QED
  BY ZenonT(30), <1>1, <1>2

-----------------------------------------------------------------------------
(* What validation ensures.                                                *)

\* An identity that an alias of a validated map declares is resolved to that alias, on
\* every platform and whatever the legacy identifiers are.
LEMMA DeclaredResolves ==
    ASSUME NEW apps, DOMAIN apps \subseteq Nat, validate_app_aliases(apps),
           NEW n \in DOMAIN apps, NEW identity \in app_identities(apps[n]), NEW platform, NEW focused
    PROVE  resolve_focused_app(apps, platform, focused, identity) = n
<1>1. {m \in DOMAIN apps : identity \in app_identities(apps[m])} = {n}
  BY ZenonT(30) DEF validate_app_aliases
<1>2. n \in Nat /\ n # None
  BY ZenonT(30), ConfigAssumption
<1>3. (CHOOSE k \in {n} : \A m \in {n} : k <= m) = n
  BY SMTT(30), <1>2
<1>4. resolve_app_identity(apps, identity) = n
  BY ZenonT(30), <1>1, <1>3 DEF resolve_app_identity
<1> QED
  BY ZenonT(30), <1>2, <1>4 DEF resolve_focused_app

\* What a text compiles to resolves its own scopes.
LEMMA CompiledResolves ==
    ASSUME NEW text \in Documents, Compiled(text) # None
    PROVE  ScopesResolve(Compiled(text), Compiled(text).app_aliases)
<1> DEFINE binding(i) == validate_binding(text.bindings[i], text.app_aliases, text.input_source_aliases, Platform)
<1>1. /\ text # None /\ validate_app_aliases(text.app_aliases)
      /\ Compiled(text) = [app_aliases |-> text.app_aliases, rules |-> [i \in DOMAIN text.bindings |-> binding(i)]]
      /\ \A i \in DOMAIN text.bindings : binding(i) # None
  BY ZenonT(30) DEF Compiled, parse_str_for_platform, validate
<1>2. Compiled(text).app_aliases = text.app_aliases
  BY SMTT(30), <1>1
<1>3. ASSUME NEW i \in DOMAIN text.bindings, binding(i).when_app_in # None
      PROVE  binding(i).when_app_in \subseteq DOMAIN text.app_aliases
  <2>1. binding(i) # None
    BY ZenonT(30), <1>1
  <2>2. validate_when(text.bindings[i].app_in, text.app_aliases) /\ binding(i).when_app_in = text.bindings[i].app_in
    BY ZenonT(30), <2>1 DEF validate_binding
  <2> QED
    BY ZenonT(30), <1>3, <2>2 DEF validate_when
<1>4. ASSUME NEW n \in DOMAIN text.app_aliases, NEW identity \in app_identities(text.app_aliases[n])
      PROVE  resolve_focused_app(text.app_aliases, Platform, identity[2], identity) = n
  BY ZenonT(30), <1>1, DeclaredResolves, DocumentsAssumption
<1> HIDE DEF binding
<1>5. DOMAIN Compiled(text).rules = DOMAIN text.bindings /\ \A i \in DOMAIN text.bindings : Compiled(text).rules[i] = binding(i)
  BY SMTT(30), <1>1
<1> QED
  BY ZenonT(30), <1>2, <1>3, <1>4, <1>5 DEF ScopesResolve

-----------------------------------------------------------------------------
(* What the versions of the file hold.                                     *)

\* A step that writes no file; it may load it, and publish what compiled.
LEMMA SavedFrame ==
    ASSUME SavedAgrees, UNCHANGED <<mode, file, saved>>, saved[rules'] # None, saved[aliases'] # None,
           (mode = "installed" /\ stage' \notin {"load", "installed", "exit"}) => Kind(saved[rules']) = "valid",
           \A t \in Threads : reloading'[t].pc \in {"publish", "aliases", "count"} =>
              \/ reloading[t].pc \in {"publish", "aliases", "count"} /\ reloading'[t].file = reloading[t].file
              \/ reloading'[t].file = file /\ file.kind # "invalid",
           event' # None => stage' = "running"
    PROVE  SavedAgrees'
BY ZenonT(30) DEF SavedAgrees, Kind, ScopesResolve, Platform

\* The first version of the file is one that the daemon can start with.
LEMMA InitSaved == Init => SavedAgrees
<1> SUFFICES ASSUME Init PROVE SavedAgrees
  OBVIOUS
<1>1. PICK text \in Documents : /\ Kind(Compiled(text)) = "valid" /\ file = [version |-> 0, kind |-> "valid"]
                               /\ saved = [v \in 0..MaxSaves |-> IF v = 0 THEN Compiled(text) ELSE None]
  BY ZenonT(30) DEF Init
<1>2. Compiled(text) # None
  BY ZenonT(30), <1>1 DEF Kind
<1>3. ScopesResolve(Compiled(text), Compiled(text).app_aliases)
  BY ZenonT(30), <1>2, CompiledResolves
<1>4. saved = [v \in 0..MaxSaves |-> saved[v]] /\ saved[0] = Compiled(text)
      /\ \A v \in 0..MaxSaves : saved[v] # None => v = 0
  BY SMTT(30), <1>1
<1>5. /\ rules = 0 /\ aliases = 0 /\ stage = "load" /\ event = None
      /\ \A t \in Threads : reloading[t].pc = "idle"
  BY ZenonT(30) DEF Init, Idle
<1> QED
  BY ZenonT(30), <1>1, <1>2, <1>3, <1>4, <1>5 DEF SavedAgrees

\* A write of the file adds a version, after those in force or being published.
LEMMA SaveSaved ==
    ASSUME Inv, SavedAgrees, NEW text \in Documents, Save(text)
    PROVE  SavedAgrees'
<1> DEFINE new == file.version + 1
<1>1. /\ new \in 0..MaxSaves /\ file' = [version |-> new, kind |-> Kind(Compiled(text))]
      /\ saved' = [saved EXCEPT ![new] = Compiled(text)]
      /\ UNCHANGED <<mode, stage, rules, aliases, event, reloading>>
  BY SMTT(30) DEF Save, Inv, Core, DaemonTypeOK, Files, matching, reloads
<1>2. rules < new /\ aliases < new /\ rules \in 0..MaxSaves /\ aliases \in 0..MaxSaves
  BY SMTT(30) DEF Inv, Core, DaemonTypeOK, LocksAgree, Files
<1>3. ASSUME NEW t \in Threads, reloading[t].pc \in {"publish", "aliases", "count"}
      PROVE  reloading[t].file.version < new /\ reloading[t].file.version \in 0..MaxSaves
  BY SMTT(30), <1>3 DEF Inv, Core, DaemonTypeOK, LocksAgree, Files
<1>4. Compiled(text) # None => ScopesResolve(Compiled(text), Compiled(text).app_aliases)
  BY ZenonT(30), CompiledResolves
<1>5. /\ saved' = [v \in 0..MaxSaves |-> saved'[v]] /\ saved'[new] = Compiled(text)
      /\ \A v \in 0..MaxSaves : v # new => saved'[v] = saved[v]
  BY ZenonT(30), <1>1 DEF SavedAgrees
<1> HIDE DEF new
<1>6. Platform' = Platform
  BY ZenonT(30), <1>1 DEF Platform
<1>7. \A v \in 0..MaxSaves : (saved[v] # None => ScopesResolve(saved[v], saved[v].app_aliases))'
  <2> TAKE v \in 0..MaxSaves
  <2>1. saved'[v] # None => ScopesResolve(saved'[v], saved'[v].app_aliases)
    BY ZenonT(30), <1>4, <1>5 DEF SavedAgrees
  <2> QED
    BY ZenonT(30), <1>6, <2>1 DEF ScopesResolve
<1>8. \A t \in Threads : reloading'[t].pc \in {"publish", "aliases", "count"} =>
         /\ reloading'[t].file.kind = Kind(saved'[reloading'[t].file.version])
         /\ reloading'[t].file.kind # "invalid"
  <2> SUFFICES ASSUME NEW t \in Threads, reloading[t].pc \in {"publish", "aliases", "count"}
               PROVE  /\ reloading[t].file.kind = Kind(saved'[reloading[t].file.version])
                      /\ reloading[t].file.kind # "invalid"
    BY ZenonT(30), <1>1
  <2>1. reloading[t].file.version \in 0..MaxSaves /\ reloading[t].file.version < new
    BY ZenonT(30), <1>3
  <2>2. reloading[t].file.version # new
    BY ONLY SMTT(30), <2>1
  <2>3. saved'[reloading[t].file.version] = saved[reloading[t].file.version]
    BY ZenonT(30), <1>5, <2>1, <2>2
  <2> QED
    BY ZenonT(30), <2>3 DEF SavedAgrees
<1>9. /\ saved'[rules'] # None /\ saved'[aliases'] # None
      /\ (mode' = "installed" /\ stage' \notin {"load", "installed", "exit"}) => Kind(saved'[rules']) = "valid"
      /\ event' # None => stage' = "running"
  BY SMTT(30), <1>1, <1>2, <1>5 DEF SavedAgrees
<1>10. file'.kind = Kind(saved'[file'.version])
  BY ZenonT(30), <1>1, <1>5
<1> QED
  <2>1. \A t \in Threads : (reloading[t].pc \in {"publish", "aliases", "count"} =>
           reloading[t].file.kind = Kind(saved[reloading[t].file.version]) /\ reloading[t].file.kind # "invalid")'
    BY ZenonT(30), <1>1, <1>8 DEF Kind
  <2>2. ((mode = "installed" /\ stage \notin {"load", "installed", "exit"}) => Kind(saved[rules]) = "valid")'
    BY ZenonT(30), <1>1, <1>9 DEF Kind
  <2>3. (file.kind = Kind(saved[file.version]))'
    BY ZenonT(30), <1>1, <1>10 DEF Kind
  <2> QED
    BY ZenonT(30), <1>5, <1>7, <1>9, <2>1, <2>2, <2>3 DEF SavedAgrees

\* Main's own loads: what they put in force was not refused.
LEMMA LoadSaved ==
    ASSUME Inv, SavedAgrees, Load \/ LoadInstalled
    PROVE  SavedAgrees'
<1>1. /\ UNCHANGED <<mode, file, saved, event, reloading>>
      /\ event = None /\ file.version \in 0..MaxSaves
  BY ZenonT(30) DEF Load, LoadInstalled, world, reloads, Inv, Core, StartsAlone, Booting, DaemonTypeOK, Files
<1>2. \/ stage' = "exit" /\ UNCHANGED <<rules, aliases>>
      \/ /\ rules' = file.version /\ aliases' = file.version /\ file.kind # "invalid"
         /\ mode = "installed" => (stage' = "installed" \/ file.kind = "valid")
  BY ZenonT(30) DEF Load, LoadInstalled, Accepted
<1>3. (saved[file.version] # None \/ file.kind = "invalid") /\ file.kind = Kind(saved[file.version])
  BY ZenonT(30) DEF SavedAgrees, Kind
<1>4. /\ saved[rules'] # None /\ saved[aliases'] # None
      /\ (mode = "installed" /\ stage' \notin {"load", "installed", "exit"}) => Kind(saved[rules']) = "valid"
  BY ZenonT(30), <1>2, <1>3 DEF SavedAgrees
<1> QED
  BY ZenonT(30), <1>1, <1>4, SavedFrame

\* The reload closure: what it publishes is what it loaded, and the installed mode refuses
\* what it cannot honour.
LEMMA ReloadSaved ==
    ASSUME Inv, SavedAgrees, NEW t \in Threads, Reload(t)
    PROVE  SavedAgrees'
<1>0. reloading \in [Threads -> ReloadStates]
  BY ZenonT(30), CoreTypes
<1>1. UNCHANGED <<mode, file, saved, stage, event>>
  BY ZenonT(30) DEF Reload, ReloadLock, ReloadLoad, ReplaceRules, ReplaceAliases, Count, world, matching
<1>2. CASE ReloadLock(t) \/ Count(t)
  <2>1. UNCHANGED <<rules, aliases>>
    BY ZenonT(30), <1>2 DEF ReloadLock, Count, matching
  <2>2. \/ reloading' = [reloading EXCEPT ![t] = Idle]
        \/ reloading' = [reloading EXCEPT ![t].pc = "load"]
    BY ZenonT(30), <1>2 DEF ReloadLock, Count, Leave
  <2>3. reloading'[t].pc \in {"load", "idle"} /\ \A u \in Threads \ {t} : reloading'[u] = reloading[u]
    BY SMTT(30), <1>0, <2>2 DEF Idle, ReloadStates
  <2> QED
    BY ZenonT(30), <1>1, <2>1, <2>3, SavedFrame DEF SavedAgrees
<1>3. CASE ReloadLoad(t)
  <2>1. UNCHANGED <<rules, aliases>>
    BY ZenonT(30), <1>3 DEF ReloadLoad, matching
  <2>2. \/ reloading' = [reloading EXCEPT ![t] = Idle]
        \/ file.kind # "invalid" /\ reloading' = [reloading EXCEPT ![t] = [pc |-> "publish", file |-> file]]
    BY ZenonT(30), <1>3 DEF ReloadLoad, Leave
  <2>3. /\ \A u \in Threads \ {t} : reloading'[u] = reloading[u]
        /\ reloading'[t].pc = "idle" \/ (reloading'[t].file = file /\ file.kind # "invalid")
    BY SMTT(30), <1>0, <2>2 DEF Idle
  <2> QED
    BY ZenonT(30), <1>1, <2>1, <2>3, SavedFrame DEF SavedAgrees
<1>4. CASE ReplaceRules(t)
  <2>0. /\ UNCHANGED aliases /\ reloading[t].pc = "publish"
        /\ \/ UNCHANGED rules /\ reloading' = [reloading EXCEPT ![t] = Idle]
           \/ /\ reloading' = [reloading EXCEPT ![t].pc = "aliases"] /\ rules' = reloading[t].file.version
              /\ ~(mode = "installed" /\ reloading[t].file.kind = "unsupported")
    BY ZenonT(30), <1>4 DEF ReplaceRules, Leave
  <2>1. \A u \in Threads \ {t} : reloading'[u] = reloading[u]
    BY ZenonT(30), <1>0, <2>0
  <2>2. \/ UNCHANGED rules /\ reloading'[t].pc = "idle"
        \/ /\ reloading[t].pc = "publish" /\ reloading'[t].file = reloading[t].file
           /\ rules' = reloading[t].file.version /\ (mode = "installed" => reloading[t].file.kind # "unsupported")
    BY SMTT(30), <1>0, <2>0 DEF Idle, ReloadStates
  <2>3. reloading[t].pc = "publish" => reloading[t].file.version \in 0..MaxSaves
    BY ZenonT(30), CoreTypes, CoreAgrees DEF LocksAgree, Files
  <2>4. saved[rules'] # None /\ ((mode = "installed" /\ rules' # rules) => Kind(saved[rules']) = "valid")
    BY ZenonT(30), <2>2, <2>3 DEF SavedAgrees, Kind
  <2> QED
    BY ZenonT(30), <1>1, <2>0, <2>1, <2>2, <2>4, SavedFrame DEF SavedAgrees
<1>5. CASE ReplaceAliases(t)
  <2>1. /\ UNCHANGED rules /\ \A u \in Threads \ {t} : reloading'[u] = reloading[u]
        /\ reloading[t].pc = "aliases" /\ reloading'[t].file = reloading[t].file /\ aliases' = reloading[t].file.version
    BY SMTT(30), <1>0, <1>5 DEF ReplaceAliases
  <2>2. aliases' = rules
    BY ZenonT(30), <2>1, CoreTypes, CoreAgrees DEF LocksAgree
  <2> QED
    BY ZenonT(30), <1>1, <2>1, <2>2, SavedFrame DEF SavedAgrees
<1> QED
  BY ZenonT(30), <1>2, <1>3, <1>4, <1>5 DEF Reload

\* The steps of the other threads.
LEMMA OthersSaved ==
    ASSUME Inv, SavedAgrees,
           \/ Touch \/ Hangup \/ Terminate \/ TapDisabled \/ Dispatch \/ InstallTap \/ MainEnds
           \/ Serve \/ Settle \/ DestroyTap \/ StopServer \/ ServerDrained \/ Exit \/ Watchdog
           \/ WatchBegins \/ Drain \/ WindowCloses \/ WatchEnds
           \/ \E c \in Conns : Accept(c) \/ TimesOut(c) \/ RequestReload(c) \/ Closes(c)
    PROVE  SavedAgrees'
<1>1. UNCHANGED <<mode, file, saved, rules, aliases>>
  BY ZenonT(30) DEF Touch, Hangup, Terminate, TapDisabled, Dispatch, InstallTap, MainEnds, Serve, Settle, DestroyTap,
     StopServer, ServerDrained, Exit, Watchdog, WatchdogWakes, WatchdogChecks, WatchBegins, Drain, WindowCloses, WatchEnds,
     Accept, TimesOut, RequestReload, Closes, world, matching
<1>2. \/ UNCHANGED reloading
      \/ \E t \in Threads : reloading' = Enter(t)
  BY ZenonT(30) DEF Touch, Hangup, Terminate, TapDisabled, Dispatch, InstallTap, MainEnds, Serve, Settle, DestroyTap,
     StopServer, ServerDrained, Exit, Watchdog, WatchdogWakes, WatchdogChecks, WatchBegins, Drain, WindowCloses, WatchEnds,
     Accept, TimesOut, RequestReload, Closes, reloads, Threads
<1>3. \A t \in Threads : reloading'[t].pc \in {"publish", "aliases", "count"} =>
         reloading[t].pc \in {"publish", "aliases", "count"} /\ reloading'[t].file = reloading[t].file
  BY SMTT(30), <1>2 DEF Enter, Inv, Core, DaemonTypeOK
<1>4. /\ stage' \notin {"load", "installed", "exit"} => stage \notin {"load", "installed", "exit"}
      /\ event' # None => stage' = "running"
  <2>1. CASE UNCHANGED <<stage, event>>
    BY ZenonT(30), <2>1 DEF SavedAgrees
  <2>2. CASE MainEnds \/ Serve \/ StopServer \/ ServerDrained \/ Exit
    BY ZenonT(30), <2>2 DEF MainEnds, Serve, StopServer, ServerDrained, Exit, matching, SavedAgrees
  <2>3. CASE Dispatch \/ Settle
    BY ZenonT(30), <2>3 DEF Dispatch, Settle, SavedAgrees
  <2> QED
    BY ZenonT(30), <2>1, <2>2, <2>3 DEF Touch, Hangup, Terminate, TapDisabled, InstallTap, DestroyTap,
       Watchdog, WatchdogWakes, WatchdogChecks, WatchBegins, Drain, WindowCloses, WatchEnds,
       Accept, TimesOut, RequestReload, Closes, matching
<1> QED
  BY ZenonT(30), <1>1, <1>3, <1>4, SavedFrame DEF SavedAgrees

\* Every step preserves it.
LEMMA NextSaved == Inv /\ SavedAgrees /\ [Next]_vars => SavedAgrees'
<1> SUFFICES ASSUME Inv, SavedAgrees, [Next]_vars PROVE SavedAgrees'
  BY ZenonT(30)
<1>1. CASE UNCHANGED vars
  <2>1. UNCHANGED <<mode, file, saved, rules, aliases, reloading, stage, event>>
    BY ZenonT(30), <1>1 DEF vars, world, matching, reloads
  <2> QED
    BY ZenonT(30), <2>1 DEF SavedAgrees, Kind, ScopesResolve, Platform
<1>2. CASE Next
  <2>1. "signal" \in Threads /\ "watcher" \in Threads /\ Conns \subseteq Threads
    BY ZenonT(30) DEF Threads
  <2> QED
    BY ZenonT(30), <1>2, <2>1, SaveSaved, LoadSaved, ReloadSaved, OthersSaved
    DEF Next, Main, Watcher, Request, MainStops, MainFails
<1> QED
  BY ZenonT(30), <1>1, <1>2

-----------------------------------------------------------------------------
(* Counting connections.                                                   *)

Taken(f) == {c \in Conns : f[c] # "free"}

\* The connections that hold a permit can be counted.
LEMMA TakenFinite ==
    ASSUME NEW f
    PROVE  IsFiniteSet(Taken(f)) /\ Cardinality(Taken(f)) \in Nat
<1>1. IsFiniteSet(Taken(f))
  BY FS_Subset DEF Taken
<1> QED
  BY <1>1, FS_CardinalityType

\* Admitting a connection makes one more.
LEMMA TakenMore ==
    ASSUME NEW V, NEW f \in [Conns -> V], NEW c \in Conns, f[c] = "free", NEW v, v # "free"
    PROVE  Cardinality(Taken([f EXCEPT ![c] = v])) = Cardinality(Taken(f)) + 1
<1>1. Taken([f EXCEPT ![c] = v]) = Taken(f) \cup {c} /\ c \notin Taken(f)
  BY DEF Taken
<1>2. Cardinality(Taken(f) \cup {c}) = Cardinality(Taken(f)) + 1
  BY ZenonT(30), <1>1, TakenFinite, FS_AddElement
<1> QED
  BY ZenonT(30), <1>1, <1>2

\* Closing one makes one less.
LEMMA TakenLess ==
    ASSUME NEW V, NEW f \in [Conns -> V], NEW c \in Conns, f[c] # "free"
    PROVE  Cardinality(Taken([f EXCEPT ![c] = "free"])) = Cardinality(Taken(f)) - 1
<1>1. Taken([f EXCEPT ![c] = "free"]) = Taken(f) \ {c} /\ c \in Taken(f)
  BY DEF Taken
<1>2. Cardinality(Taken(f) \ {c}) = Cardinality(Taken(f)) - 1
  BY ZenonT(30), <1>1, TakenFinite, FS_RemoveElement
<1> QED
  BY ZenonT(30), <1>1, <1>2

\* What a connection does between the two does not change their number.
LEMMA TakenSame ==
    ASSUME NEW V, NEW f \in [Conns -> V], NEW c \in Conns, f[c] # "free", NEW v, v # "free"
    PROVE  Taken([f EXCEPT ![c] = v]) = Taken(f)
BY DEF Taken

\* Reloads of timed-out requests are among the connections that hold permits.
LEMMA Bounded ==
    ASSUME BusyAgree, PermitsAgree
    PROVE  BlockingBounded
<1> DEFINE R == {t \in Conns : reloading[t].pc # "idle"}
<1>1. R \subseteq Taken(conns)
  BY DEF BusyAgree, Taken, Busy
<1>2. IsFiniteSet(Taken(conns)) /\ Cardinality(Taken(conns)) \in Nat
  BY TakenFinite
<1>3. Cardinality(R) <= Cardinality(Taken(conns)) /\ IsFiniteSet(R)
  BY SMTT(30), <1>1, <1>2, FS_Subset
<1>4. Cardinality(R) \in Nat
  BY SMTT(30), <1>3, FS_CardinalityType
<1>5. permits = MaxConnections - Cardinality(Taken(conns)) /\ permits \in 0..MaxConnections
  BY DEF PermitsAgree, Taken
<1> HIDE DEF R
<1>6. Cardinality(R) <= MaxConnections
  BY SMTT(30), <1>2, <1>3, <1>4, <1>5
<1> QED
  BY <1>6 DEF R, BlockingBounded

-----------------------------------------------------------------------------
(* The permits at each step.                                               *)

\* One connection moves, and takes a permit, gives it back or keeps it.
LEMMA PermitsMove ==
    ASSUME PermitsAgree, conns \in [Conns -> ConnStates], NEW c \in Conns, NEW v, conns' = [conns EXCEPT ![c] = v],
           \/ conns[c] = "free" /\ v # "free" /\ permits > 0 /\ permits' = permits - 1
           \/ conns[c] # "free" /\ v = "free" /\ permits' = permits + 1
           \/ conns[c] # "free" /\ v # "free" /\ permits' = permits
    PROVE  PermitsAgree'
<1> DEFINE N == Cardinality(Taken(conns))
           M == Cardinality(Taken(conns'))
<1>1. N \in Nat /\ M \in Nat
  BY ZenonT(30), TakenFinite
<1>2. permits = MaxConnections - N /\ permits \in 0..MaxConnections
  BY ZenonT(30) DEF PermitsAgree, Taken
<1>3. \/ permits > 0 /\ permits' = permits - 1 /\ M = N + 1
      \/ permits' = permits + 1 /\ M = N - 1
      \/ permits' = permits /\ M = N
  BY ZenonT(30), TakenMore, TakenLess, TakenSame
<1> HIDE DEF N, M
<1>4. permits' = MaxConnections - M /\ permits' \in 0..MaxConnections
  BY SMTT(30), <1>1, <1>2, <1>3
<1> QED
  BY ZenonT(30), <1>4 DEF PermitsAgree, Taken, M

\* At the start all of them are in.
LEMMA InitPermits == Init => PermitsAgree
<1> SUFFICES ASSUME Init PROVE PermitsAgree
  OBVIOUS
<1>1. {c \in Conns : conns[c] # "free"} = {} /\ permits = MaxConnections
  BY ZenonT(30) DEF Init
<1>2. Cardinality({}) = 0
  BY ZenonT(30), FS_EmptySet
<1> QED
  BY SMTT(30), <1>1, <1>2 DEF PermitsAgree

\* The reload closure's return gives the permit of a timed-out request back, once.
LEMMA LeavePermits ==
    ASSUME Inv, PermitsAgree, NEW t \in Threads, reloading[t].pc # "idle", Leave(t)
    PROVE  PermitsAgree'
<1>1. conns \in [Conns -> ConnStates]
  BY ZenonT(30), CoreTypes
<1>2. CASE t \notin Conns
  BY ZenonT(30), <1>2 DEF Leave, serving, PermitsAgree
<1>3. CASE t \in Conns
  <2>1. conns[t] = "orphaned" \/ conns[t] = "blocking"
    BY ZenonT(30), <1>3, CoreAgrees DEF BusyAgree, Busy
  <2>2. CASE conns[t] = "orphaned"
    <3>1. conns' = [conns EXCEPT ![t] = "free"] /\ permits' = permits + 1
      BY ZenonT(30), <1>3, <2>2 DEF Leave
    <3> QED
      BY ZenonT(30), <1>1, <1>3, <2>2, <3>1, PermitsMove
  <2>3. CASE conns[t] = "blocking"
    <3>1. conns' = [conns EXCEPT ![t] = "writing"] /\ permits' = permits
      BY ZenonT(30), <1>3, <2>3 DEF Leave
    <3> QED
      BY ZenonT(30), <1>1, <1>3, <2>3, <3>1, PermitsMove
  <2> QED
    BY ZenonT(30), <2>1, <2>2, <2>3
<1> QED
  BY ZenonT(30), <1>2, <1>3

\* The server stops: the permits of what is left on blocking threads stay out.
LEMMA StopPermits ==
    ASSUME Inv, PermitsAgree, StopServer
    PROVE  PermitsAgree'
<1> DEFINE B == {c \in Conns : conns[c] \in Busy}
           D == {c \in Conns : conns'[c] # "free"}
<1>1. conns' = [c \in Conns |-> IF conns[c] \in Busy THEN "orphaned" ELSE "free"] /\ permits' = MaxConnections - Cardinality(B)
  BY ZenonT(30) DEF StopServer
<1>2. D = B /\ B \subseteq Taken(conns)
  BY SMTT(30), <1>1 DEF Taken, Busy
<1>3. IsFiniteSet(Taken(conns)) /\ Cardinality(Taken(conns)) \in Nat
  BY ZenonT(30), TakenFinite
<1>4. Cardinality(B) <= Cardinality(Taken(conns)) /\ IsFiniteSet(B)
  BY ZenonT(30), <1>2, <1>3, FS_Subset
<1>5. Cardinality(B) \in Nat
  BY ZenonT(30), <1>4, FS_CardinalityType
<1>6. permits = MaxConnections - Cardinality(Taken(conns)) /\ permits \in 0..MaxConnections
  BY ZenonT(30) DEF PermitsAgree, Taken
<1>7. permits' \in 0..MaxConnections
  <2> HIDE DEF B
  <2> QED
    BY SMTT(30), <1>1, <1>3, <1>4, <1>5, <1>6
<1> QED
  BY ZenonT(30), <1>1, <1>2, <1>7 DEF PermitsAgree

\* Every step preserves it.
LEMMA NextPermits == Inv /\ PermitsAgree /\ [Next]_vars => PermitsAgree'
<1> SUFFICES ASSUME Inv, PermitsAgree, [Next]_vars PROVE PermitsAgree'
  BY ZenonT(30)
<1>1. CASE UNCHANGED serving
  BY ZenonT(30), <1>1 DEF serving, PermitsAgree
<1>2. ASSUME NEW t \in Threads, Reload(t), ~UNCHANGED serving
      PROVE  PermitsAgree'
  <2>1. Leave(t) /\ reloading[t].pc \in {"load", "publish", "count"}
    BY ZenonT(30), <1>2 DEF Reload, ReloadLock, ReloadLoad, ReplaceRules, ReplaceAliases, Count
  <2> QED
    BY ZenonT(30), <2>1, LeavePermits
<1>3. ASSUME NEW c \in Conns, Accept(c) \/ TimesOut(c) \/ RequestReload(c) \/ Closes(c)
      PROVE  PermitsAgree'
  <2>1. conns \in [Conns -> ConnStates]
    BY ZenonT(30), CoreTypes
  <2> QED
    BY ZenonT(30), <1>3, <2>1, PermitsMove DEF Accept, TimesOut, RequestReload, Closes
<1>4. CASE Next /\ ~UNCHANGED serving
  <2>1. "signal" \in Threads /\ "watcher" \in Threads /\ Conns \subseteq Threads
    BY ZenonT(30) DEF Threads
  <2>2. \/ StopServer
        \/ \E t \in Threads : Reload(t)
        \/ \E c \in Conns : Accept(c) \/ TimesOut(c) \/ RequestReload(c) \/ Closes(c)
    BY ZenonT(30), <1>4, <2>1
    DEF Next, Save, Touch, Hangup, Terminate, Request, TapDisabled, Dispatch, InstallTap, MainFails, MainStops, MainEnds, Main,
        Load, LoadInstalled, Serve, Settle, DestroyTap, ServerDrained, Exit, Watcher, WatchBegins, Drain, WindowCloses,
        WatchEnds, Watchdog, WatchdogWakes, WatchdogChecks
  <2> QED
    BY ZenonT(30), <1>2, <1>3, <1>4, <2>2, StopPermits
<1> QED
  BY ZenonT(30), <1>1, <1>4 DEF vars, serving

-----------------------------------------------------------------------------
(* The theorems.                                                           *)

\* The locks, the count, the port and the versions of the file agree at every step, whatever
\* the number of connections and of writes of the file.
THEOREM InvHolds == Spec => [](Inv /\ SavedAgrees)
BY InitCore, NextCore, InitSaved, NextSaved, PTL DEF Spec

\* The scopes of the rules that a key event is matched against are aliases in force, and the
\* installed mode never matches against rules that the compositor's plugin cannot honour.
THEOREM ScopesInForce == Spec => []InForce
<1>1. Inv /\ SavedAgrees => InForce
  BY ZenonT(30), CoreTypes, CoreAgrees DEF NeverMixed, SavedAgrees, InForce, Kind
<1> QED
  BY <1>1, InvHolds, PTL

\* A key event never sees the rules of one configuration and the aliases of another.
THEOREM EventsUnmixed == Spec => []NeverMixed
<1>1. Inv => NeverMixed
  BY CoreAgrees
<1> QED
  BY <1>1, InvHolds, PTL

\* The watchdog never touches a port that is gone.
THEOREM PortLives == Spec => []PortOutlivesWatchdog
<1>1. Inv => PortOutlivesWatchdog
  BY DEF Inv, Core
<1> QED
  BY <1>1, InvHolds, PTL

\* However reloads of IPC, SIGHUP and the file watcher interleave, with each other and with
\* writes of the file, the rules in force never go back to an older version of the file.
THEOREM ReloadsNeverOlder == Spec => NeverOlder
<1>1. Inv /\ [Next]_vars => [rules' >= rules]_rules
  <2> SUFFICES ASSUME Inv, Next, rules' # rules PROVE rules' >= rules
    BY ZenonT(30) DEF vars
  <2>1. \/ Load \/ LoadInstalled
        \/ \E t \in Threads : ReplaceRules(t) /\ rules' = reloading[t].file.version
    BY ZenonT(30) DEF Next, Main, Watcher, Watchdog, Request, Reload, Threads, MainStops, MainFails, matching, world,
           Save, Touch, TapDisabled, Serve, ReloadLock, ReloadLoad, ReplaceRules, ReplaceAliases, Count,
           Dispatch, Settle, WatchBegins, Drain, WindowCloses, WatchEnds, Hangup, Terminate, Accept,
           RequestReload, Closes, TimesOut, InstallTap, WatchdogWakes, WatchdogChecks, DestroyTap, MainEnds,
           StopServer, ServerDrained, Exit
  <2> QED
    BY SMTT(30), <2>1, CoreTypes, CoreAgrees DEF LocksAgree, Load, LoadInstalled, ReplaceRules
<1> QED
  BY <1>1, InvHolds, PTL DEF Spec, NeverOlder

\* The whole inductive invariant, whatever the number of connections, of texts and of writes
\* of the file.
THEOREM DaemonInductive == Spec => []DaemonInv
<1>1. Spec => []PermitsAgree
  BY InitPermits, NextPermits, InvHolds, PTL DEF Spec
<1>2. Inv /\ SavedAgrees /\ PermitsAgree /\ InForce => DaemonInv
  BY ZenonT(30), Bounded DEF DaemonInv, Inv, Core
<1> QED
  BY <1>1, <1>2, InvHolds, ScopesInForce, PTL

\* A client whose request times out while its reload blocks frees no permit, so the reloads
\* on blocking threads never outnumber the permits.
THEOREM ReloadsBounded == Spec => []BlockingBounded
<1>1. DaemonInv => BlockingBounded
  BY ZenonT(30) DEF DaemonInv
<1> QED
  BY <1>1, DaemonInductive, PTL

=============================================================================
