------------------------------- MODULE Daemon -------------------------------
(***************************************************************************)
(* The daemon process: start-up, the reload closure shared by `sledge      *)
(* reload`, SIGHUP and the config-file watcher, the matching lock it and   *)
(* every key event take, the IPC server and its permits, the macOS event   *)
(* tap with its watchdog, and shutdown.                                    *)
(*                                                                         *)
(* A configuration is the version of the file it was read from; what       *)
(* loading makes of that version is Config's.  Matching itself is in       *)
(* Matcher and Transactions; here an event is what it sees.                *)
(***************************************************************************)
EXTENDS Config

CONSTANTS
    Modes,              \* subset of {"macos", "linux", "installed"}: platform and Hyprland mode
    Conns,              \* bound: IPC connections at a time, admitted or timed out
    MaxConnections,     \* MAX_CONNECTIONS
    Documents,          \* the texts the configuration file may have
    TapFeatures,        \* whether the installed Hyprland plugin supports taps
    MaxSaves            \* bound: times the configuration file is written

ASSUME DaemonAssumption ==
    /\ MaxConnections \in Nat \ {0} /\ MaxSaves \in Nat
    /\ IsFiniteSet(Conns) /\ Conns \cap {"signal", "watcher", "event"} = {}
    /\ None \notin Conns \cup {"signal", "watcher", "event"}

\* The names of aliases are numbered in their order.
ASSUME DocumentsAssumption ==
    TapFeatures \in BOOLEAN /\ \A text \in Documents : text # None => DOMAIN text.app_aliases \subseteq Nat

VARIABLES
    mode,
    file, noticed,      \* the file on disk, and whether the watcher was told of its last change
    saved,              \* history: what loading makes of each version of it so far
    stage,              \* how far main is
    rules, aliases,     \* MatchingState, as versions of the file
    counted, reloaded,  \* rules_loaded, and whether last_reload_at is set
    reloading,          \* each thread's place in the reload closure
    reloadLock, lock,   \* holders of reload_lock and of the matching lock
    event,              \* the configuration a key event was dispatched under
    watcher, changed,   \* the watcher thread, and its channel
    handler, stop,      \* whether the signal thread runs, and whether shutdown was requested
    conns, permits,     \* the IPC server
    tap                 \* the event tap and its watchdog

vars == <<mode, file, noticed, saved, stage, rules, aliases, counted, reloaded, reloading, reloadLock, lock, event,
          watcher, changed, handler, stop, conns, permits, tap>>
world == <<mode, file, noticed, saved>>
matching == <<rules, aliases, lock, event>>
reloads == <<reloading, reloadLock, counted, reloaded>>
watching == <<watcher, changed>>
signalling == <<handler, stop>>
serving == <<conns, permits>>

Threads == Conns \cup {"signal", "watcher"}
Idle == [pc |-> "idle", file |-> None]
Files == [version : 0..MaxSaves, kind : {"valid", "unsupported", "invalid"}]
Busy == {"blocking", "orphaned"}
Up == {"running", "unwinding"}          \* the server and the signal thread are

DaemonTypeOK ==
    /\ mode \in Modes /\ file \in Files /\ noticed \in BOOLEAN
    /\ stage \in {"load", "installed", "serve", "running", "unwinding", "draining", "joining", "exit"}
    /\ rules \in 0..MaxSaves /\ aliases \in 0..MaxSaves /\ counted \in 0..MaxSaves
    /\ reloading \in [Threads -> [pc : {"idle", "lock", "load", "publish", "aliases", "count"},
                                  file : Files \cup {None}]]
    /\ reloadLock \in Threads \cup {None} /\ lock \in Threads \cup {"event", None}
    /\ watcher \in {"off", "starting", "recv", "window", "reload", "end"}
    /\ conns \in [Conns -> {"free", "reading", "writing"} \cup Busy]
    /\ tap \in [port : {"none", "live", "freed"}, enabled : BOOLEAN, watchdog : {"off", "sleep", "check", "end"},
                running : BOOLEAN]

\* load_from_file on this platform, and what the daemon makes of the result.
Platform == IF mode = "macos" THEN "macos" ELSE "linux"
Compiled(text) == parse_str_for_platform(text, Platform)
Kind(config) ==
    IF config = None THEN "invalid"
    ELSE IF mode = "installed" /\ ~validate_rules(config, TapFeatures) THEN "unsupported"
    ELSE "valid"

Init ==
    /\ mode \in Modes
    /\ \E text \in Documents :
          /\ Kind(Compiled(text)) = "valid"
          /\ saved = [v \in 0..MaxSaves |-> IF v = 0 THEN Compiled(text) ELSE None]
    /\ file = [version |-> 0, kind |-> "valid"] /\ noticed = FALSE
    /\ stage = "load" /\ rules = 0 /\ aliases = 0 /\ counted = 0 /\ reloaded = FALSE
    /\ reloading = [t \in Threads |-> Idle] /\ reloadLock = None /\ lock = None /\ event = None
    /\ watcher = "off" /\ changed = FALSE
    /\ handler = FALSE /\ stop = FALSE
    /\ conns = [c \in Conns |-> "free"] /\ permits = MaxConnections
    /\ tap = [port |-> "none", enabled |-> FALSE, watchdog |-> "off", running |-> FALSE]

-----------------------------------------------------------------------------
(* The user and the system.                                                *)

\* An editor writes the file; half-written contents are a version of their own.  What it
\* writes once the main loop has ended changes nothing of interest.
Save(text) ==
    /\ file.version < MaxSaves /\ stage \in {"load", "installed", "serve", "running"}
    /\ file' = [version |-> file.version + 1, kind |-> Kind(Compiled(text))]
    /\ saved' = [saved EXCEPT ![file.version + 1] = Compiled(text)]
    /\ noticed' = (watcher \in {"recv", "window", "reload"})
    /\ changed' = (changed \/ noticed')
    /\ UNCHANGED <<mode, stage, matching, reloads, watcher, signalling, serving, tap>>

\* Its metadata alone are modified, or it is written as it was; one more such event in a
\* window would only be drained.
Touch ==
    /\ watcher \in {"recv", "reload"} /\ stage = "running" /\ ~changed
    /\ changed' = TRUE
    /\ UNCHANGED <<world, stage, matching, reloads, watcher, signalling, serving, tap>>

\* The system disables the tap: a slow callback, or user input.
TapDisabled ==
    /\ tap.port = "live" /\ tap.enabled
    /\ tap' = [tap EXCEPT !.enabled = FALSE]
    /\ UNCHANGED <<world, stage, matching, reloads, watching, signalling, serving>>

-----------------------------------------------------------------------------
(* Start-up.                                                               *)

Accepted == file.kind = "valid"

\* run: the first load; its failure ends the process.
Load ==
    /\ stage = "load"
    /\ IF file.kind = "invalid" THEN stage' = "exit" /\ UNCHANGED <<rules, aliases, counted>>
       ELSE /\ rules' = file.version /\ aliases' = file.version /\ counted' = file.version
            /\ stage' = IF mode = "installed" THEN "installed" ELSE "serve"
    /\ UNCHANGED <<world, lock, event, reloading, reloadLock, reloaded, watching, signalling, serving, tap>>

\* The installed mode reads the file again, validates and replaces; the count stays.
LoadInstalled ==
    /\ stage = "installed"
    /\ IF ~Accepted THEN stage' = "exit" /\ UNCHANGED <<rules, aliases>>
       ELSE rules' = file.version /\ aliases' = file.version /\ stage' = "serve"
    /\ UNCHANGED <<world, lock, event, reloads, watching, signalling, serving, tap>>

\* The socket, its server, the signal thread and the watcher's thread, in that order.
Serve ==
    /\ stage = "serve" /\ stage' = "running"
    /\ handler' = TRUE /\ watcher' = "starting"
    /\ UNCHANGED <<world, matching, reloads, changed, stop, serving, tap>>

-----------------------------------------------------------------------------
(* The reload closure, run by any thread.                                  *)

Enter(t) == [reloading EXCEPT ![t] = [pc |-> "lock", file |-> None]]

\* A plausible slip: parsing is outside the lock.
MutReloadLock(t) ==
    /\ reloading[t].pc = "lock"
    /\ reloading' = [reloading EXCEPT ![t].pc = "load"]
    /\ UNCHANGED <<world, stage, matching, reloadLock, counted, reloaded, watching, signalling, serving, tap>>

ReloadLock(t) ==
    /\ reloading[t].pc = "lock" /\ reloadLock = None
    /\ reloadLock' = t
    /\ reloading' = [reloading EXCEPT ![t].pc = "load"]
    /\ UNCHANGED <<world, stage, matching, counted, reloaded, watching, signalling, serving, tap>>

\* A plausible slip: changes seen during the reload are taken as part of it.
MutLeave(t) ==
    /\ reloadLock' = None
    /\ reloading' = [reloading EXCEPT ![t] = Idle]
    /\ IF t = "watcher" THEN watcher' = "recv" /\ changed' = FALSE ELSE UNCHANGED watching
    /\ IF t \in Conns
       THEN /\ conns' = [conns EXCEPT ![t] = IF @ = "orphaned" THEN "free" ELSE "writing"]
            /\ permits' = IF conns[t] = "orphaned" THEN permits + 1 ELSE permits
       ELSE UNCHANGED serving

\* Its result goes back to whoever called it; a request that timed out only frees its permit.
Leave(t) ==
    /\ reloadLock' = None
    /\ reloading' = [reloading EXCEPT ![t] = Idle]
    /\ watcher' = IF t = "watcher" THEN "recv" ELSE watcher
    /\ changed' = changed
    /\ IF t \in Conns
       THEN /\ conns' = [conns EXCEPT ![t] = IF @ = "orphaned" THEN "free" ELSE "writing"]
            /\ permits' = IF conns[t] = "orphaned" THEN permits + 1 ELSE permits
       ELSE UNCHANGED serving

ReloadLoad(t) ==
    /\ reloading[t].pc = "load"
    /\ IF file.kind = "invalid" THEN Leave(t)
       ELSE /\ reloading' = [reloading EXCEPT ![t] = [pc |-> "publish", file |-> file]]
            /\ UNCHANGED <<reloadLock, watching, serving>>
    /\ UNCHANGED <<world, stage, matching, counted, reloaded, signalling, tap>>

\* Under the matching lock: validate_rules in installed mode, then MatchingState::replace.
ReplaceRules(t) ==
    /\ reloading[t].pc = "publish" /\ lock = None
    /\ IF mode = "installed" /\ reloading[t].file.kind = "unsupported"
       THEN Leave(t) /\ UNCHANGED <<rules, lock>>
       ELSE /\ rules' = reloading[t].file.version /\ lock' = t
            /\ reloading' = [reloading EXCEPT ![t].pc = "aliases"]
            /\ UNCHANGED <<reloadLock, watching, serving>>
    /\ UNCHANGED <<world, stage, aliases, event, counted, reloaded, signalling, tap>>

ReplaceAliases(t) ==
    /\ reloading[t].pc = "aliases"
    /\ aliases' = reloading[t].file.version /\ lock' = None
    /\ reloading' = [reloading EXCEPT ![t].pc = "count"]
    /\ UNCHANGED <<world, stage, rules, event, reloadLock, counted, reloaded, watching, signalling, serving, tap>>

\* rules_loaded, last_reload_at and the log level.
Count(t) ==
    /\ reloading[t].pc = "count"
    /\ counted' = reloading[t].file.version /\ reloaded' = TRUE
    /\ Leave(t)
    /\ UNCHANGED <<world, stage, matching, signalling, tap>>

Reload(t) == ReloadLock(t) \/ ReloadLoad(t) \/ ReplaceRules(t) \/ ReplaceAliases(t) \/ Count(t)

-----------------------------------------------------------------------------
(* Key events: MatcherSink::deliver holds the matching lock for the        *)
(* dispatch and, on Linux, until the delivery is settled.                  *)

\* On macOS the callback of an enabled tap; on Linux the broker client or a session.  One
\* that comes after the stop flag is set and before it is looked at could as well come first.
Dispatch ==
    /\ stage = "running" /\ ~stop /\ lock = None /\ event = None
    /\ mode = "macos" => (tap.port = "live" /\ tap.enabled)
    /\ lock' = "event" /\ event' = [rules |-> rules, aliases |-> aliases]
    /\ UNCHANGED <<world, stage, rules, aliases, reloads, watching, signalling, serving, tap>>

Settle ==
    /\ event # None
    /\ lock' = None /\ event' = None
    /\ UNCHANGED <<world, stage, rules, aliases, reloads, watching, signalling, serving, tap>>

-----------------------------------------------------------------------------
(* The watcher thread.  Other files' events and errors of the notifier     *)
(* leave it where it is.                                                   *)

WatchBegins ==
    /\ watcher = "starting" /\ watcher' = "recv"
    /\ UNCHANGED <<world, stage, matching, reloads, changed, signalling, serving, tap>>

\* A matching event opens the debounce window, or is drained by it.
Drain ==
    /\ watcher \in {"recv", "window"} /\ changed
    /\ watcher = "recv" => stage # "joining"
    /\ watcher' = "window" /\ changed' = FALSE
    /\ UNCHANGED <<world, stage, matching, reloads, signalling, serving, tap>>

WindowCloses ==
    /\ watcher = "window"
    /\ watcher' = "reload" /\ reloading' = Enter("watcher")
    /\ UNCHANGED <<world, stage, matching, reloadLock, counted, reloaded, changed, signalling, serving, tap>>

\* A plausible slip: the flag is looked at only when an event arrives.
MutWatchEnds ==
    /\ stage = "joining" /\ watcher \in {"starting", "recv"} /\ changed
    /\ watcher' = "end"
    /\ UNCHANGED <<world, stage, matching, reloads, changed, signalling, serving, tap>>

\* Its handle is dropped: the flag is seen between two events.
WatchEnds ==
    /\ stage = "joining" /\ watcher \in {"starting", "recv"}
    /\ watcher' = "end"
    /\ UNCHANGED <<world, stage, matching, reloads, changed, signalling, serving, tap>>

Watcher == WatchBegins \/ Drain \/ WindowCloses \/ WatchEnds \/ Reload("watcher")

-----------------------------------------------------------------------------
(* The signal thread takes one signal at a time; one that comes during a  *)
(* reload is one that comes right after it.                                *)

Hangup ==
    /\ stage \in Up /\ handler /\ reloading["signal"].pc = "idle"
    /\ reloading' = Enter("signal")
    /\ UNCHANGED <<world, stage, matching, reloadLock, counted, reloaded, watching, signalling, serving, tap>>

Terminate ==
    /\ stage \in Up /\ handler /\ reloading["signal"].pc = "idle"
    /\ stop' = TRUE /\ handler' = FALSE
    /\ UNCHANGED <<world, stage, matching, reloads, watching, serving, tap>>

-----------------------------------------------------------------------------
(* The IPC server.                                                         *)

\* A connection beyond the permits is dropped at once.
Accept(c) ==
    /\ stage \in Up /\ conns[c] = "free" /\ permits > 0
    /\ c = CHOOSE d \in Conns : conns[d] = "free"
    /\ conns' = [conns EXCEPT ![c] = "reading"] /\ permits' = permits - 1
    /\ UNCHANGED <<world, stage, matching, reloads, watching, signalling, tap>>

\* One frame: a reload goes to a blocking thread with the permit.
RequestReload(c) ==
    /\ stage \in Up /\ conns[c] = "reading"
    /\ conns' = [conns EXCEPT ![c] = "blocking"] /\ reloading' = Enter(c)
    /\ UNCHANGED <<world, stage, matching, reloadLock, counted, reloaded, watching, signalling, permits, tap>>

\* The answer is written; or the frame was bad, or asked for status, which only reads.
Closes(c) ==
    /\ conns[c] \in {"reading", "writing"}
    /\ conns' = [conns EXCEPT ![c] = "free"] /\ permits' = permits + 1
    /\ UNCHANGED <<world, stage, matching, reloads, watching, signalling, tap>>

\* A plausible slip: the permit stays with the request's task.
MutTimesOut(c) ==
    /\ conns[c] = "blocking"
    /\ conns' = [conns EXCEPT ![c] = "orphaned"] /\ permits' = permits + 1
    /\ UNCHANGED <<world, stage, matching, reloads, watching, signalling, tap>>

\* REQUEST_TIMEOUT while the reload is on its thread, which keeps the permit.
TimesOut(c) ==
    /\ conns[c] = "blocking"
    /\ conns' = [conns EXCEPT ![c] = "orphaned"] /\ permits' = permits
    /\ UNCHANGED <<world, stage, matching, reloads, watching, signalling, tap>>

Request(c) == RequestReload(c) \/ Closes(c) \/ Reload(c)

-----------------------------------------------------------------------------
(* The macOS main loop and watchdog.                                       *)

\* Once both permissions are granted.
InstallTap ==
    /\ mode = "macos" /\ stage = "running" /\ ~stop /\ tap.port = "none"
    /\ tap' = [port |-> "live", enabled |-> TRUE, watchdog |-> "sleep", running |-> TRUE]
    /\ UNCHANGED <<world, stage, matching, reloads, watching, signalling, serving>>

\* It slept.  A pass that finds the tap enabled changes nothing and is left out, unless it
\* is the last one.
WatchdogWakes ==
    /\ tap.watchdog = "sleep" /\ (tap.running => ~tap.enabled)
    /\ tap' = [tap EXCEPT !.watchdog = "check"]
    /\ UNCHANGED <<world, stage, matching, reloads, watching, signalling, serving>>

\* A plausible slip: the watchdog is done once it had to act.
MutWatchdogChecks ==
    /\ tap.watchdog = "check"
    /\ tap' = [tap EXCEPT !.watchdog = IF tap.enabled /\ tap.running THEN "sleep" ELSE "end", !.enabled = TRUE]
    /\ UNCHANGED <<world, stage, matching, reloads, watching, signalling, serving>>

\* CGEventTapIsEnabled and CGEventTapEnable, on the port; then the flag.
WatchdogChecks ==
    /\ tap.watchdog = "check"
    /\ tap' = [tap EXCEPT !.watchdog = IF tap.running THEN "sleep" ELSE "end", !.enabled = TRUE]
    /\ UNCHANGED <<world, stage, matching, reloads, watching, signalling, serving>>

\* The watchdog is joined, then the port is invalidated and the context freed.
DestroyTap ==
    /\ stage = "unwinding" /\ tap.port = "live" /\ tap.watchdog = "end"
    /\ tap' = [tap EXCEPT !.port = "freed", !.enabled = FALSE]
    /\ UNCHANGED <<world, stage, matching, reloads, watching, signalling, serving>>

-----------------------------------------------------------------------------
(* Shutdown.                                                               *)

\* The main loop ends; its watchdog is told.
MainEnds ==
    /\ stage = "running" /\ event = None
    /\ stage' = "unwinding" /\ tap' = [tap EXCEPT !.running = FALSE]
    /\ UNCHANGED <<world, matching, reloads, watching, signalling, serving>>

\* On its flag, or because the broker, the session or the tap's run loop is gone.
MainStops == stop /\ MainEnds
MainFails == ~stop /\ MainEnds

\* The server's tasks are dropped; what is on a blocking thread goes on.
StopServer ==
    /\ stage = "unwinding" /\ tap.port # "live"
    /\ stage' = "draining"
    /\ conns' = [c \in Conns |-> IF conns[c] \in Busy THEN "orphaned" ELSE "free"]
    /\ permits' = MaxConnections - Cardinality({c \in Conns : conns[c] \in Busy})
    /\ UNCHANGED <<world, matching, reloads, watching, signalling, tap>>

\* shutdown_timeout: the blocking threads are done, or are left behind.
ServerDrained ==
    /\ stage = "draining" /\ stage' = "joining"
    /\ UNCHANGED <<world, matching, reloads, watching, signalling, serving, tap>>

\* The watcher is joined and, on Linux, the signal thread, which its handle's close ends.
Exit ==
    /\ stage = "joining" /\ watcher = "end"
    /\ mode # "macos" => reloading["signal"].pc = "idle"
    /\ stage' = "exit" /\ handler' = FALSE
    /\ UNCHANGED <<world, matching, reloads, watching, stop, serving, tap>>

Main == Load \/ LoadInstalled \/ Serve \/ Settle \/ MainStops \/ DestroyTap \/ StopServer \/ ServerDrained \/ Exit
Watchdog == WatchdogWakes \/ WatchdogChecks

Next ==
    /\ stage # "exit"
    /\ \/ \E text \in Documents : Save(text)
       \/ Touch
       \/ Hangup \/ Terminate
       \/ \E c \in Conns : Accept(c) \/ TimesOut(c) \/ Request(c)
       \/ TapDisabled \/ Dispatch \/ InstallTap \/ MainFails
       \/ Main \/ Watcher \/ Reload("signal") \/ Watchdog

\* Every thread runs, and one that waits for a lock gets it if it is free again and again;
\* the user, the clients and the system need not act.
Spec ==
    /\ Init /\ [][Next]_vars
    /\ WF_vars(stage # "exit" /\ Main)
    /\ SF_vars(stage # "exit" /\ Watcher) /\ SF_vars(stage # "exit" /\ Reload("signal"))
    /\ SF_vars(stage # "exit" /\ \E c \in Conns : Reload(c)) /\ WF_vars(stage # "exit" /\ Watchdog)

-----------------------------------------------------------------------------
(* Properties.                                                             *)

\* "an older overlapping reload cannot publish after a newer generation": whatever mix of
\* IPC, SIGHUP and file watching triggers reloads, the rules only move to newer versions.
NeverOlder == [][rules' >= rules]_rules

\* "an event never observes mixed config generations during a reload", and what it was
\* dispatched under is still in force when its delivery is settled.
NeverMixed == event # None => (event.rules = event.aliases /\ event.rules = rules /\ event.aliases = aliases)

\* Between reloads status counts the rules that are in force, unless none has succeeded
\* since the installed mode read the file a second time.
CountAgrees ==
    ((\A t \in Threads : reloading[t].pc \notin {"aliases", "count"}) /\ (reloaded \/ mode # "installed"))
        => counted = rules

\* Requests that time out do not let more than MAX_CONNECTIONS reloads pile up on
\* blocking threads.
BlockingBounded == Cardinality({t \in Conns : reloading[t].pc # "idle"}) <= MaxConnections

\* Who holds the two locks follows from where the threads are, and only the thread that is
\* replacing them can see rules and aliases differ; a file being published is not older
\* than the rules in force, and the file on disk is not either.
LocksAgree ==
    /\ \A t \in Threads :
          /\ reloading[t].pc \in {"load", "publish", "aliases", "count"} <=> reloadLock = t
          /\ reloading[t].pc = "aliases" <=> lock = t
          /\ reloading[t].pc \in {"publish", "aliases", "count"} =>
                reloading[t].file \in Files /\ reloading[t].file.version \in rules..file.version
          /\ reloading[t].pc \in {"aliases", "count"} => reloading[t].file.version = rules
    /\ event # None => lock = "event"
    /\ lock \notin Threads => rules = aliases
    /\ aliases <= rules /\ rules <= file.version

\* A permit is out for each connection that is not free.
PermitsAgree ==
    permits \in 0..MaxConnections /\ permits = MaxConnections - Cardinality({c \in Conns : conns[c] # "free"})

\* A connection is busy exactly while it, or what it left behind on a blocking thread,
\* reloads.
BusyAgree ==
    /\ \A c \in Conns : reloading[c].pc # "idle" <=> conns[c] \in Busy
    /\ reloading["watcher"].pc # "idle" <=> watcher = "reload"

\* Nothing runs beside main before the socket is served.
Booting == stage \in {"load", "installed", "serve"}
StartsAlone ==
    /\ Booting => /\ event = None /\ lock = None /\ ~reloaded /\ watcher = "off"
                  /\ \A t \in Threads : reloading[t].pc = "idle"
                  /\ \A c \in Conns : conns[c] = "free"
    /\ stage = "installed" => mode = "installed"
    /\ stage = "load" => rules = 0 /\ counted = 0

\* Every application a rule's scope names is an alias, and every identity that an alias
\* declares is resolved to that alias.
ScopesResolve(config, app_aliases) ==
    /\ \A i \in DOMAIN config.rules :
          config.rules[i].when_app_in # None => config.rules[i].when_app_in \subseteq DOMAIN app_aliases
    /\ \A n \in DOMAIN app_aliases : \A identity \in app_identities(app_aliases[n]) :
          resolve_focused_app(app_aliases, Platform, identity[2], identity) = n

\* The history is that of the file; what compiled resolves its own scopes, and what is in
\* force or being published did compile; what the installed mode could not honour is in
\* force only until it has read the file itself.
SavedAgrees ==
    /\ saved = [v \in 0..MaxSaves |-> saved[v]] /\ file.kind = Kind(saved[file.version])
    /\ \A v \in 0..MaxSaves : saved[v] # None => ScopesResolve(saved[v], saved[v].app_aliases)
    /\ \A t \in Threads :
          reloading[t].pc \in {"publish", "aliases", "count"} =>
             /\ reloading[t].file.kind = Kind(saved[reloading[t].file.version])
             /\ reloading[t].file.kind # "invalid"
    /\ saved[rules] # None /\ saved[aliases] # None
    /\ (mode = "installed" /\ stage \notin {"load", "installed", "exit"}) => Kind(saved[rules]) = "valid"
    /\ event # None => stage = "running"

\* So it is of the rules and the aliases that an event is dispatched under, although a
\* reload replaces one after the other; and in installed mode, where a file is validated
\* once more after it is loaded, those rules are ones that the compositor's plugin can honour.
InForce ==
    event # None =>
       /\ ScopesResolve(saved[event.rules], saved[event.aliases].app_aliases)
       /\ mode = "installed" => validate_rules(saved[event.rules], TapFeatures)

\* While its watchdog runs the port is live: the watchdog never touches one that is gone.
PortOutlivesWatchdog == tap.watchdog \in {"sleep", "check"} => tap.port = "live"

\* The inductive invariant behind the properties of the reload closure, the IPC server and
\* the watchdog, at every interleaving of their threads.
DaemonInv ==
    DaemonTypeOK /\ LocksAgree /\ BusyAgree /\ PermitsAgree /\ StartsAlone /\ PortOutlivesWatchdog
    /\ SavedAgrees /\ InForce /\ NeverMixed /\ CountAgrees /\ BlockingBounded

\* While the daemon runs, a change the watcher is told of does not stay out of force
\* forever, unless the file is not acceptable: also if it comes in the debounce window or
\* during a reload.
CatchesUp == []<>~(stage = "running" /\ noticed /\ Accepted /\ rules # file.version)

\* While the loop runs, a tap does not stay disabled: the watchdog enables it again.
TapRecovers == []<>~(stage = "running" /\ tap.port = "live" /\ ~tap.enabled)

\* A request to shut down ends the process, whatever reloads are under way: no join waits
\* for a thread that waits for it.
Terminates == []<>(stop => stage = "exit")

=============================================================================
