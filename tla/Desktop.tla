------------------------------ MODULE Desktop ------------------------------
(***************************************************************************)
(* The same-user desktop integration: the worker that polls focus and the  *)
(* input-source catalogue into two caches, the bounded queue of source     *)
(* actions and the thread that selects them, the provider mutex both       *)
(* threads share, the kinds of provider behind it, among them the one      *)
(* whose focus is pushed to a bridge thread, start-up and shutdown.        *)
(*                                                                         *)
(* Time is counted in ticks, as ages: how long ago an observation was      *)
(* stamped and how long ago its answer arrived.  Past FOCUS_TTL an age     *)
(* stops counting.  A reply may come at any time, or never; every wait may *)
(* be cut off at any moment, as the operation's budget of IPC_TIMEOUT is   *)
(* spent by whatever ran before it, and is cut off in the end.             *)
(***************************************************************************)
EXTENDS Naturals, Sequences, FiniteSets

CONSTANTS
    Providers,          \* subset of {"sway", "hyprland", "x11", "gnome", "kwin", "input_method"}
    Ids, Layouts,
    Inventories,        \* the source maps the desktop may have, from ids to layouts
    None,               \* no observation, source or owner
    FocusTTL,           \* FOCUS_TTL, in ticks
    Capacity,           \* CAPACITY of the source queue
    MaxRestarts         \* bound: restarts of the compositor or input-method daemon

ASSUME DesktopAssumption ==
    /\ FocusTTL \in Nat /\ Capacity \in Nat \ {0} /\ MaxRestarts \in Nat
    /\ None \notin Ids \cup {"poller", "selector"}

ASSUME InventoriesAssumption ==
    /\ Providers \subseteq {"sway", "hyprland", "x11", "gnome", "kwin", "input_method"}
    /\ Inventories \subseteq UNION {[S -> Layouts] : S \in SUBSET Ids}
    /\ None \notin [epoch : 0..MaxRestarts, inv : Inventories]

VARIABLES
    provider,           \* the one the operator selected
    world,              \* the desktop itself; its current source may be one not listed
    dead,               \* what is asked over a stream or D-Bus connection that is invalidated
                        \* or whose other end is gone for good
    bridge, pushed,     \* the KWin bridge thread, and the age of the push it took last
    focus, sources,     \* FocusCache (how old it is) and SourceCache
    queue,              \* actions with the catalogue captured at admission
    poller, selector,   \* the two threads, and the operation each is in
    owner,              \* holder of the provider mutex
    down                \* how far start-up and shutdown are

desktopVars == <<provider, world, dead, bridge, pushed, focus, sources, queue, poller, selector, owner, down>>
kwin == <<bridge, pushed>>

Ages == 0..FocusTTL + 1
Epochs == 0..MaxRestarts
Catalogs == [epoch : Epochs, inv : Inventories]
Both == {"focus", "sources"}
Older(age) == IF age <= FocusTTL THEN age + 1 ELSE age

PollerPcs == {"off", "want_poll", "poll", "poll_again", "polled", "want_sources", "sources", "sourced", "end"}
SelectorPcs == {"off", "recv", "want", "fresh", "check", "switch", "confirm", "confirmed", "end"}

DesktopTypeOK ==
    /\ provider \in Providers /\ dead \subseteq Both
    /\ bridge \in {"off", "starting", "serving", "ended"} /\ pushed \in {None} \cup [stamp : 0..FocusTTL, read : Ages]
    /\ world \in [inv : Inventories, current : Ids \cup {None}, epoch : Epochs]
    /\ world.current \in DOMAIN world.inv \cup {None}
    /\ focus \in {None} \cup [stamp : Ages, read : Ages]
    /\ sources \in {None} \cup [catalog : Catalogs, stamp : Ages, read : Ages]
    /\ queue \in Seq([catalog : Catalogs, id : Ids]) /\ Len(queue) <= Capacity
    /\ poller \in [pc : PollerPcs, stamp : Ages, read : Ages, kept : BOOLEAN, epoch : Epochs,
                   catalog : Catalogs \cup {None}]
    /\ poller.pc = "sourced" => poller.catalog # None
    /\ selector \in [pc : SelectorPcs, id : Ids \cup {None}, captured : Catalogs \cup {None}, epoch : Epochs,
                     catalog : Catalogs \cup {None}, active : BOOLEAN, meant : Ids \cup Layouts \cup {None}]
    /\ selector.pc \notin {"off", "recv", "end"} => selector.id # None /\ selector.captured # None
    /\ selector.pc \in {"check", "confirmed"} => selector.catalog # None
    /\ owner \in {None, "poller", "selector"}
    /\ down \in {"connecting", "running", "sources", "desktop", "bridge", "done"}

Resting == [pc |-> "want_poll", stamp |-> 0, read |-> 0, kept |-> TRUE,
            epoch |-> 0, catalog |-> None]
Receiving == [pc |-> "recv", id |-> None, captured |-> None, epoch |-> 0, catalog |-> None,
              active |-> FALSE, meant |-> None]

DesktopInit ==
    /\ provider \in Providers /\ dead = {}
    /\ bridge = (IF provider = "kwin" THEN "starting" ELSE "off") /\ pushed = None
    /\ \E i \in Inventories : \E c \in DOMAIN i \cup {None} :
          world = [inv |-> i, current |-> c, epoch |-> 0]
    /\ focus = None /\ sources = None /\ queue = <<>>
    /\ poller = [Resting EXCEPT !.pc = "off"] /\ selector = [Receiving EXCEPT !.pc = "off"]
    /\ owner = None /\ down = "connecting"

-----------------------------------------------------------------------------
(* The desktop, and time.                                                  *)

\* Of the desktop's own steps, those that come before shutdown.  The user edits the layouts, or switches by hand.
LayoutsChange ==
    /\ down = "running"
    /\ \E i \in Inventories : \E c \in DOMAIN i \cup {None} : world' = [world EXCEPT !.inv = i, !.current = c]
    /\ UNCHANGED <<provider, dead, kwin, focus, sources, queue, poller, selector, owner, down>>

\* The connections that end with what restarts: the X server; the input-method daemon, or only Sway;
\* GNOME Shell, or only its extension; KWin, or the keyboard daemon.
Restarting ==
    CASE provider = "x11" -> {Both}
      [] provider = "input_method" -> {{}, {"sources"}}
      [] provider = "gnome" -> {{}, Both}
      [] provider = "kwin" -> {{"focus"}, {"sources"}}
      [] OTHER -> {{}}

Restart ==
    /\ down = "running" /\ world.epoch < MaxRestarts
    /\ world' = [world EXCEPT !.epoch = @ + 1]
    /\ \E gone \in Restarting : dead' = dead \cup gone
    /\ UNCHANGED <<provider, kwin, focus, sources, queue, poller, selector, owner, down>>

\* To its readers an entry older than FOCUS_TTL is none.
Aged(entry) ==
    IF entry = None \/ entry.stamp >= FocusTTL THEN None
    ELSE [entry EXCEPT !.stamp = Older(@), !.read = Older(@)]

\* One tick: every age grows.
TimePasses ==
    /\ focus' = Aged(focus) /\ sources' = Aged(sources)
    /\ poller' = [poller EXCEPT !.stamp = IF poller.pc \in {"off", "want_poll", "end"} THEN 0 ELSE Older(@),
                     !.read = IF poller.pc \in {"poll_again", "polled", "sourced"} THEN Older(@) ELSE 0]
    /\ pushed' = Aged(pushed)
    /\ UNCHANGED <<provider, world, dead, bridge, queue, selector, owner, down>>

-----------------------------------------------------------------------------
(* Operation budgets, the provider mutex and the connection.               *)

\* operation::remaining, in each thread's scope: not stopped.  That its budget is spent is
\* PollFails and SelectFails, at any moment.
PollerMay == down \notin {"desktop", "bridge", "done"}
SelectorMay == down = "running"

\* The file of a Sway or Hyprland socket may be replaced, and its epoch is looked at again
\* when the answer is in; an X11 stream, or the owner of a D-Bus name, is one for good.
Pinned == provider \notin {"sway", "hyprland"}
SocketEpoch == IF Pinned THEN 0 ELSE world.epoch

\* The connections that a failed poll may cost: any failed X11 operation ends the stream,
\* a D-Bus request that fails or is cut off its connection, an answer that is refused none.
PollBreaks ==
    CASE provider = "x11" -> {Both}
      [] provider = "gnome" /\ poller.pc = "poll" -> {{}, Both}
      [] provider = "kwin" /\ poller.pc = "poll" -> {{}, {"focus"}}
      [] OTHER -> {{}}
\* The same of a query or a selection of sources, in a D-Bus request or not.
SourcesBreak(request) ==
    CASE provider = "x11" -> {Both}
      [] provider = "gnome" /\ request -> {{}, Both}
      [] provider \in {"kwin", "input_method"} /\ request -> {{}, {"sources"}}
      [] OTHER -> {{}}

\* The inventory each provider reports, under the token it identifies it by: the socket's
\* device, inode and times, the X11 connection, the epoch that the GNOME extension sends
\* along, or the unique owner of the bus name.
SwayCatalog(epoch) == [epoch |-> epoch, inv |-> world.inv]
HyprlandCatalog(epoch) == [epoch |-> epoch, inv |-> world.inv]
X11Catalog == [epoch |-> 0, inv |-> world.inv]
GnomeCatalog == [epoch |-> world.epoch, inv |-> world.inv]
KwinCatalog == [epoch |-> 0, inv |-> world.inv]
InputMethodCatalog == [epoch |-> 0, inv |-> world.inv]
Catalog(epoch) ==
    CASE provider = "sway" -> SwayCatalog(epoch)
      [] provider = "hyprland" -> HyprlandCatalog(epoch)
      [] provider = "x11" -> X11Catalog
      [] provider = "gnome" -> GnomeCatalog
      [] provider = "kwin" -> KwinCatalog
      [] provider = "input_method" -> InputMethodCatalog

-----------------------------------------------------------------------------
(* The polling worker.                                                     *)

\* The flag that ends the loop, looked at before each round.
PollerEnds ==
    /\ poller.pc = "want_poll" /\ ~PollerMay
    /\ poller' = [poller EXCEPT !.pc = "end"]
    /\ focus' = None /\ sources' = None
    /\ UNCHANGED <<provider, world, dead, kwin, queue, selector, owner, down>>

\* The lock, the time stamp and the socket's epoch.
BeginPoll ==
    /\ poller.pc = "want_poll" /\ PollerMay /\ owner = None
    /\ owner' = "poller"
    /\ poller' = [poller EXCEPT !.pc = "poll", !.stamp = 0, !.epoch = world.epoch]
    /\ UNCHANGED <<provider, world, dead, kwin, focus, sources, queue, selector, down>>

\* Hyprland is asked whether the session is locked, X11 for the active window again; the
\* others have no second question.
AsksAgain == provider \in {"hyprland", "x11"}

\* The tree, the active window, _NET_ACTIVE_WINDOW with its class, or the extension's
\* snapshot.  KWin's is the last push, received and thus stamped earlier, if it is fresh.
FocusReply ==
    /\ poller.pc = "poll" /\ PollerMay /\ "focus" \notin dead
    /\ provider = "kwin" => pushed # None
    /\ LET entry == IF provider = "kwin" THEN pushed ELSE [stamp |-> poller.stamp, read |-> 0]
       IN  poller' = [poller EXCEPT !.pc = IF AsksAgain THEN "poll_again" ELSE "polled",
                                    !.stamp = entry.stamp, !.read = entry.read]
    /\ UNCHANGED <<provider, world, dead, kwin, focus, sources, queue, selector, owner, down>>

\* A plausible slip: the observation is stamped when it is complete.
MutSecondReply ==
    /\ poller.pc = "poll_again" /\ PollerMay /\ "focus" \notin dead
    /\ \E kept \in BOOLEAN :
          poller' = [poller EXCEPT !.pc = "polled", !.stamp = 0, !.kept = kept]
    /\ UNCHANGED <<provider, world, dead, kwin, focus, sources, queue, selector, owner, down>>

\* Hyprland's lock query, which must say unlocked; X11's active window, asked again, which
\* must be the same.
SecondReply ==
    /\ poller.pc = "poll_again" /\ PollerMay /\ "focus" \notin dead
    /\ \E kept \in BOOLEAN :
          poller' = [poller EXCEPT !.pc = "polled", !.kept = kept]
    /\ UNCHANGED <<provider, world, dead, kwin, focus, sources, queue, selector, owner, down>>

\* What a provider makes of its answers: the socket must still be the one asked, the
\* session unlocked and the stamp fresh, the window still the active one.
SwayKeeps == poller.epoch = world.epoch
HyprlandKeeps == poller.epoch = world.epoch /\ poller.kept /\ poller.stamp <= FocusTTL
X11Keeps == poller.kept
CompanionKeeps == TRUE
Observation ==
    LET keep == CASE provider \in {"sway", "input_method"} -> SwayKeeps
                  [] provider = "hyprland" -> HyprlandKeeps
                  [] provider = "x11" -> X11Keeps
                  [] provider \in {"gnome", "kwin"} -> CompanionKeeps
    IN  IF keep THEN [stamp |-> poller.stamp, read |-> poller.read] ELSE None

\* The lock is released and the cache written; an observation without a focus reads
\* as none, and the round goes on.
StoreFocus ==
    /\ poller.pc = "polled" /\ PollerMay
    /\ focus' = Observation
    /\ owner' = None
    /\ poller' = [Resting EXCEPT !.pc = "want_sources"]
    /\ UNCHANGED <<provider, world, dead, kwin, sources, queue, selector, down>>

BeginSources ==
    /\ poller.pc = "want_sources" /\ PollerMay /\ owner = None
    /\ owner' = "poller"
    /\ poller' = [poller EXCEPT !.pc = "sources", !.epoch = SocketEpoch]
    /\ UNCHANGED <<provider, world, dead, kwin, focus, sources, queue, selector, down>>

SourcesReply ==
    /\ poller.pc = "sources" /\ PollerMay /\ "sources" \notin dead
    /\ poller' = [poller EXCEPT !.pc = "sourced", !.read = 0,
                     !.catalog = Catalog(poller.epoch)]
    /\ UNCHANGED <<provider, world, dead, kwin, focus, sources, queue, selector, owner, down>>

\* Stored with the time at which the catalogue was asked for.
StoreSources ==
    /\ poller.pc = "sourced" /\ PollerMay
    /\ poller.epoch = SocketEpoch
    /\ sources' = [catalog |-> poller.catalog, stamp |-> poller.stamp, read |-> poller.read]
    /\ owner' = None /\ poller' = Resting
    /\ UNCHANGED <<provider, world, dead, kwin, focus, queue, selector, down>>

\* A plausible slip: a thread cut off waiting for the lock opens it.
MutRelease(thread) == None

Release(thread) == IF owner = thread THEN None ELSE owner

\* A plausible slip: a reply is waited for without the budget.
MutPollFails ==
    /\ poller.pc \notin {"off", "end", "poll"} /\ (poller.pc = "want_poll" => PollerMay)
    /\ owner' = Release("poller")
    /\ \E broken \in IF poller.pc \in {"want_poll", "want_sources"} THEN {{}}
                     ELSE IF poller.pc \in {"sources", "sourced"} THEN SourcesBreak(TRUE)
                     ELSE PollBreaks :
          dead' = dead \cup broken
    /\ focus' = IF poller.pc \in {"want_poll", "poll", "poll_again", "polled"} THEN None ELSE focus
    /\ sources' = None
    /\ poller' = Resting
    /\ UNCHANGED <<provider, world, kwin, queue, selector, down>>

\* An error, or a budget spent, anywhere in a round clears what the round was to refresh.
PollFails ==
    /\ poller.pc \notin {"off", "end"} /\ (poller.pc = "want_poll" => PollerMay)
    /\ owner' = Release("poller")
    /\ \E broken \in IF poller.pc \in {"want_poll", "want_sources"} THEN {{}}
                     ELSE IF poller.pc \in {"sources", "sourced"} THEN SourcesBreak(TRUE)
                     ELSE PollBreaks :
          dead' = dead \cup broken
    /\ focus' = IF poller.pc \in {"want_poll", "poll", "poll_again", "polled"} THEN None ELSE focus
    /\ sources' = None
    /\ poller' = Resting
    /\ UNCHANGED <<provider, world, kwin, queue, selector, down>>

-----------------------------------------------------------------------------
(* The source queue and the thread that serves it.                         *)

\* A press whose action sets the input source: the cached catalogue must
\* be fresh, the source known, the worker running and the queue not full.
Submit(id) ==
    /\ sources # None /\ sources.stamp <= FocusTTL
    /\ id \in DOMAIN sources.catalog.inv
    /\ down = "running" /\ Len(queue) < Capacity
    /\ queue' = Append(queue, [catalog |-> sources.catalog, id |-> id])
    /\ UNCHANGED <<provider, world, dead, kwin, focus, sources, poller, selector, owner, down>>

Receive ==
    /\ selector.pc = "recv"
    /\ IF down # "running"
       THEN selector' = [selector EXCEPT !.pc = "end"] /\ UNCHANGED queue
       ELSE /\ queue # <<>>
            /\ selector' = [Receiving EXCEPT !.pc = "want", !.id = Head(queue).id,
                                             !.captured = Head(queue).catalog]
            /\ queue' = Tail(queue)
    /\ UNCHANGED <<provider, world, dead, kwin, focus, sources, poller, owner, down>>

BeginSelect ==
    /\ selector.pc = "want" /\ SelectorMay /\ owner = None
    /\ owner' = "selector"
    /\ selector' = [selector EXCEPT !.pc = "fresh", !.epoch = SocketEpoch]
    /\ UNCHANGED <<provider, world, dead, kwin, focus, sources, queue, poller, down>>

FreshReply ==
    /\ selector.pc = "fresh" /\ SelectorMay /\ "sources" \notin dead
    /\ selector' = [selector EXCEPT !.pc = "check", !.catalog = Catalog(selector.epoch)]
    /\ UNCHANGED <<provider, world, dead, kwin, focus, sources, queue, poller, owner, down>>

\* SourceCatalog::check: the captured inventory, exactly.
Same(captured, fresh, id) == captured = fresh /\ id \in DOMAIN fresh.inv

Check ==
    /\ selector.pc = "check" /\ SelectorMay
    /\ selector.epoch = SocketEpoch
    /\ Same(selector.captured, selector.catalog, selector.id)
    /\ selector' = [selector EXCEPT !.pc = "switch", !.catalog = None]
    /\ UNCHANGED <<provider, world, dead, kwin, focus, sources, queue, poller, owner, down>>

\* The command takes effect, and its success is reported; the GNOME extension itself
\* refuses another epoch or another inventory.
SwitchReply ==
    /\ selector.pc = "switch" /\ SelectorMay /\ "sources" \notin dead
    /\ selector.id \in DOMAIN world.inv
    /\ provider = "gnome" => selector.captured = GnomeCatalog
    /\ world' = [world EXCEPT !.current = selector.id]
    /\ selector' = [selector EXCEPT !.pc = "confirm"]
    /\ UNCHANGED <<provider, dead, kwin, focus, sources, queue, poller, owner, down>>

\* What a source id stands for: an engine or a GNOME source is its own name, a layout a
\* place in the map.
Named == {"input_method", "gnome"}
Meaning(inv, id) == IF provider \in Named THEN id ELSE inv[id]

\* The state read back after the switch.
ConfirmReply ==
    /\ selector.pc = "confirm" /\ SelectorMay /\ "sources" \notin dead
    /\ selector' = [selector EXCEPT !.pc = "confirmed", !.active = world.current = selector.id,
                       !.meant = IF world.current = None THEN None ELSE Meaning(world.inv, world.current),
                       !.catalog = Catalog(selector.epoch)]
    /\ UNCHANGED <<provider, world, dead, kwin, focus, sources, queue, poller, owner, down>>

Report ==
    /\ owner' = Release("selector")
    /\ selector' = Receiving

\* A plausible slip: the inventory is not looked at again after the switch.
MutHyprlandConfirms == selector.active

\* The layout's index is the active one.
SwayConfirms == selector.active
\* So it is, and the inventory and the socket are still the captured ones.
HyprlandConfirms ==
    selector.active /\ Same(selector.captured, [selector.catalog EXCEPT !.epoch = world.epoch], selector.id)
\* The group, the engine, the source or the layout is the current one.
X11Confirms == selector.active
InputMethodConfirms == selector.active
GnomeConfirms == selector.active
KwinConfirms == selector.active
Confirmed ==
    CASE provider = "sway" -> SwayConfirms
      [] provider = "hyprland" -> HyprlandConfirms
      [] provider = "x11" -> X11Confirms
      [] provider = "gnome" -> GnomeConfirms
      [] provider = "kwin" -> KwinConfirms
      [] provider = "input_method" -> InputMethodConfirms

Selected ==
    /\ selector.pc = "confirmed" /\ SelectorMay /\ Confirmed
    /\ Report
    /\ UNCHANGED <<provider, world, dead, kwin, focus, sources, queue, poller, down>>

\* Stale, unknown, refused, unconfirmed, unreachable, or cut off.
SelectFails ==
    /\ selector.pc \notin {"off", "recv", "end"}
    /\ Report
    /\ \E broken \in IF selector.pc = "want" THEN {{}}
                     ELSE SourcesBreak(selector.pc \in {"fresh", "switch", "confirm"}) :
          dead' = dead \cup broken
    /\ UNCHANGED <<provider, world, kwin, focus, sources, queue, poller, down>>

-----------------------------------------------------------------------------
(* The thread that serves the KWin companion, and start-up.                *)

\* Receiver::publish: a push under a new sequence number replaces the state and is stamped
\* on receipt, one that repeats a number leaves it alone.  A push that no poll can look at
\* any more, KWin having restarted or the connection being lost, is left out.
Publish(new) ==
    /\ bridge = "serving" /\ "focus" \notin dead
    /\ pushed' = IF new THEN [stamp |-> 0, read |-> 0] ELSE pushed
    /\ UNCHANGED <<provider, world, dead, bridge, focus, sources, queue, poller, selector, owner, down>>

\* The connection is built and the object served, perhaps after nobody waits any more.
BridgeServes ==
    /\ bridge = "starting" /\ bridge' = "serving"
    /\ UNCHANGED <<provider, world, dead, pushed, focus, sources, queue, poller, selector, owner, down>>

\* Told to stop, at the next look every 25 ms; or the building fails, at its deadline at the
\* latest, which the other side finds out by ConnectFails.
BridgeEnds ==
    /\ bridge \in {"starting", "serving"} /\ down = "bridge"
    /\ bridge' = "ended" /\ pushed' = None
    /\ UNCHANGED <<provider, world, dead, focus, sources, queue, poller, selector, owner, down>>

\* The provider is connected, a bridge ready; both workers start.
Connect ==
    /\ down = "connecting" /\ bridge # "starting"
    /\ poller' = Resting /\ selector' = Receiving /\ down' = "running"
    /\ UNCHANGED <<provider, world, dead, kwin, focus, sources, queue, owner>>

\* Refused, unreachable, or not in time: a bridge is told to stop and joined.
ConnectFails ==
    /\ down = "connecting"
    /\ down' = IF provider = "kwin" THEN "bridge" ELSE "done"
    /\ UNCHANGED <<provider, world, dead, kwin, focus, sources, queue, poller, selector, owner>>

-----------------------------------------------------------------------------
(* Shutdown: the source worker is stopped and joined, then the desktop     *)
(* worker, whose caches are cleared once more, and the provider with it,   *)
(* which joins its bridge.                                                 *)

Stop ==
    /\ down = "running" /\ down' = "sources"
    /\ UNCHANGED <<provider, world, dead, kwin, focus, sources, queue, poller, selector, owner>>

DropSources ==
    /\ down = "sources" /\ selector.pc = "end" /\ down' = "desktop"
    /\ queue' = <<>>
    /\ UNCHANGED <<provider, world, dead, kwin, focus, sources, poller, selector, owner>>

DropDesktop ==
    /\ down = "desktop" /\ poller.pc = "end"
    /\ down' = IF provider = "kwin" THEN "bridge" ELSE "done"
    /\ focus' = None /\ sources' = None
    /\ UNCHANGED <<provider, world, dead, kwin, queue, poller, selector, owner>>

Joined ==
    /\ down = "bridge" /\ bridge = "ended" /\ down' = "done"
    /\ UNCHANGED <<provider, world, dead, kwin, focus, sources, queue, poller, selector, owner>>

-----------------------------------------------------------------------------
PollRound == PollerEnds \/ BeginPoll \/ FocusReply \/ SecondReply \/ StoreFocus \/ BeginSources \/ SourcesReply
             \/ StoreSources \/ PollFails
Selection == Receive \/ BeginSelect \/ FreshReply \/ Check \/ SwitchReply \/ ConfirmReply \/ Selected \/ SelectFails

DesktopNext ==
    \/ LayoutsChange \/ Restart \/ TimePasses \/ Stop
    \/ \E id \in Ids : Submit(id)
    \/ PollRound \/ Selection \/ DropSources \/ DropDesktop
    \/ Connect \/ ConnectFails \/ Joined
    \/ BridgeServes \/ BridgeEnds
    \/ \E new \in BOOLEAN : Publish(new)

PollerThread == PollerEnds \/ PollFails \/ DropDesktop \/ BridgeEnds \/ Joined
SelectorThread == Receive \/ SelectFails \/ DropSources

\* Threads run, and a wait that brings nothing is cut off; no reply is ever owed.  The
\* bridge is stopped where the poller is over or never began, so one fairness does for both.
DesktopSpec == DesktopInit /\ [][DesktopNext]_desktopVars
               /\ WF_desktopVars(PollerThread) /\ WF_desktopVars(SelectorThread)

-----------------------------------------------------------------------------
(* Properties.                                                             *)

\* A focus that FocusCache::current hands to the matcher, and a catalogue that
\* SourceCache::current hands to the queue, was the desktop's answer at most FOCUS_TTL
\* ago, however long the second query, the epoch check, the mutex and the caller took:
\* the stamp precedes the first request.
CachesFresh ==
    \A cache \in {focus, sources} : (cache # None /\ cache.stamp <= FocusTTL) => cache.read <= FocusTTL

\* "never silently reinterpret an old group index after a map/config change"
\* (SourceDispatcher::select), of the providers that look at the inventory again after the
\* switch or whose ids are names: a selection reported successful activated the source that
\* the catalogue captured at the press listed under its id, also if layouts were edited or
\* the compositor restarted between check and switch.
RecheckedNeverReinterprets ==
    [][(Selected /\ provider \in {"hyprland"} \cup Named) =>
          selector.meant = Meaning(selector.captured.inv, selector.id)]_desktopVars

\* Two threads never use the provider at once, also after one of them was cut off in it.
Using(thread) == thread.pc \in {"poll", "poll_again", "polled", "sources", "sourced", "fresh", "check",
                                "switch", "confirm", "confirmed"}
ProviderSerialized == /\ Using(poller) => owner = "poller"
                      /\ Using(selector) => owner = "selector"

\* What is stamped was read after its stamp was taken: of the caches, of KWin's last push
\* and of a round of polling once the answer is in.
ReadSinceStamped ==
    /\ \A entry \in {focus, sources, pushed} : entry # None => entry.read <= entry.stamp
    /\ poller.pc \in {"poll_again", "polled", "sourced"} => poller.read <= poller.stamp

\* The state read back after a switch is one state: a source that is active is what the
\* inventory read along with it lists under its id.
ReadBackTogether ==
    (selector.pc = "confirmed" /\ selector.active) =>
       selector.meant = Meaning(selector.catalog.inv, selector.id)

\* With it, the types, and what the properties above rest on; the queue of selections, in
\* particular, stays within its capacity.
DesktopInv == DesktopTypeOK /\ ProviderSerialized /\ ReadSinceStamped /\ ReadBackTogether

\* Neither shutdown nor the end of a failed start-up goes on forever although no reply ever
\* comes: each join waits for a thread whose every wait, the mutex included, is bounded by
\* its budget.
ShutsDown == []<>(down \notin {"sources", "desktop", "bridge"})

=============================================================================
