------------------------------ MODULE MCDaemon ------------------------------
(***************************************************************************)
(* A small instance of Daemon for TLC: two connections compete for one     *)
(* permit, and the file is written twice, with a text that is acceptable,  *)
(* one that only the installed mode refuses, or one with one of the        *)
(* mistakes that validation finds.                                         *)
(***************************************************************************)
EXTENDS Daemon, TLC

App(wayland, legacy) ==
    [c \in Categories |-> IF c = "wayland" THEN wayland ELSE IF c = "linux" THEN legacy ELSE None]
Source(linux) == [p \in Platforms |-> IF p = "linux" THEN linux ELSE None]
Hotkey(key, mods) == [kind |-> "hotkey", key |-> key, mods |-> mods]
Tap(key, count, within) == [kind |-> "tap", tap |-> key, count |-> count, within_ms |-> within]
SendKey == [kind |-> "send_key", key |-> "KeyA", mods |-> {"left_cmd"}]
SetSource(id, source) == [kind |-> "set_input_source", id |-> id, source |-> source]
Binding(trigger, action, apps) == [trigger |-> trigger, action |-> action, app_in |-> apps]
Document(bindings) ==
    [log_level |-> "info", bindings |-> bindings,
     app_aliases |-> (1 :> App("org.term", "term") @@ 2 :> App("org.web", None)),
     input_source_aliases |-> (1 :> Source("xkb:de"))]

\* Two rules, one of them for an application.
Good == Document(<<Binding(Hotkey("KeyA", {"ctrl", "super"}), SendKey, {1, 2}),
                   Binding(Hotkey("KeyA", {"alt"}), SendKey, None)>>)
\* A tap that selects a source which only Linux has.
LinuxOnly == Document(<<Binding(Tap("LeftShift", 2, 300), SetSource(None, 1), None)>>)

MCDocuments ==
    {Good, LinuxOnly, None,
     [Good EXCEPT !.log_level = "loud"],
     [Good EXCEPT !.app_aliases[2] = App("org.term", None)],
     [Good EXCEPT !.app_aliases[2] = App(" ", None)],
     [Good EXCEPT !.input_source_aliases = 1 :> Source("xkb:de") @@ 2 :> Source("xkb:de")],
     Document(<<Binding(Hotkey("KeyA", {}), SendKey, {3})>>),
     Document(<<Binding(Hotkey("Key", {}), SendKey, None)>>),
     Document(<<Binding(Hotkey("KeyA", {"hyper"}), SendKey, None)>>),
     Document(<<Binding(Tap("KeyA", 2, 300), SendKey, None)>>),
     Document(<<Binding(Tap("LeftShift", 1, 300), SendKey, None)>>),
     Document(<<Binding(Tap("LeftShift", 2, 0), SendKey, None)>>),
     Document(<<Binding(Hotkey("KeyA", {}), SetSource("xkb:de", 1), None)>>),
     Document(<<Binding(Hotkey("KeyA", {}), SetSource(" ", None), None)>>),
     Document(<<Binding(Hotkey("KeyA", {}), SetSource(None, 3), None)>>)}

=============================================================================
