------------------------------- MODULE Config -------------------------------
(***************************************************************************)
(* The configuration file: what loading it makes of its text, and how the  *)
(* compiled rules and aliases are looked up.                               *)
(*                                                                         *)
(* A text is None if it is not TOML of the document's shape; otherwise it  *)
(* is the document, whose absent options are None.  Lists whose order does *)
(* not matter are sets, and the names of aliases are numbers, ordered like *)
(* the names.  A failed validation yields None; which error it reports is  *)
(* left out.                                                               *)
(***************************************************************************)
EXTENDS Integers, Sequences, FiniteSets

CONSTANTS
    None,
    KeyNames,           \* the names that keycode_from_name knows
    ModifierKeys,       \* those of them that are modifiers
    Blank               \* the identifiers that are empty but for white space

ASSUME ConfigAssumption == None \notin Nat \cup KeyNames

-----------------------------------------------------------------------------
(* Aliases.                                                                *)

Categories == {"macos", "linux", "wayland", "x11_class", "windows"}
Platforms == {"macos", "linux", "windows"}

app_identities(alias) == {<<c, alias[c]>> : c \in {k \in Categories : alias[k] # None}}

\* The alias that has this identity, and of several the first.
resolve_app_identity(aliases, identity) ==
    LET names == {n \in DOMAIN aliases : identity \in app_identities(aliases[n])}
    IN  IF names = {} THEN None ELSE CHOOSE n \in names : \A m \in names : n <= m

input_source_id(alias, platform) == alias[platform]

resolve_input_source(aliases, name, platform) ==
    IF name \in DOMAIN aliases THEN input_source_id(aliases[name], platform) ELSE None

validate_identifier(id) == id \notin Blank

\* No identifier is blank, and none is declared twice in its category.
validate_app_aliases(aliases) ==
    \A n \in DOMAIN aliases : \A identity \in app_identities(aliases[n]) :
       /\ validate_identifier(identity[2])
       /\ \A m \in DOMAIN aliases : identity \in app_identities(aliases[m]) => m = n

validate_input_sources(aliases) ==
    \A n \in DOMAIN aliases : \A p \in {q \in Platforms : input_source_id(aliases[n], q) # None} :
       /\ validate_identifier(input_source_id(aliases[n], p))
       /\ \A m \in DOMAIN aliases : input_source_id(aliases[m], p) = input_source_id(aliases[n], p) => m = n

\* The name that scopes are matched against: the alias of the typed identity, on Linux the
\* one of the legacy identifier, else what the desktop calls the application.
resolve_focused_app(aliases, platform, focused, identity) ==
    LET typed == resolve_app_identity(aliases, identity)
        legacy == IF platform = "linux" THEN resolve_app_identity(aliases, <<"linux", focused>>) ELSE None
    IN  IF typed # None THEN typed ELSE IF legacy # None THEN legacy ELSE focused

-----------------------------------------------------------------------------
(* Bindings.                                                               *)

keycode_from_name(name) == IF name \in KeyNames THEN name ELSE None
is_modifier(key) == key \in ModifierKeys

\* A modifier of one side sets its own bit and that of the pair.
ModBits == [ctrl |-> {"CTRL"}, shift |-> {"SHIFT"}, alt |-> {"ALT"}, fn |-> {"FN"},
            cmd |-> {"CMD"}, meta |-> {"CMD"}, super |-> {"CMD"},
            left_ctrl |-> {"LEFT_CTRL", "CTRL"}, right_ctrl |-> {"RIGHT_CTRL", "CTRL"},
            left_shift |-> {"LEFT_SHIFT", "SHIFT"}, right_shift |-> {"RIGHT_SHIFT", "SHIFT"},
            left_alt |-> {"LEFT_ALT", "ALT"}, right_alt |-> {"RIGHT_ALT", "ALT"},
            left_cmd |-> {"LEFT_CMD", "CMD"}, right_cmd |-> {"RIGHT_CMD", "CMD"}]

parse_mods(list) == IF list \subseteq DOMAIN ModBits THEN UNION {ModBits[name] : name \in list} ELSE None

\* Of a hotkey and of a key that is sent.
parse_chord(kind, chord) ==
    LET key == keycode_from_name(chord.key)
        mods == parse_mods(chord.mods)
    IN  IF key = None \/ mods = None THEN None ELSE [kind |-> kind, key |-> key, mods |-> mods]

parse_trigger(t) ==
    IF t.kind = "hotkey" THEN parse_chord("hotkey", t)
    ELSE LET key == keycode_from_name(t.tap)
         IN  IF key # None /\ is_modifier(key) /\ t.count >= 2 /\ t.within_ms # 0
             THEN [kind |-> "tap", tap |-> key, count |-> t.count, within_ms |-> t.within_ms]
             ELSE None

\* A native id is taken as it is, a logical source resolved for the platform; a binding
\* names one of the two.
parse_action(a, input_sources, platform) ==
    IF a.kind = "send_key" THEN parse_chord("send_key", a)
    ELSE LET id == IF a.source = None THEN a.id
                   ELSE IF a.id = None THEN resolve_input_source(input_sources, a.source, platform)
                   ELSE None
         IN  IF id # None /\ (a.source = None => validate_identifier(id))
             THEN [kind |-> "set_input_source", id |-> id] ELSE None

\* Every name a scope lists is an alias.
validate_when(app_in, aliases) == app_in # None => app_in \subseteq DOMAIN aliases

validate_binding(b, aliases, input_sources, platform) ==
    LET trigger == parse_trigger(b.trigger)
        action == parse_action(b.action, input_sources, platform)
    IN  IF trigger # None /\ action # None /\ validate_when(b.app_in, aliases)
        THEN [trigger |-> trigger, action |-> action, when_app_in |-> b.app_in]
        ELSE None

-----------------------------------------------------------------------------
(* Documents.                                                              *)

validate_log_level(level) == level \in {"trace", "debug", "info", "warn", "error"}

validate(doc, platform) ==
    LET rules == [i \in DOMAIN doc.bindings |->
                     validate_binding(doc.bindings[i], doc.app_aliases, doc.input_source_aliases, platform)]
    IN  IF /\ validate_log_level(doc.log_level)
           /\ validate_app_aliases(doc.app_aliases) /\ validate_input_sources(doc.input_source_aliases)
           /\ \A i \in DOMAIN rules : rules[i] # None
        THEN [app_aliases |-> doc.app_aliases, rules |-> rules]
        ELSE None

parse_str_for_platform(text, platform) == IF text = None THEN None ELSE validate(text, platform)

\* Installed Hyprland: only keys are sent, and taps need the plugin's second revision.
validate_rules(config, taps) ==
    \A i \in DOMAIN config.rules :
       /\ config.rules[i].trigger.kind = "hotkey" \/ taps
       /\ config.rules[i].action.kind = "send_key"

=============================================================================
