------------------------------ MODULE Filters ------------------------------
(* The filters the web interface offers, one definition for each file under
   src/ui/src/misc/filters (the graph that createGraph makes of the settings),
   and the graph of a profile that FilterSelect.js puts together.
   A graph is a sequence of filters <<name, value>>; the empty sequence is the
   empty string. With logos a graph has named ends, <<"[in]", "">> and
   <<"[out]", "">>, and nothing can be appended to it. *)
EXTENDS Integers, Sequences, SequencesExt

One(name, value) == << <<name, value>> >>
When(enabled, graph) == IF enabled THEN graph ELSE <<>>

-----------------------------------------------------------------------------
(* Video *)

\* fps: an integer for a number as createGraph reads it, 0 for other text
Timestamps(s) == When(s.enabled /\ 0 < s.fps /\ s.fps <= 240, One("fps", s.fps))
Bwdif(s) == When(s.enabled, One("bwdif", s.mode))
Framerate(s) == When(s.enabled, One("framerate", s.fps))
Scale(s) ==
    CASE s.mode = "height" -> One("scale", s.height)
      [] s.mode = "width"  -> One("scale", s.width)
      [] s.mode = "fix"    -> One("scale", s.fix)
      [] OTHER -> <<>>
Transpose(s) ==
    CASE s.value = "90"  -> One("transpose", "clock")
      [] s.value = "180" -> One("transpose", "clock") \o One("transpose", "clock")
      [] s.value = "270" -> One("transpose", "cclock")
      [] OTHER -> <<>>
HFlip(s) == When(s.enabled, One("hflip", ""))
VFlip(s) == When(s.enabled, One("vflip", ""))
TextOverlay(s) == When(s.enabled, One("drawtext", s.textfile))

\* composeGraph: the logos are laid over the other filters, the text comes last.
\* A logo is used whether or not the text is enabled.
Logo(l) == When(l.enabled /\ l.stored, One("movie", l.position) \o One("overlay", l.position))
OrNull(graph) == IF graph = <<>> THEN One("null", "") ELSE graph
ComposeGraph(s, ordinary) ==
    LET logos == Logo(s.logo1) \o Logo(s.logo2)
    IN  IF logos = <<>> THEN ordinary \o TextOverlay(s)
        ELSE One("[in]", "") \o OrNull(ordinary) \o logos
                \o OrNull(TextOverlay(s)) \o One("[out]", "")

\* Filter of TextOverlay.js: a template is written to the file of the channel.
OverlaySettings(s) == [s EXCEPT !.textfile = IF s.template THEN "channel" ELSE @]

\* migrateGraph: the clock that counts frames (dev12) becomes the filter fps,
\* if the settings are good for one.
LegacyClock == "setpts"
MigrateGraph(graph, s) ==
    IF Timestamps(s) = <<>> THEN graph
    ELSE [i \in DOMAIN graph |-> IF graph[i][1] = LegacyClock THEN Timestamps(s)[1]
                                 ELSE graph[i]]

-----------------------------------------------------------------------------
(* Audio *)

Resample(s) ==
    When(s.sampling # "inherit" \/ s.layout # "inherit",
         One("aresample", <<s.sampling, s.layout>>))
Pan(s) ==
    CASE s.value = "mute_left"  -> One("pan", "c1")
      [] s.value = "mute_right" -> One("pan", "c0")
      [] OTHER -> <<>>
Volume(s) ==
    CASE s.level = "inherit" -> <<>>
      [] s.level = "custom"  -> One("volume", s.db)
      [] OTHER -> One("volume", s.level)
Loudnorm(s) == When(s.enabled, One("loudnorm", ""))

-----------------------------------------------------------------------------
(* The registries: the filters in the order of registration *)

Registered ==
    [video |-> <<"setpts", "bwdif", "fps", "scale", "transpose", "hflip", "vflip",
                 "drawtext">>,
     audio |-> <<"aresample", "pan", "volume", "loudnorm">>]

Off == [enabled |-> FALSE]
NoLogo == [enabled |-> FALSE, stored |-> FALSE, position |-> "top_right"]

\* init({}) of a filter.
FilterDefaults ==
    [setpts    |-> [enabled |-> FALSE, fps |-> 15],
     bwdif     |-> [enabled |-> FALSE, mode |-> "1"],
     fps       |-> [enabled |-> FALSE, fps |-> 30],
     scale     |-> [mode |-> "none", fix |-> "1280x720", width |-> "1280:-1",
                    height |-> "-1:720"],
     transpose |-> [value |-> "none"],
     hflip     |-> Off,
     vflip     |-> Off,
     drawtext  |-> [enabled |-> FALSE, textfile |-> "channel", template |-> FALSE,
                    logo1 |-> NoLogo, logo2 |-> [NoLogo EXCEPT !.position = "top_left"]],
     aresample |-> [layout |-> "stereo", sampling |-> "44100"],
     pan       |-> [value |-> "inherit"],
     volume    |-> [level |-> "inherit", db |-> "0dB"],
     loudnorm  |-> Off]

CreateGraph(f, s) ==
    CASE f = "setpts"    -> Timestamps(s)
      [] f = "bwdif"     -> Bwdif(s)
      [] f = "fps"       -> Framerate(s)
      [] f = "scale"     -> Scale(s)
      [] f = "transpose" -> Transpose(s)
      [] f = "hflip"     -> HFlip(s)
      [] f = "vflip"     -> VFlip(s)
      [] f = "drawtext"  -> TextOverlay(s)
      [] f = "aresample" -> Resample(s)
      [] f = "pan"       -> Pan(s)
      [] f = "volume"    -> Volume(s)
      [] f = "loudnorm"  -> Loudnorm(s)

-----------------------------------------------------------------------------
(* The filter of a profile: [graph, settings], where settings maps the names of
   filters to [settings, graph]. *)

\* mutant: the text is put where it is registered among the filters that follow
FullGraph_TextFirst(type, settings) ==
    LET used == SelectSeq(Registered[type], LAMBDA f : f \in DOMAIN settings /\ f # "drawtext")
        ordinary == FlattenSeq([i \in DOMAIN used |-> settings[used[i]].graph])
    IN  IF "drawtext" \in DOMAIN settings
        THEN settings["drawtext"].graph \o ordinary
        ELSE ordinary

FullGraph(type, settings) ==
    LET used == SelectSeq(Registered[type], LAMBDA f : f \in DOMAIN settings /\ f # "drawtext")
        ordinary == FlattenSeq([i \in DOMAIN used |-> settings[used[i]].graph])
    IN  IF "drawtext" \in DOMAIN settings
        THEN ComposeGraph(settings["drawtext"].settings, ordinary)
        ELSE ordinary

With(settings, f, entry) ==
    [g \in DOMAIN settings \cup {f} |-> IF g = f THEN entry ELSE settings[g]]

\* handleFilterSettingsChange
ChangeFilter(filter, type, f, s) ==
    LET settings == With(filter.settings, f, [settings |-> s, graph |-> CreateGraph(f, s)])
    IN  [settings |-> settings, graph |-> FullGraph(type, settings)]

\* The rendering of FilterSelect: every filter ffmpeg has gets an entry, and its
\* component hands its settings back when it is mounted.
StoredSettings(filter, f) ==
    IF f \in DOMAIN filter.settings THEN filter.settings[f].settings @@ FilterDefaults[f]
    ELSE FilterDefaults[f]
MountFilters(filter, type, available) ==
    LET shown == SelectSeq(Registered[type], LAMBDA f : f \in available)
    IN  FoldLeft(LAMBDA g, f : ChangeFilter(g, type, f,
                                   IF f = "drawtext"
                                   THEN OverlaySettings(StoredSettings(g, f))
                                   ELSE StoredSettings(g, f)),
                 filter, shown)
=============================================================================
